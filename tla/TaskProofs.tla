------------------------------ MODULE TaskProofs ------------------------------
(***************************************************************************)
(* Theorems about the tasks of a case: the calls to the task desk, with    *)
(* their files and claims, and the steps that are parked until someone     *)
(* outside answers: a node that an admin parks, a review, a payment, an    *)
(* event of the ports authority.                                           *)
(***************************************************************************)
EXTENDS TaskDesk, NodeAdmin, Reviews, Payments, SlpaEvents, TLAPS

----------------------------------------------------------------------------
(***************************************************************************)
(* Whatever calls overlap, parties are replaced, tokens sent on and expire:*)
(* files stay with the parties of their cases, what a step stores was its  *)
(* sender's to send, and a claim passes on only as it was handed over.     *)
(***************************************************************************)

\* A party of a case has been recorded as having been one.
PartiesAreRemembered == \A c \in Cases, r \in Roles : party[c][r] # NoHandle => party[c][r] \in wasParty[c][r]

\* A caller may read a file: it is its own, or it stands in a task of a case it was a party of.
MayRead(who, file) ==
  \/ who \in Clients /\ uploader[file] = who
  \/ \E t \in Tasks : file \in wasIn[t] /\ (who \in Clients \/ EverIn(who, CaseOf[t]) # {})

MaySubmit(who, file) == \E k \in tokens : k.file = file /\ k.holder = who /\ "submit" \in k.scopes

TokensWereGranted == \A k \in tokens : "read" \in k.scopes => MayRead(k.holder, k.file)

RecordsAreRemembered == \A t \in Tasks : FilesIn(task[t]) \subseteq wasIn[t]

\* What a call has found out by the step it is at, about the record it has read.
CallKnows(r) ==
  LET c == call[r]
  IN /\ FilesIn(c.seen) \subseteq wasIn[c.task]
     /\ c.pc # "idle" => c.who \in Callers /\ (c.kind \in {"claim", "release"} => c.who \in Users)
     /\ c.pc = "admit" => c.kind \notin {"complete", "draft"}
     /\ c.pc = "show" => EverIn(c.who, CaseOf[c.task]) # {}
     /\ c.pc \in {"claim", "take over", "release"} => c.who \in Users
     /\ c.pc = "take over" => c.seen.step # Done
     /\ c.pc = "apply" /\ c.ref # NoFile => c.ref \in Files /\ MaySubmit(c.who, c.ref)

DeskInv ==
  /\ DeskType
  /\ PartiesAreRemembered
  /\ TokensWereGranted
  /\ RecordsAreRemembered
  /\ \A r \in Calls : CallKnows(r)
  /\ FilesStayInTheirCase
  /\ StoredFilesWereTheirs

----------------------------------------------------------------------------
(* The operators of the model.                                             *)

LEMMA NoCallTyped ==
  /\ NewTask \in Records /\ NoCall \in CallState /\ NoCall.pc = "idle"
  /\ FilesIn(NewTask) = {} /\ NoCall.seen = NewTask
<1>1. NewTask \in Records
  BY DeskAssumption DEF NewTask, Records, Done
<1>2. (CHOOSE t \in Tasks : TRUE) \in Tasks
  BY DeskAssumption
<1>3. NoCall \in CallState
  BY <1>1, <1>2, DeskAssumption DEF NoCall, CallState, Pcs, Kinds, Commands, NoRef
<1>4. FilesIn(NewTask) = {}
  BY DeskAssumption DEF FilesIn, NewTask
<1> QED
  BY <1>1, <1>3, <1>4 DEF NoCall

LEMMA IssueTyped ==
  ASSUME NEW who \in Callers, NEW f \in Files, NEW scopes \in (SUBSET Scopes) \ {{}}
  PROVE  /\ Issue(who, f, scopes) \in Tokens
         /\ Issue(who, f, scopes).holder = who /\ Issue(who, f, scopes).file = f
         /\ Issue(who, f, scopes).scopes = scopes
  BY DEF Issue, Seal, Tokens

Answers == {0, 200, 204, 400, 403, 404, 409, 410}
Answered(kind, who, t, answer) == [NoCall EXCEPT !.kind = kind, !.who = who, !.task = t, !.status = answer]
LEMMA AnsweredTyped ==
  ASSUME NEW kind \in Kinds, NEW who \in Callers \cup {NoCaller}, NEW t \in Tasks, NEW answer \in Answers
  PROVE  /\ Answered(kind, who, t, answer) \in CallState
         /\ Answered(kind, who, t, answer).pc = "idle" /\ Answered(kind, who, t, answer).seen = NewTask
<1> DEFINE c == [NoCall EXCEPT !.kind = kind, !.who = who, !.task = t, !.status = answer]
<1>1. c = [[[[NoCall EXCEPT !.kind = kind] EXCEPT !.who = who] EXCEPT !.task = t] EXCEPT !.status = answer]
  OBVIOUS
<1>2. /\ \A x \in CallState : [x EXCEPT !.kind = kind] \in CallState
      /\ \A x \in CallState : [x EXCEPT !.who = who] \in CallState
  BY DEF CallState
<1>3. /\ \A x \in CallState : [x EXCEPT !.task = t] \in CallState
      /\ \A x \in CallState : [x EXCEPT !.status = answer] \in CallState
  BY DEF CallState, Answers
<1>4. c \in CallState
  BY <1>1, <1>2, <1>3, NoCallTyped
<1>5. c.pc = "idle" /\ c.seen = NewTask
  BY NoCallTyped DEF CallState
<1> QED
  BY <1>4, <1>5 DEF Answered

\* A call that is answered keeps nothing that it has found out.
LEMMA AnswerDoes ==
  ASSUME DeskType, NEW r \in Calls, NEW status \in Answers, Answer(r, status)
  PROVE  /\ call' \in [Calls -> CallState]
         /\ call'[r].pc = "idle" /\ call'[r].seen = NewTask
         /\ \A q \in Calls \ {r} : call'[q] = call[q]
<1>1. call \in [Calls -> CallState]
  BY DEF DeskType
<1>2. call[r].kind \in Kinds /\ call[r].who \in Callers \cup {NoCaller} /\ call[r].task \in Tasks
  BY <1>1 DEF CallState
<1> DEFINE c == Answered(call[r].kind, call[r].who, call[r].task, status)
<1>3. c \in CallState /\ c.pc = "idle" /\ c.seen = NewTask
  BY <1>2, AnsweredTyped
<1>4. call' = [call EXCEPT ![r] = c]
  BY DEF Answer, Answered
<1> HIDE DEF c
<1> QED
  BY <1>1, <1>3, <1>4

LEMMA GotoDoes ==
  ASSUME DeskType, NEW r \in Calls, NEW pc \in Pcs, Goto(r, pc)
  PROVE  /\ call' \in [Calls -> CallState]
         /\ call'[r] = [call[r] EXCEPT !.pc = pc]
         /\ call'[r].pc = pc
         /\ call'[r].seen = call[r].seen /\ call'[r].who = call[r].who /\ call'[r].kind = call[r].kind
         /\ call'[r].task = call[r].task /\ call'[r].ref = call[r].ref
         /\ \A q \in Calls \ {r} : call'[q] = call[q]
<1>1. call \in [Calls -> CallState]
  BY DEF DeskType
<1>2. [call[r] EXCEPT !.pc = pc] \in CallState
  BY <1>1 DEF CallState
<1> QED
  BY <1>1, <1>2 DEF Goto, CallState

\* The roles that a caller may claim are roles it has held.
LEMMA ClaimsAreHeld ==
  ASSUME DeskType, PartiesAreRemembered, NEW who, NEW t \in Tasks, Claims(who, t) # {}
  PROVE  who \in Users /\ EverIn(who, CaseOf[t]) # {}
<1> DEFINE eligible == IF who \in Users THEN Eligible(HeldRoles[who], OwnedRoles(who, CaseOf[t]), Roles) ELSE {}
           listed == {i \in DOMAIN ReadRoles : ReadRoles[i] \in eligible}
<1>1. Claims(who, t) = IF ReadRoles = <<>> THEN eligible
                      ELSE {ReadRoles[i] : i \in {j \in listed : \A k \in listed : j <= k}}
  BY DEF Claims
<1>2. eligible # {}
  BY <1>1
<1>3. PICK x \in eligible : TRUE
  BY <1>2
<1>4. who \in Users
  BY <1>2
<1>5. x \in Roles /\ x \in HeldRoles[who] /\ x \in RolesOf(CaseOf[t], OUOf[who])
  BY <1>3, <1>4 DEF Eligible, OwnedRoles
<1>6. party[CaseOf[t]][x] = OUOf[who] /\ OUOf[who] # NoHandle
  BY <1>5 DEF RolesOf
<1>7. OUOf[who] \in wasParty[CaseOf[t]][x]
  BY <1>5, <1>6, DeskAssumption DEF PartiesAreRemembered
<1> QED
  BY <1>4, <1>5, <1>7 DEF EverIn

----------------------------------------------------------------------------
(* What has been stored, shared and recorded stays so.                     *)

Grows ==
  /\ \A t \in Tasks : wasIn[t] \subseteq wasIn'[t]
  /\ \A c \in Cases, r \in Roles : wasParty[c][r] \subseteq wasParty'[c][r]
  /\ \A k \in tokens : \E l \in tokens' : l.holder = k.holder /\ l.file = k.file /\ l.scopes = k.scopes
  /\ \A f \in Files : uploader[f] # NoCaller => uploader'[f] = uploader[f]

LEMMA Lasting ==
  ASSUME Grows
  PROVE  /\ \A who : \A c \in Cases : EverIn(who, c) # {} => EverIn(who, c)' # {}
         /\ \A who : \A f \in Files : MayRead(who, f) => MayRead(who, f)'
         /\ \A who, f : MaySubmit(who, f) => MaySubmit(who, f)'
<1>1. \A who : \A c \in Cases : EverIn(who, c) # {} => EverIn(who, c)' # {}
  <2> SUFFICES ASSUME NEW who, NEW c \in Cases, NEW x \in EverIn(who, c) PROVE x \in EverIn(who, c)'
    OBVIOUS
  <2> QED
    BY DEF EverIn, Grows
<1>2. \A who : \A f \in Files : MayRead(who, f) => MayRead(who, f)'
  <2> SUFFICES ASSUME NEW who, NEW f \in Files, MayRead(who, f) PROVE MayRead(who, f)'
    OBVIOUS
  <2>1. CASE who \in Clients /\ uploader[f] = who
    BY <2>1, DeskAssumption DEF MayRead, Grows, Callers
  <2>2. CASE \E t \in Tasks : f \in wasIn[t] /\ (who \in Clients \/ EverIn(who, CaseOf[t]) # {})
    <3>1. PICK t \in Tasks : f \in wasIn[t] /\ (who \in Clients \/ EverIn(who, CaseOf[t]) # {})
      BY <2>2
    <3>2. CaseOf[t] \in Cases
      BY DeskAssumption
    <3>3. f \in wasIn'[t]
      BY <3>1 DEF Grows
    <3>4. who \in Clients \/ EverIn(who, CaseOf[t])' # {}
      BY <1>1, <3>1, <3>2
    <3> QED
      BY <3>3, <3>4 DEF MayRead
  <2> QED
    BY <2>1, <2>2 DEF MayRead
<1>3. \A who, f : MaySubmit(who, f) => MaySubmit(who, f)'
  BY DEF MaySubmit, Grows
<1> QED
  BY <1>1, <1>2, <1>3

\* What a call has found out stays true while it waits.
LEMMA CallKeeps ==
  ASSUME DeskType, Grows, NEW r \in Calls, call'[r] = call[r], CallKnows(r)
  PROVE  CallKnows(r)'
<1>1. call[r].task \in Tasks /\ CaseOf[call[r].task] \in Cases
  BY DeskAssumption DEF DeskType, CallState
<1>2. FilesIn(call[r].seen) \subseteq wasIn'[call[r].task]
  BY <1>1 DEF CallKnows, Grows
<1>3. call[r].pc = "show" => EverIn(call[r].who, CaseOf[call[r].task])' # {}
  BY <1>1, Lasting DEF CallKnows
<1>4. call[r].pc = "apply" /\ call[r].ref # NoFile => MaySubmit(call[r].who, call[r].ref)'
  BY Lasting DEF CallKnows
<1> QED
  BY <1>2, <1>3, <1>4 DEF CallKnows

LEMMA IdleKnows ==
  ASSUME DeskType', NEW r \in Calls, call'[r].pc = "idle", call'[r].seen = NewTask
  PROVE  CallKnows(r)'
  BY NoCallTyped DEF CallKnows

\* A step of a call that only goes on, as most do.
LEMMA OnlyCallsMove ==
  ASSUME DeskInv, NEW r \in Calls, call' \in [Calls -> CallState], calls' \in 0 .. MaxCalls,
         \A q \in Calls \ {r} : call'[q] = call[q],
         CallKnows(r)',
         UNCHANGED <<task, sender, wasIn, replacements, wasParty, party, filesVars>>
  PROVE  DeskInv'
<1>1. Grows
  BY DEF Grows, filesVars
<1>2. DeskType'
  BY DEF DeskInv, DeskType, filesVars, PartyType, FilesType
<1>3. \A q \in Calls : CallKnows(q)'
  BY <1>1, CallKeeps DEF DeskInv
<1>4. PartiesAreRemembered' /\ RecordsAreRemembered'
  BY DEF DeskInv, PartiesAreRemembered, RecordsAreRemembered
<1>5. TokensWereGranted'
  BY DEF DeskInv, TokensWereGranted, MayRead, EverIn, filesVars
<1>6. FilesStayInTheirCase' /\ StoredFilesWereTheirs'
  BY DEF DeskInv, FilesStayInTheirCase, StoredFilesWereTheirs, EverIn, filesVars
<1> QED
  BY <1>2, <1>3, <1>4, <1>5, <1>6 DEF DeskInv

----------------------------------------------------------------------------
(* The calls.                                                              *)

LEMMA CallFields ==
  ASSUME NEW x \in CallState
  PROVE  /\ \A kind \in Kinds : [x EXCEPT !.kind = kind] \in CallState
         /\ \A who \in Callers : [x EXCEPT !.who = who] \in CallState
         /\ \A t \in Tasks : [x EXCEPT !.task = t] \in CallState
         /\ \A step \in 1 .. Steps : [x EXCEPT !.step = step] \in CallState
         /\ \A command \in Commands : [x EXCEPT !.command = command] \in CallState
         /\ \A ref \in Tokens \cup Files \cup {NoRef} : [x EXCEPT !.ref = ref] \in CallState
         /\ \A pc \in Pcs : [x EXCEPT !.pc = pc] \in CallState
         /\ \A status \in Answers : [x EXCEPT !.status = status] \in CallState
         /\ \A seen \in Records : [x EXCEPT !.seen = seen] \in CallState
<1>1. /\ \A kind \in Kinds : [x EXCEPT !.kind = kind] \in CallState
      /\ \A who \in Callers : [x EXCEPT !.who = who] \in CallState
      /\ \A t \in Tasks : [x EXCEPT !.task = t] \in CallState
  BY DEF CallState
<1>2. /\ \A step \in 1 .. Steps : [x EXCEPT !.step = step] \in CallState
      /\ \A command \in Commands : [x EXCEPT !.command = command] \in CallState
      /\ \A ref \in Tokens \cup Files \cup {NoRef} : [x EXCEPT !.ref = ref] \in CallState
  BY DEF CallState
<1>3. /\ \A pc \in Pcs : [x EXCEPT !.pc = pc] \in CallState
      /\ \A status \in Answers : [x EXCEPT !.status = status] \in CallState
      /\ \A seen \in Records : [x EXCEPT !.seen = seen] \in CallState
  BY DEF CallState, Answers
<1> QED
  BY <1>1, <1>2, <1>3

Arrived(kind, who, t, step, command, ref, pc, status) ==
  [NoCall EXCEPT !.kind = kind, !.who = who, !.task = t, !.step = step, !.command = command, !.ref = ref,
                 !.pc = pc, !.status = status]
LEMMA ArrivedTyped ==
  ASSUME NEW kind \in Kinds, NEW who \in Callers, NEW t \in Tasks, NEW step \in 1 .. Steps,
         NEW command \in Commands, NEW ref \in Tokens \cup Files \cup {NoRef}, NEW pc \in Pcs, NEW status \in Answers
  PROVE  LET c == Arrived(kind, who, t, step, command, ref, pc, status)
         IN c \in CallState /\ c.pc = pc /\ c.seen = NewTask /\ c.who = who /\ c.kind = kind
<1> DEFINE a == [[[NoCall EXCEPT !.kind = kind] EXCEPT !.who = who] EXCEPT !.task = t]
           b == [[[a EXCEPT !.step = step] EXCEPT !.command = command] EXCEPT !.ref = ref]
           d == [[b EXCEPT !.pc = pc] EXCEPT !.status = status]
           c == Arrived(kind, who, t, step, command, ref, pc, status)
<1>1. c = d
  BY DEF Arrived
<1>2. a \in CallState
  BY CallFields, NoCallTyped
<1> HIDE DEF a
<1>3. b \in CallState
  BY <1>2, CallFields
<1> HIDE DEF b
<1>4. d \in CallState
  BY <1>3, CallFields
<1>5. c.pc = pc /\ c.seen = NewTask /\ c.who = who /\ c.kind = kind
  BY NoCallTyped DEF CallState, Arrived
<1> QED
  BY <1>1, <1>4, <1>5

LEMMA ArriveKeeps ==
  ASSUME DeskInv, NEW r \in Calls, NEW kind \in Kinds, NEW who \in Callers, NEW t \in Tasks, NEW step \in 1 .. Steps,
         NEW command \in Commands, NEW ref \in tokens \cup Files \cup {NoRef}, Arrive(r, kind, who, t, step, command, ref)
  PROVE  DeskInv'
<1> DEFINE refused == kind \in {"claim", "release"} /\ who \in Clients
           c == Arrived(kind, who, t, step, command, ref,
                        IF refused THEN "idle" ELSE "read", IF refused THEN 403 ELSE 0)
<1>1. call \in [Calls -> CallState] /\ calls \in 0 .. MaxCalls /\ tokens \subseteq Tokens
  BY DEF DeskInv, DeskType, FilesType
<1>2. (IF refused THEN "idle" ELSE "read") \in Pcs /\ (IF refused THEN 403 ELSE 0) \in Answers
  BY DEF Pcs, Answers
<1>3. /\ c \in CallState /\ c.pc = (IF refused THEN "idle" ELSE "read")
      /\ c.seen = NewTask /\ c.who = who /\ c.kind = kind
  BY <1>1, <1>2, ArrivedTyped
<1>4. call' = [call EXCEPT ![r] = c] /\ calls < MaxCalls /\ calls' = calls + 1
  BY DEF Arrive, Arrived
<1> HIDE DEF c
<1>5. call' \in [Calls -> CallState] /\ call'[r] = c /\ \A q \in Calls \ {r} : call'[q] = call[q]
  BY <1>1, <1>3, <1>4
<1>6. calls' \in 0 .. MaxCalls
  BY <1>1, <1>4, DeskAssumption
<1>7. CallKnows(r)'
  BY <1>3, <1>5, NoCallTyped DEF CallKnows, Callers
<1> QED
  BY <1>5, <1>6, <1>7, OnlyCallsMove DEF Arrive

LEMMA ReadKeeps ==
  ASSUME DeskInv, NEW r \in Calls, Read(r)
  PROVE  DeskInv'
<1> DEFINE pc == IF call[r].kind \in {"complete", "draft"} THEN "resolve" ELSE "admit"
           c == [[call[r] EXCEPT !.seen = Record(r)] EXCEPT !.pc = pc]
<1>1. call \in [Calls -> CallState] /\ calls \in 0 .. MaxCalls /\ task \in [Tasks -> Records]
  BY DEF DeskInv, DeskType
<1>2. call[r] \in CallState /\ call[r].task \in Tasks /\ Record(r) \in Records /\ pc \in Pcs
  <2>1. call[r] \in CallState
    BY <1>1
  <2>2. call[r].task \in Tasks
    BY <2>1 DEF CallState
  <2>3. Record(r) \in Records
    BY <1>1, <2>2 DEF Record
  <2> QED
    BY <2>1, <2>2, <2>3 DEF Pcs
<1>3. [call[r] EXCEPT !.seen = Record(r)] \in CallState
  BY <1>2, CallFields
<1>4. c \in CallState
  BY <1>2, <1>3, CallFields
<1>5. c.pc = pc /\ c.seen = Record(r) /\ c.who = call[r].who /\ c.kind = call[r].kind /\ c.task = call[r].task
  BY <1>2 DEF CallState
<1>6. call' = [call EXCEPT ![r] = c]
  BY <1>1, <1>2 DEF Read
<1> HIDE DEF c
<1>7. call' \in [Calls -> CallState] /\ call'[r] = c /\ \A q \in Calls \ {r} : call'[q] = call[q]
  BY <1>1, <1>4, <1>6
<1>8. FilesIn(Record(r)) \subseteq wasIn[call[r].task]
  BY <1>2 DEF DeskInv, RecordsAreRemembered, Record
<1>9. call[r].pc = "read" /\ UNCHANGED wasIn
  BY DEF Read, NoChange
<1>10. call[r].who \in Callers /\ (call[r].kind \in {"claim", "release"} => call[r].who \in Users)
  BY <1>9 DEF DeskInv, CallKnows
<1>11. CallKnows(r)'
  BY <1>5, <1>7, <1>8, <1>9, <1>10 DEF CallKnows
<1> QED
  BY <1>1, <1>7, <1>11, OnlyCallsMove DEF Read, NoChange

LEMMA AnswerKeeps ==
  ASSUME DeskInv, NEW r \in Calls, NEW status \in Answers, Answer(r, status), NoChange
  PROVE  DeskInv'
<1>1. /\ call' \in [Calls -> CallState] /\ call'[r].pc = "idle" /\ call'[r].seen = NewTask
      /\ \A q \in Calls \ {r} : call'[q] = call[q]
  BY AnswerDoes DEF DeskInv
<1>2. CallKnows(r)'
  BY <1>1, NoCallTyped DEF CallKnows
<1>3. calls' \in 0 .. MaxCalls
  BY DEF DeskInv, DeskType, NoChange
<1> QED
  BY <1>1, <1>2, <1>3, OnlyCallsMove DEF NoChange

LEMMA GotoKeeps ==
  ASSUME DeskInv, NEW r \in Calls, NEW pc \in Pcs, Goto(r, pc), NoChange, CallKnows(r)'
  PROVE  DeskInv'
<1>1. call' \in [Calls -> CallState] /\ \A q \in Calls \ {r} : call'[q] = call[q]
  BY GotoDoes DEF DeskInv
<1>2. calls' \in 0 .. MaxCalls
  BY DEF DeskInv, DeskType, NoChange
<1> QED
  BY <1>1, <1>2, OnlyCallsMove DEF NoChange

LEMMA AdmitKeeps ==
  ASSUME DeskInv, NEW r \in Calls, Admit(r)
  PROVE  DeskInv'
<1> DEFINE c == call[r]
<1>1. /\ c.pc = "admit" /\ NoChange /\ UNCHANGED <<wasIn, wasParty>>
      /\ c.task \in Tasks /\ c.who \in Callers /\ (c.kind \in {"claim", "release"} => c.who \in Users)
      /\ FilesIn(c.seen) \subseteq wasIn[c.task]
      /\ c.kind \in {"get", "claim", "release"}
  <2>1. c \in CallState /\ CallKnows(r)
    BY DEF DeskInv, DeskType
  <2>2. c.pc = "admit" /\ NoChange
    BY DEF Admit
  <2>3. c.task \in Tasks /\ c.kind \in Kinds
    BY <2>1 DEF CallState
  <2>4. c.kind \in {"get", "claim", "release"}
    BY <2>1, <2>2, <2>3 DEF Kinds, CallKnows
  <2> QED
    BY <2>1, <2>2, <2>3, <2>4 DEF CallKnows, NoChange
<1>2. CASE Answer(r, 404) \/ Answer(r, 409)
  BY <1>1, <1>2, AnswerKeeps DEF Answers
<1>3. ASSUME NEW pc \in {"show", "release", "claim", "take over"}, Goto(r, pc), Claims(c.who, c.task) # {},
             pc # "show" => c.kind \in {"claim", "release"},
             pc = "take over" => c.seen.step # Done
      PROVE  DeskInv'
  <2>1. pc \in Pcs
    BY DEF Pcs
  <2>2. /\ call'[r].pc = pc /\ call'[r].seen = c.seen /\ call'[r].who = c.who
        /\ call'[r].kind = c.kind /\ call'[r].task = c.task
    BY <1>3, <2>1, GotoDoes DEF DeskInv
  <2>3. EverIn(c.who, CaseOf[c.task]) # {}
    BY <1>1, <1>3, ClaimsAreHeld DEF DeskInv
  <2>4. EverIn(c.who, CaseOf[c.task])' # {}
    BY <1>1, <2>2, <2>3 DEF EverIn
  <2>5. CallKnows(r)'
    BY <1>1, <1>3, <2>2, <2>4 DEF CallKnows
  <2> QED
    BY <1>1, <1>3, <2>1, <2>5, GotoKeeps
<1>4. \/ Answer(r, 404) \/ Answer(r, 409)
      \/ /\ Claims(c.who, c.task) # {}
         /\ \/ c.kind = "get" /\ Goto(r, "show")
            \/ c.kind = "release" /\ Goto(r, "release")
            \/ c.kind = "claim" /\ c.seen.step # Done /\ (Goto(r, "claim") \/ Goto(r, "take over"))
  BY <1>1 DEF Admit
<1> QED
  BY <1>2, <1>3, <1>4

LEMMA ResolveRefKeeps ==
  ASSUME DeskInv, NEW r \in Calls, ResolveFiles(r)
  PROVE  DeskInv'
<1> DEFINE c == call[r]
           resolved == FromCaller(c.who, c.ref)
           d == [[c EXCEPT !.pc = "apply"] EXCEPT !.ref = resolved.file]
<1>1. /\ call \in [Calls -> CallState] /\ calls \in 0 .. MaxCalls /\ tokens \subseteq Tokens
      /\ c \in CallState /\ CallKnows(r)
  BY DEF DeskInv, DeskType, FilesType
<1>2. c.pc = "resolve" /\ NoChange
  BY DEF ResolveFiles
<1>3. CASE \E status \in Answers : Answer(r, status)
  BY <1>2, <1>3, AnswerKeeps
<1>4. CASE resolved.is = "ok" /\ call' = [call EXCEPT ![r] = d]
  <2>1. resolved.file \in Files \cup {NoFile}
        /\ (resolved.file # NoFile => resolved.file \in Files /\ MaySubmit(c.who, resolved.file))
    <3>1. CASE c.ref = NoRef
      BY <3>1 DEF FromCaller
    <3>2. CASE c.ref # NoRef
      <4>1. Resolution(c.who, c.ref, "submit") = "ok" /\ resolved.file = c.ref.file
        BY <1>4, <3>2 DEF FromCaller
      <4>2. c.ref \in tokens /\ c.ref.holder = c.who /\ "submit" \in c.ref.scopes
        BY <4>1 DEF Resolution, Open
      <4>3. c.ref.file \in Files
        BY <1>1, <4>2 DEF Tokens
      <4> QED
        BY <4>1, <4>2, <4>3 DEF MaySubmit
    <3> QED
      BY <3>1, <3>2
  <2>2. [c EXCEPT !.pc = "apply"] \in CallState
    BY <1>1, CallFields DEF Pcs
  <2> HIDE DEF resolved
  <2>3. d \in CallState
    BY <2>1, <2>2, CallFields DEF NoRef
  <2>4. d.pc = "apply" /\ d.ref = resolved.file /\ d.who = c.who /\ d.kind = c.kind /\ d.seen = c.seen /\ d.task = c.task
    BY <1>1 DEF CallState
  <2> HIDE DEF d
  <2>5. call' \in [Calls -> CallState] /\ call'[r] = d /\ \A q \in Calls \ {r} : call'[q] = call[q]
    BY <1>1, <1>4, <2>3
  <2>6. UNCHANGED <<tokens, wasIn>>
    BY <1>2 DEF NoChange, filesVars
  <2>7. call'[r].ref # NoFile => MaySubmit(call[r].who, call[r].ref)'
    BY <2>1, <2>4, <2>5, <2>6 DEF MaySubmit
  <2>8. CallKnows(r)'
    BY <1>1, <1>2, <2>1, <2>4, <2>5, <2>6, <2>7 DEF CallKnows
  <2> QED
    BY <1>1, <1>2, <2>5, <2>8, OnlyCallsMove DEF NoChange
<1>5. \/ \E status \in Answers : Answer(r, status)
      \/ resolved.is = "ok" /\ call' = [call EXCEPT ![r].pc = "apply", ![r].ref = resolved.file]
  <2>1. CASE c.seen.step # c.step
    <3>1. Answer(r, 409)
      BY <2>1 DEF ResolveFiles
    <3> QED
      BY <3>1 DEF Answers
  <2>2. CASE c.seen.step = c.step /\ resolved.is = "ok"
    BY <2>2 DEF ResolveFiles
  <2>3. CASE c.seen.step = c.step /\ resolved.is # "ok"
    <3>1. resolved.is \in {"invalid", "not yours", "scope", "expired"}
      BY <2>3 DEF FromCaller, Resolution, Open
    <3> DEFINE status == CASE resolved.is = "invalid" -> 400 [] resolved.is \in {"not yours", "scope"} -> 403
                           [] resolved.is = "expired" -> 410
    <3>2. Answer(r, status)
      BY <2>3 DEF ResolveFiles
    <3> HIDE DEF resolved
    <3>3. status \in Answers
      <4>1. CASE resolved.is = "invalid"
        BY <4>1 DEF Answers
      <4>2. CASE resolved.is \in {"not yours", "scope"}
        <5>1. resolved.is # "invalid" /\ resolved.is # "expired"
          BY <4>2
        <5>2. status = 403
          BY <4>2, <5>1
        <5> QED
          BY <5>2 DEF Answers
      <4>3. CASE resolved.is = "expired"
        BY <4>3 DEF Answers
      <4> QED
        BY <3>1, <4>1, <4>2, <4>3
    <3> HIDE DEF status
    <3> QED
      BY <3>2, <3>3
  <2> QED
    BY <2>1, <2>2, <2>3
<1>6. [call EXCEPT ![r].pc = "apply", ![r].ref = resolved.file] = [call EXCEPT ![r] = d]
  BY <1>1
<1> QED
  BY <1>3, <1>4, <1>5, <1>6

----------------------------------------------------------------------------
(* The files and tokens.                                                   *)

\* What a step may do to the files while calls wait: new tokens are granted ones.
LEMMA OnlyFilesMove ==
  ASSUME DeskInv, Grows, FilesType', TokensWereGranted',
         opened' = opened \/ \E k \in tokens : "read" \in k.scopes /\ opened' = opened \cup {<<k.holder, k.file>>},
         \A q \in Calls : CallKnows(q)',
         call' \in [Calls -> CallState],
         UNCHANGED <<task, sender, wasIn, calls, replacements, wasParty, party>>
  PROVE  DeskInv'
<1>1. DeskType'
  BY DEF DeskInv, DeskType, PartyType
<1>2. PartiesAreRemembered' /\ RecordsAreRemembered'
  BY DEF DeskInv, PartiesAreRemembered, RecordsAreRemembered
<1>3. \A w \in opened' : w \in Callers \X Files /\ MayRead(w[1], w[2])'
  <2>1. \A w \in opened : w \in Callers \X Files /\ MayRead(w[1], w[2])
    BY DEF DeskInv, DeskType, FilesType, FilesStayInTheirCase, MayRead
  <2>2. \A k \in tokens : "read" \in k.scopes => k.file \in Files /\ k.holder \in Callers /\ MayRead(k.holder, k.file)
    BY DEF DeskInv, DeskType, FilesType, TokensWereGranted, Tokens
  <2>3. \A who, f : f \in Files /\ MayRead(who, f) => MayRead(who, f)'
    BY Lasting
  <2> SUFFICES ASSUME NEW w \in opened' PROVE w \in Callers \X Files /\ MayRead(w[1], w[2])'
    OBVIOUS
  <2>4. CASE w \in opened
    <3>1. w[2] \in Files /\ MayRead(w[1], w[2])
      BY <2>1, <2>4
    <3> QED
      BY <2>1, <2>3, <2>4, <3>1
  <2>5. CASE w \notin opened
    <3>1. PICK k \in tokens : "read" \in k.scopes /\ w = <<k.holder, k.file>>
      BY <2>5
    <3> QED
      BY <2>2, <2>3, <3>1
  <2> QED
    BY <2>4, <2>5
<1>4. FilesStayInTheirCase'
  BY <1>3 DEF FilesStayInTheirCase, MayRead
<1>5. StoredFilesWereTheirs'
  BY DEF DeskInv, StoredFilesWereTheirs, Grows
<1> QED
  BY <1>1, <1>2, <1>4, <1>5 DEF DeskInv

LEMMA WaitingKeeps ==
  ASSUME DeskInv, Grows, UNCHANGED call
  PROVE  \A q \in Calls : CallKnows(q)'
  BY CallKeeps DEF DeskInv

\* Tokens are handed out.
LEMMA SharedKeeps ==
  ASSUME DeskInv, NEW shared, shared \subseteq Tokens,
         \A k \in shared : "read" \in k.scopes => MayRead(k.holder, k.file),
         tokens' = tokens \cup shared, UNCHANGED <<uploader, contents, opened, wasIn, wasParty>>
  PROVE  Grows /\ FilesType' /\ TokensWereGranted'
<1>1. Grows
  BY DEF Grows
<1>2. FilesType'
  BY DEF DeskInv, DeskType, FilesType
<1>3. TokensWereGranted'
  <2> SUFFICES ASSUME NEW k \in tokens', "read" \in k.scopes PROVE MayRead(k.holder, k.file)'
    BY DEF TokensWereGranted
  <2>1. k.file \in Files /\ MayRead(k.holder, k.file)
    BY DEF DeskInv, DeskType, FilesType, TokensWereGranted, Tokens
  <2> QED
    BY <1>1, <2>1, Lasting
<1> QED
  BY <1>1, <1>2, <1>3

LEMMA ShowKeeps ==
  ASSUME DeskInv, NEW r \in Calls, Show(r)
  PROVE  DeskInv'
<1> DEFINE c == call[r]
           canAct == CanAct(c.who, c.task, c.seen.step)
           shared == ForReader(c.who, c.seen, canAct)
<1>1. call \in [Calls -> CallState] /\ c \in CallState /\ c.task \in Tasks /\ CallKnows(r) /\ c.pc = "show"
  BY DEF DeskInv, DeskType, CallState, Show
<1>2. /\ tokens' = tokens \cup shared /\ Answer(r, 200)
      /\ UNCHANGED <<task, sender, wasIn, calls, replacements, wasParty, party, uploader, contents, opened>>
  BY DEF Show
<1>3. \A k \in shared : k \in Tokens /\ MayRead(k.holder, k.file)
  <2> SUFFICES ASSUME NEW f \in FilesIn(c.seen)
               PROVE  LET k == Issue(c.who, f, IF canAct THEN Scopes ELSE {"read"})
                      IN k \in Tokens /\ MayRead(k.holder, k.file)
    BY DEF ForReader
  <2> DEFINE k == Issue(c.who, f, IF canAct THEN Scopes ELSE {"read"})
  <2>1. f \in Files /\ f \in wasIn[c.task] /\ c.who \in Callers /\ EverIn(c.who, CaseOf[c.task]) # {}
    BY <1>1 DEF CallKnows, FilesIn
  <2>2. (IF canAct THEN Scopes ELSE {"read"}) \in (SUBSET Scopes) \ {{}}
    BY DEF Scopes
  <2>3. k \in Tokens /\ k.holder = c.who /\ k.file = f
    BY <2>1, <2>2, IssueTyped
  <2>4. MayRead(c.who, f)
    BY <1>1, <2>1 DEF MayRead
  <2> QED
    BY <2>3, <2>4
<1> HIDE DEF shared
<1>4. Grows /\ FilesType' /\ TokensWereGranted'
  BY <1>2, <1>3, SharedKeeps
<1>5. /\ call' \in [Calls -> CallState] /\ call'[r].pc = "idle" /\ call'[r].seen = NewTask
      /\ \A q \in Calls \ {r} : call'[q] = call[q]
  BY <1>2, AnswerDoes DEF DeskInv, Answers
<1>6. CallKnows(r)'
  BY <1>5, NoCallTyped DEF CallKnows
<1>7. \A q \in Calls : CallKnows(q)'
  BY <1>4, <1>5, <1>6, CallKeeps DEF DeskInv
<1> QED
  BY <1>2, <1>4, <1>5, <1>7, OnlyFilesMove

LEMMA SendFilesKeeps ==
  ASSUME DeskInv, NEW t \in Tasks, NEW client \in Clients, SendFiles(t, client)
  PROVE  DeskInv'
<1> DEFINE shared == {Issue(client, f, {"read"}) : f \in FilesIn(task[t])}
<1>1. /\ tokens' = tokens \cup shared
      /\ UNCHANGED <<task, sender, wasIn, call, calls, replacements, wasParty, party, uploader, contents, opened>>
  BY DEF SendFiles
<1>2. \A k \in shared : k \in Tokens /\ MayRead(k.holder, k.file)
  <2> SUFFICES ASSUME NEW f \in FilesIn(task[t])
               PROVE  LET k == Issue(client, f, {"read"}) IN k \in Tokens /\ MayRead(k.holder, k.file)
    OBVIOUS
  <2>1. f \in Files /\ f \in wasIn[t] /\ client \in Callers
    BY DEF DeskInv, RecordsAreRemembered, FilesIn, Callers
  <2>2. {"read"} \in (SUBSET Scopes) \ {{}}
    BY DEF Scopes
  <2>3. MayRead(client, f)
    BY <2>1 DEF MayRead
  <2> QED
    BY <2>1, <2>2, <2>3, IssueTyped
<1> HIDE DEF shared
<1>3. Grows /\ FilesType' /\ TokensWereGranted'
  BY <1>1, <1>2, SharedKeeps
<1>4. call' \in [Calls -> CallState]
  BY <1>1 DEF DeskInv, DeskType
<1>5. \A q \in Calls : CallKnows(q)'
  BY <1>1, <1>3, WaitingKeeps
<1> QED
  BY <1>1, <1>3, <1>4, <1>5, OnlyFilesMove

----------------------------------------------------------------------------
(* The records.                                                            *)

StoredIn(x, s, f) == [x EXCEPT !.data = [x.data EXCEPT ![s] = f]]
LEMMA RecordFields ==
  ASSUME NEW x \in Records
  PROVE  /\ \A h \in Users \cup {NoCaller} :
              [x EXCEPT !.claim = h] \in Records /\ [x EXCEPT !.claim = h].data = x.data /\ [x EXCEPT !.claim = h].step = x.step
         /\ \A n \in 1 .. Done :
              [x EXCEPT !.step = n] \in Records /\ [x EXCEPT !.step = n].data = x.data /\ [x EXCEPT !.step = n].claim = x.claim
         /\ \A s \in 1 .. Steps, f \in Files \cup {NoFile} :
              /\ StoredIn(x, s, f) \in Records /\ StoredIn(x, s, f).claim = x.claim /\ StoredIn(x, s, f).data[s] = f
              /\ \A i \in (1 .. Steps) \ {s} : StoredIn(x, s, f).data[i] = x.data[i]
  BY DEF Records, StoredIn

LEMMA ClaimMoves ==
  ASSUME DeskInv, NEW r \in Calls, NEW t \in Tasks, NEW h \in Users \cup {NoCaller},
         task' = [task EXCEPT ![t].claim = h],
         call' \in [Calls -> CallState], \A q \in Calls \ {r} : call'[q] = call[q], CallKnows(r)',
         UNCHANGED <<sender, wasIn, calls, replacements, wasParty, party, filesVars>>
  PROVE  DeskInv'
<1>1. task \in [Tasks -> Records]
  BY DEF DeskInv, DeskType
<1>2. task' = [task EXCEPT ![t] = [task[t] EXCEPT !.claim = h]]
  BY <1>1
<1>3. task' \in [Tasks -> Records] /\ \A u \in Tasks : task'[u].data = task[u].data
  BY <1>1, <1>2, RecordFields
<1>4. Grows
  BY DEF Grows, filesVars
<1>5. DeskType'
  BY <1>3 DEF DeskInv, DeskType, filesVars, PartyType, FilesType
<1>6. \A q \in Calls : CallKnows(q)'
  BY <1>4, CallKeeps DEF DeskInv
<1>7. PartiesAreRemembered'
  BY DEF DeskInv, PartiesAreRemembered
<1>8. RecordsAreRemembered'
  BY <1>3 DEF DeskInv, RecordsAreRemembered, FilesIn
<1>9. TokensWereGranted'
  BY DEF DeskInv, TokensWereGranted, MayRead, EverIn, filesVars
<1>10. FilesStayInTheirCase'
  BY DEF DeskInv, FilesStayInTheirCase, EverIn, filesVars
<1>11. StoredFilesWereTheirs'
  BY <1>3 DEF DeskInv, StoredFilesWereTheirs, filesVars
<1> QED
  BY <1>5, <1>6, <1>7, <1>8, <1>9, <1>10, <1>11 DEF DeskInv

\* A call that is answered after it has changed a claim, or has left it.
LEMMA ClaimStepKeeps ==
  ASSUME DeskInv, NEW r \in Calls, NEW h \in Users \cup {NoCaller}, NEW status \in Answers,
         (task' = [task EXCEPT ![call[r].task].claim = h]) \/ UNCHANGED task,
         Answer(r, status),
         UNCHANGED <<sender, wasIn, calls, replacements, wasParty, party, filesVars>>
  PROVE  DeskInv'
<1>1. call[r].task \in Tasks
  BY DEF DeskInv, DeskType, CallState
<1>2. /\ call' \in [Calls -> CallState] /\ call'[r].pc = "idle" /\ call'[r].seen = NewTask
      /\ \A q \in Calls \ {r} : call'[q] = call[q]
  BY AnswerDoes DEF DeskInv
<1>3. CallKnows(r)'
  BY <1>2, NoCallTyped DEF CallKnows
<1>4. CASE task' = [task EXCEPT ![call[r].task].claim = h]
  BY <1>1, <1>2, <1>3, <1>4, ClaimMoves
<1>5. CASE UNCHANGED task
  BY <1>5, AnswerKeeps DEF NoChange
<1> QED
  BY <1>4, <1>5

LEMMA TakeOverKeeps ==
  ASSUME DeskInv, NEW r \in Calls, TakeOver(r)
  PROVE  DeskInv'
<1>1. /\ call[r].pc = "take over"
      /\ UNCHANGED <<sender, wasIn, calls, replacements, wasParty, party, filesVars>>
  BY DEF TakeOver
<1>2. CASE task' = [task EXCEPT ![call[r].task].claim = NoCaller] /\ Goto(r, "claim")
  <2>1. call[r].task \in Tasks /\ CallKnows(r)
    BY DEF DeskInv, DeskType, CallState
  <2>2. /\ call' \in [Calls -> CallState] /\ \A q \in Calls \ {r} : call'[q] = call[q]
        /\ call'[r].pc = "claim" /\ call'[r].seen = call[r].seen /\ call'[r].who = call[r].who
        /\ call'[r].kind = call[r].kind /\ call'[r].task = call[r].task
    BY <1>2, GotoDoes DEF DeskInv, Pcs
  <2>3. CallKnows(r)'
    BY <1>1, <2>1, <2>2 DEF CallKnows
  <2> QED
    BY <1>1, <1>2, <2>1, <2>2, <2>3, ClaimMoves
<1>3. CASE Answer(r, 409) /\ UNCHANGED task
  <2>1. 409 \in Answers
    BY DEF Answers
  <2> QED
    BY <1>1, <1>3, <2>1, ClaimStepKeeps
<1> QED
  BY <1>2, <1>3 DEF TakeOver

LEMMA ClaimKeeps ==
  ASSUME DeskInv, NEW r \in Calls, Claim(r)
  PROVE  DeskInv'
<1>1. call[r].pc = "claim" /\ UNCHANGED <<sender, wasIn, calls, replacements, wasParty, party, filesVars>>
  BY DEF Claim
<1>2. call[r].who \in Users \cup {NoCaller}
  BY <1>1 DEF DeskInv, CallKnows
<1>3. \E status \in Answers : Answer(r, status)
  BY DEF Claim, Answers
<1>4. (task' = [task EXCEPT ![call[r].task].claim = call[r].who]) \/ UNCHANGED task
  BY DEF Claim
<1> QED
  BY <1>1, <1>2, <1>3, <1>4, ClaimStepKeeps

LEMMA ReleaseKeeps ==
  ASSUME DeskInv, NEW r \in Calls, Release(r)
  PROVE  DeskInv'
<1>1. UNCHANGED <<sender, wasIn, calls, replacements, wasParty, party, filesVars>>
  BY DEF Release
<1>2. \E status \in Answers : Answer(r, status)
  BY DEF Release, Answers
<1>3. (task' = [task EXCEPT ![call[r].task].claim = NoCaller]) \/ UNCHANGED task
  BY DEF Release
<1> QED
  BY <1>1, <1>2, <1>3, ClaimStepKeeps

\* A completion or a draft stores what the call resolved.
LEMMA ApplyKeeps ==
  ASSUME DeskInv, NEW r \in Calls, Apply(r)
  PROVE  DeskInv'
<1> DEFINE c == call[r]
           t == c.task
           s == c.step
           next == IF c.kind = "draft" THEN s ELSE s + 1
           stored == StoredIn(task[t], s, c.ref)
           moved == [stored EXCEPT !.step = next]
<1>1. c.pc = "apply" /\ UNCHANGED <<calls, replacements, wasParty, party, filesVars>>
  BY DEF Apply
<1>2. /\ c \in CallState /\ t \in Tasks /\ s \in 1 .. Steps /\ CallKnows(r) /\ c.who \in Callers
      /\ task \in [Tasks -> Records] /\ task[t] \in Records
  <2>1. c \in CallState /\ CallKnows(r) /\ task \in [Tasks -> Records]
    BY DEF DeskInv, DeskType
  <2>2. t \in Tasks /\ s \in 1 .. Steps
    BY <2>1 DEF CallState
  <2> QED
    BY <1>1, <2>1, <2>2 DEF CallKnows
<1>3. /\ call' \in [Calls -> CallState] /\ call'[r].pc = "idle" /\ call'[r].seen = NewTask
      /\ \A q \in Calls \ {r} : call'[q] = call[q]
      /\ CallKnows(r)'
  <2>1. \E status \in Answers : Answer(r, status)
    BY DEF Apply, Answers
  <2>2. /\ call' \in [Calls -> CallState] /\ call'[r].pc = "idle" /\ call'[r].seen = NewTask
        /\ \A q \in Calls \ {r} : call'[q] = call[q]
    BY <2>1, AnswerDoes DEF DeskInv
  <2> QED
    BY <2>2, NoCallTyped DEF CallKnows
<1>4. CASE UNCHANGED <<task, sender, wasIn>>
  <2>1. calls' \in 0 .. MaxCalls
    BY <1>1 DEF DeskInv, DeskType
  <2> QED
    BY <1>1, <1>3, <1>4, <2>1, OnlyCallsMove
<1>5. CASE /\ task' = [task EXCEPT ![t].data[s] = c.ref, ![t].step = next]
           /\ sender' = [sender EXCEPT ![t][s] = c.who]
           /\ wasIn' = [wasIn EXCEPT ![t] = @ \cup ({c.ref} \cap Files)]
  <2>1. c.ref \in Files \cup {NoFile} /\ (c.ref # NoFile => c.ref \in Files /\ MaySubmit(c.who, c.ref))
    BY <1>1, <1>2 DEF CallKnows
  <2>2. next \in 1 .. Done
    BY <1>2, DeskAssumption DEF Done
  <2>3. /\ stored \in Records /\ stored.data[s] = c.ref
        /\ \A i \in (1 .. Steps) \ {s} : stored.data[i] = task[t].data[i]
    BY <1>2, <2>1, RecordFields
  <2>4. task' = [task EXCEPT ![t] = moved]
    BY <1>2, <1>5 DEF StoredIn
  <2> HIDE DEF next, stored
  <2>5. moved \in Records /\ moved.data = stored.data
    BY <2>2, <2>3, RecordFields
  <2> HIDE DEF moved
  <2>6. task' \in [Tasks -> Records] /\ task'[t] = moved /\ \A u \in Tasks \ {t} : task'[u] = task[u]
    BY <1>2, <2>4, <2>5
  <2>7. /\ sender \in [Tasks -> [1 .. Steps -> Callers \cup {NoCaller}]]
        /\ sender' \in [Tasks -> [1 .. Steps -> Callers \cup {NoCaller}]]
        /\ sender'[t][s] = c.who
        /\ \A i \in (1 .. Steps) \ {s} : sender'[t][i] = sender[t][i]
        /\ \A u \in Tasks \ {t} : sender'[u] = sender[u]
    BY <1>2, <1>5 DEF DeskInv, DeskType
  <2>8. /\ wasIn' \in [Tasks -> SUBSET Files]
        /\ \A u \in Tasks : wasIn[u] \subseteq wasIn'[u]
        /\ c.ref \in Files => c.ref \in wasIn'[t]
    BY <1>2, <1>5 DEF DeskInv, DeskType
  <2>9. Grows
    BY <1>1, <2>8 DEF Grows, filesVars
  <2>10. DeskType'
    BY <1>1, <1>3, <2>6, <2>7, <2>8 DEF DeskInv, DeskType, filesVars, PartyType, FilesType
  <2>11. \A q \in Calls : CallKnows(q)'
    BY <1>3, <2>9, CallKeeps DEF DeskInv
  <2>12. PartiesAreRemembered'
    BY <1>1 DEF DeskInv, PartiesAreRemembered
  <2>13. RecordsAreRemembered'
    <3> SUFFICES ASSUME NEW u \in Tasks, NEW i \in 1 .. Steps, task'[u].data[i] \in Files
                 PROVE  task'[u].data[i] \in wasIn'[u]
      BY DEF RecordsAreRemembered, FilesIn
    <3>1. CASE u = t /\ i = s
      BY <2>3, <2>5, <2>6, <2>8, <3>1
    <3>2. CASE ~(u = t /\ i = s)
      <4>1. task'[u].data[i] = task[u].data[i]
        BY <2>3, <2>5, <2>6, <3>2
      <4> QED
        BY <2>8, <4>1 DEF DeskInv, RecordsAreRemembered, FilesIn
    <3> QED
      BY <3>1, <3>2
  <2>14. TokensWereGranted'
    <3> SUFFICES ASSUME NEW k \in tokens, "read" \in k.scopes PROVE MayRead(k.holder, k.file)'
      BY <1>1 DEF TokensWereGranted, filesVars
    <3>1. k.file \in Files /\ MayRead(k.holder, k.file)
      BY DEF DeskInv, DeskType, FilesType, TokensWereGranted, Tokens
    <3> QED
      BY <2>9, <3>1, Lasting
  <2>15. FilesStayInTheirCase'
    <3> SUFFICES ASSUME NEW w \in opened PROVE MayRead(w[1], w[2])'
      BY <1>1 DEF FilesStayInTheirCase, MayRead, filesVars
    <3>1. w[2] \in Files /\ MayRead(w[1], w[2])
      BY DEF DeskInv, DeskType, FilesType, FilesStayInTheirCase, MayRead
    <3> QED
      BY <2>9, <3>1, Lasting
  <2>16. StoredFilesWereTheirs'
    <3> SUFFICES ASSUME NEW u \in Tasks, NEW i \in 1 .. Steps, task'[u].data[i] # NoFile
                 PROVE  /\ task'[u].data[i] \in Files
                        /\ \E k \in tokens : k.file = task'[u].data[i] /\ k.holder = sender'[u][i] /\ "submit" \in k.scopes
      BY <1>1 DEF StoredFilesWereTheirs, filesVars
    <3>1. CASE u = t /\ i = s
      BY <2>1, <2>3, <2>5, <2>6, <2>7, <3>1 DEF MaySubmit
    <3>2. CASE ~(u = t /\ i = s)
      <4>1. task'[u].data[i] = task[u].data[i] /\ sender'[u][i] = sender[u][i]
        BY <2>3, <2>5, <2>6, <2>7, <3>2
      <4> QED
        BY <4>1 DEF DeskInv, StoredFilesWereTheirs
    <3> QED
      BY <3>1, <3>2
  <2> QED
    BY <2>10, <2>11, <2>12, <2>13, <2>14, <2>15, <2>16 DEF DeskInv
<1> QED
  BY <1>4, <1>5 DEF Apply

----------------------------------------------------------------------------
(* The parties and the files.                                              *)

LEMMA ReplacePartyKeeps ==
  ASSUME DeskInv, NEW x \in Cases, NEW h \in Handles, ReplaceParty(x, h)
  PROVE  DeskInv'
<1>1. /\ replacements < MaxReplacements /\ replacements' = replacements + 1
      /\ party' = [party EXCEPT ![x]["cha"] = h]
      /\ wasParty' = [wasParty EXCEPT ![x]["cha"] = @ \cup {h}]
      /\ UNCHANGED <<task, sender, wasIn, call, calls, filesVars>>
  BY DEF ReplaceParty, Assign
<1>2. /\ party \in [Cases -> [Roles -> Handles \cup {NoHandle}]]
      /\ wasParty \in [Cases -> [Roles -> SUBSET Handles]]
      /\ replacements \in 0 .. MaxReplacements /\ "cha" \in Roles
  BY DEF DeskInv, DeskType, PartyType, Roles
<1>3. /\ party' \in [Cases -> [Roles -> Handles \cup {NoHandle}]]
      /\ party'[x]["cha"] = h
      /\ \A c \in Cases, y \in Roles : c # x \/ y # "cha" => party'[c][y] = party[c][y]
  BY <1>1, <1>2
<1>4. /\ wasParty' \in [Cases -> [Roles -> SUBSET Handles]]
      /\ h \in wasParty'[x]["cha"]
      /\ \A c \in Cases, y \in Roles : wasParty[c][y] \subseteq wasParty'[c][y]
  BY <1>1, <1>2
<1>5. replacements' \in 0 .. MaxReplacements
  BY <1>1, <1>2, DeskAssumption
<1>6. Grows
  BY <1>1, <1>4 DEF Grows, filesVars
<1>7. DeskType'
  BY <1>1, <1>3, <1>4, <1>5 DEF DeskInv, DeskType, PartyType, FilesType, filesVars
<1>8. PartiesAreRemembered'
  BY <1>2, <1>3, <1>4 DEF DeskInv, PartiesAreRemembered
<1>9. RecordsAreRemembered' /\ StoredFilesWereTheirs'
  BY <1>1 DEF DeskInv, RecordsAreRemembered, StoredFilesWereTheirs, filesVars
<1>10. \A q \in Calls : CallKnows(q)'
  BY <1>1, <1>6, WaitingKeeps
<1>11. TokensWereGranted'
  <2> SUFFICES ASSUME NEW k \in tokens, "read" \in k.scopes PROVE MayRead(k.holder, k.file)'
    BY <1>1 DEF TokensWereGranted, filesVars
  <2>1. k.file \in Files /\ MayRead(k.holder, k.file)
    BY DEF DeskInv, DeskType, FilesType, TokensWereGranted, Tokens
  <2> QED
    BY <1>6, <2>1, Lasting
<1>12. FilesStayInTheirCase'
  <2> SUFFICES ASSUME NEW w \in opened PROVE MayRead(w[1], w[2])'
    BY <1>1 DEF FilesStayInTheirCase, MayRead, filesVars
  <2>1. w[2] \in Files /\ MayRead(w[1], w[2])
    BY DEF DeskInv, DeskType, FilesType, FilesStayInTheirCase, MayRead
  <2> QED
    BY <1>6, <2>1, Lasting
<1> QED
  BY <1>7, <1>8, <1>9, <1>10, <1>11, <1>12 DEF DeskInv

FilesStep == FilesNext /\ UNCHANGED <<task, sender, wasIn, call, calls, replacements, wasParty, party>>

LEMMA UploadGrants ==
  ASSUME DeskInv, NEW who \in Callers, NEW f \in Files, Upload(who, f), UNCHANGED <<wasIn, wasParty>>
  PROVE  Grows /\ FilesType' /\ TokensWereGranted' /\ opened' = opened
<1> DEFINE k == Issue(who, f, UploadScopes(who))
<1>1. /\ uploader[f] = NoCaller /\ uploader' = [uploader EXCEPT ![f] = who]
      /\ tokens' = tokens \cup {k} /\ UNCHANGED <<contents, opened>>
  BY DEF Upload
<1>2. UploadScopes(who) \in (SUBSET Scopes) \ {{}} /\ (who \in Users => UploadScopes(who) = {"submit"})
  BY DEF UploadScopes, Scopes
<1>3. k \in Tokens /\ k.holder = who /\ k.file = f /\ k.scopes = UploadScopes(who)
  BY <1>2, IssueTyped
<1>4. FilesType
  BY DEF DeskInv, DeskType
<1> HIDE DEF k
<1>5. FilesType'
  BY <1>1, <1>3, <1>4 DEF FilesType
<1>6. Grows
  BY <1>1, <1>4 DEF Grows, FilesType
<1>7. "read" \in k.scopes => MayRead(who, f)'
  <2>1. "read" \in k.scopes => who \in Clients
    BY <1>2, <1>3 DEF Callers
  <2>2. uploader'[f] = who
    BY <1>1, <1>4 DEF FilesType
  <2> QED
    BY <2>1, <2>2 DEF MayRead
<1>8. TokensWereGranted'
  <2> SUFFICES ASSUME NEW l \in tokens', "read" \in l.scopes PROVE MayRead(l.holder, l.file)'
    BY DEF TokensWereGranted
  <2>1. CASE l \in tokens
    <3>1. l.file \in Files /\ MayRead(l.holder, l.file)
      BY <1>4, <2>1 DEF DeskInv, FilesType, TokensWereGranted, Tokens
    <3> QED
      BY <1>6, <3>1, Lasting
  <2>2. CASE l = k
    BY <1>3, <1>7, <2>2
  <2> QED
    BY <1>1, <2>1, <2>2
<1> QED
  BY <1>1, <1>5, <1>6, <1>8

LEMMA ExpireGrants ==
  ASSUME DeskInv, NEW k \in tokens, Expire(k), UNCHANGED <<wasIn, wasParty>>
  PROVE  Grows /\ FilesType' /\ TokensWereGranted' /\ opened' = opened
<1> DEFINE old == [k EXCEPT !.expired = TRUE]
<1>1. tokens' = (tokens \ {k}) \cup {old} /\ UNCHANGED <<uploader, contents, opened>>
  BY DEF Expire
<1>2. tokens \subseteq Tokens
  BY DEF DeskInv, DeskType, FilesType
<1>3. old \in Tokens /\ old.holder = k.holder /\ old.file = k.file /\ old.scopes = k.scopes
  BY <1>2 DEF Tokens
<1> HIDE DEF old
<1>4. FilesType'
  BY <1>1, <1>2, <1>3 DEF DeskInv, DeskType, FilesType
<1>5. Grows
  BY <1>1, <1>3 DEF Grows
<1>6. TokensWereGranted'
  <2> SUFFICES ASSUME NEW l \in tokens', "read" \in l.scopes PROVE MayRead(l.holder, l.file)'
    BY DEF TokensWereGranted
  <2>1. PICK m \in tokens : m.holder = l.holder /\ m.file = l.file /\ m.scopes = l.scopes
    BY <1>1, <1>3
  <2>2. l.file \in Files /\ MayRead(l.holder, l.file)
    BY <1>2, <2>1 DEF DeskInv, TokensWereGranted, Tokens
  <2> QED
    BY <1>5, <2>2, Lasting
<1> QED
  BY <1>1, <1>4, <1>5, <1>6

LEMMA FilesKeep ==
  ASSUME DeskInv, FilesStep
  PROVE  DeskInv'
<1>1. FilesNext /\ UNCHANGED <<task, sender, wasIn, call, calls, replacements, wasParty, party>>
  BY DEF FilesStep
<1>2. call' \in [Calls -> CallState]
  BY <1>1 DEF DeskInv, DeskType
<1>3. ASSUME Grows, FilesType', TokensWereGranted',
             opened' = opened \/ \E k \in tokens : "read" \in k.scopes /\ opened' = opened \cup {<<k.holder, k.file>>}
      PROVE  DeskInv'
  BY <1>1, <1>2, <1>3, OnlyFilesMove, WaitingKeeps
<1>4. ASSUME NEW who \in Callers, NEW f \in Files, Upload(who, f) PROVE DeskInv'
  BY <1>1, <1>3, <1>4, UploadGrants
<1>5. ASSUME NEW f \in Files, PutContent(f) PROVE DeskInv'
  <2>1. contents' = contents \cup {f} /\ UNCHANGED <<tokens, uploader, opened>>
    BY <1>5 DEF PutContent
  <2>2. Grows /\ FilesType'
    BY <1>1, <2>1 DEF DeskInv, DeskType, FilesType, Grows
  <2>3. TokensWereGranted'
    BY <1>1, <2>1 DEF DeskInv, TokensWereGranted, MayRead, EverIn
  <2> QED
    BY <1>3, <2>1, <2>2, <2>3
<1>6. ASSUME NEW who \in Callers, NEW k \in tokens, Download(who, k) PROVE DeskInv'
  <2>1. /\ opened' = opened \cup {<<who, k.file>>} /\ UNCHANGED <<tokens, uploader, contents>>
        /\ k.holder = who /\ "read" \in k.scopes
    BY <1>6 DEF Download, Resolution, Open
  <2>2. k.file \in Files
    BY DEF DeskInv, DeskType, FilesType, Tokens
  <2>3. Grows /\ FilesType'
    BY <1>1, <2>1, <2>2 DEF DeskInv, DeskType, FilesType, Grows
  <2>4. TokensWereGranted'
    BY <1>1, <2>1 DEF DeskInv, TokensWereGranted, MayRead, EverIn
  <2> QED
    BY <1>3, <2>1, <2>3, <2>4
<1>7. ASSUME NEW k \in tokens, Expire(k) PROVE DeskInv'
  BY <1>1, <1>3, <1>7, ExpireGrants
<1> QED
  BY <1>1, <1>4, <1>5, <1>6, <1>7 DEF FilesNext

----------------------------------------------------------------------------
(* The theorems.                                                           *)

LEMMA DeskInitInv ==
  ASSUME NEW parties \in [Cases -> [Roles -> Handles \cup {NoHandle}]], DeskInit(parties)
  PROVE  DeskInv
<1>1. DeskType
  <2>1. PartyType /\ FilesType
    BY DEF DeskInit, FilesInit, PartyType, FilesType
  <2>2. task \in [Tasks -> Records] /\ call \in [Calls -> CallState]
    BY NoCallTyped DEF DeskInit
  <2>3. wasParty \in [Cases -> [Roles -> SUBSET Handles]]
    BY DEF DeskInit
  <2>4. calls \in 0 .. MaxCalls /\ replacements \in 0 .. MaxReplacements
    BY DeskAssumption DEF DeskInit
  <2>5. sender \in [Tasks -> [1 .. Steps -> Callers \cup {NoCaller}]] /\ wasIn \in [Tasks -> SUBSET Files]
    BY DEF DeskInit
  <2> QED
    BY <2>1, <2>2, <2>3, <2>4, <2>5 DEF DeskType
<1>2. PartiesAreRemembered
  BY DEF DeskInit, PartiesAreRemembered
<1>3. TokensWereGranted /\ FilesStayInTheirCase
  BY DEF DeskInit, FilesInit, TokensWereGranted, FilesStayInTheirCase
<1>4. RecordsAreRemembered
  BY NoCallTyped DEF DeskInit, RecordsAreRemembered
<1>5. \A r \in Calls : CallKnows(r)
  BY NoCallTyped DEF DeskInit, CallKnows
<1>6. StoredFilesWereTheirs
  BY DEF DeskInit, NewTask, StoredFilesWereTheirs
<1> QED
  BY <1>1, <1>2, <1>3, <1>4, <1>5, <1>6 DEF DeskInv

LEMMA CallKeepsInv ==
  ASSUME DeskInv, NEW r \in Calls, CallNext(r)
  PROVE  DeskInv'
<1>1. ASSUME NEW kind \in Kinds, NEW who \in Callers, NEW t \in Tasks, NEW step \in 1 .. Steps,
             NEW command \in Commands, NEW ref \in tokens \cup Files \cup {NoRef},
             Arrive(r, kind, who, t, step, command, ref)
      PROVE  DeskInv'
  BY <1>1, ArriveKeeps
<1>2. CASE RejectPayload(r)
  <2>1. 400 \in Answers
    BY DEF Answers
  <2> QED
    BY <1>2, <2>1, AnswerKeeps DEF RejectPayload
<1> QED
  BY <1>1, <1>2, ReadKeeps, AdmitKeeps, ShowKeeps, ResolveRefKeeps, ApplyKeeps, TakeOverKeeps, ClaimKeeps, ReleaseKeeps
  DEF CallNext

LEMMA DeskStepInv == DeskInv /\ [DeskNext]_deskVars => DeskInv'
<1> SUFFICES ASSUME DeskInv, [DeskNext]_deskVars PROVE DeskInv'
  OBVIOUS
<1>1. ASSUME NEW r \in Calls, CallNext(r) PROVE DeskInv'
  BY <1>1, CallKeepsInv
<1>2. ASSUME NEW c \in Cases, NEW h \in Handles, ReplaceParty(c, h) PROVE DeskInv'
  BY <1>2, ReplacePartyKeeps
<1>3. ASSUME NEW t \in Tasks, NEW k \in Clients, SendFiles(t, k) PROVE DeskInv'
  BY <1>3, SendFilesKeeps
<1>4. CASE FilesNext /\ UNCHANGED <<task, sender, wasIn, call, calls, replacements, wasParty, party>>
  BY <1>4, FilesKeep DEF FilesStep
<1>5. CASE UNCHANGED deskVars
  <2>1. UNCHANGED <<task, sender, wasIn, call, calls, replacements, wasParty, party, filesVars>>
    BY <1>5 DEF deskVars
  <2>2. Grows
    BY <2>1 DEF Grows, filesVars
  <2>3. call' \in [Calls -> CallState] /\ FilesType' /\ opened' = opened
    BY <2>1 DEF DeskInv, DeskType, FilesType, filesVars
  <2>4. TokensWereGranted'
    BY <2>1 DEF DeskInv, TokensWereGranted, MayRead, EverIn, filesVars
  <2> QED
    BY <2>1, <2>2, <2>3, <2>4, OnlyFilesMove, WaitingKeeps
<1> QED
  BY <1>1, <1>2, <1>3, <1>4, <1>5 DEF DeskNext

\* However calls, hand-overs, expiries and replaced parties overlap, the invariant holds.
THEOREM DeskInvariant == DeskSpec => []DeskInv
<1>1. (\E parties \in [Cases -> [Roles -> Handles \cup {NoHandle}]] : DeskInit(parties)) => DeskInv
  BY DeskInitInv
<1> QED
  BY <1>1, DeskStepInv, PTL DEF DeskSpec

\* The records, calls, tokens and parties have their types (readauthz, taskauthz, filetoken).
THEOREM DeskTypeCorrect == DeskSpec => []DeskType
<1>1. DeskInv => DeskType
  BY DEF DeskInv
<1> QED
  BY <1>1, DeskInvariant, PTL

\* For any number of callers, calls, tasks, files and replaced parties, a file is opened only by who
\* uploaded it as a client or was a party of a case that it has been stored in (fileaccess.Resolve).
THEOREM FilesAreNotPassedOn == DeskSpec => []FilesStayInTheirCase
<1>1. DeskInv => FilesStayInTheirCase
  BY DEF DeskInv
<1> QED
  BY <1>1, DeskInvariant, PTL

\* Whatever a call read before, what a step stores is a file its sender held to submit.
THEOREM SubmissionsWereTheirs == DeskSpec => []StoredFilesWereTheirs
<1>1. DeskInv => StoredFilesWereTheirs
  BY DEF DeskInv
<1> QED
  BY <1>1, DeskInvariant, PTL

----------------------------------------------------------------------------
(* Claims.                                                                 *)

HandedOver ==
  \A t \in Tasks :
    task[t].claim # NoCaller /\ task'[t].claim # task[t].claim =>
      /\ task'[t].claim = NoCaller
      /\ \E r \in Calls :
           /\ call[r].task = t /\ call'[r] # call[r]
           /\ \/ call[r].pc = "release" /\ call[r].who = task[t].claim
              \/ /\ call[r].pc = "take over"
                 /\ call[r].seen.claim = task[t].claim /\ call[r].seen.step # Done

LEMMA SameClaims ==
  ASSUME \A t \in Tasks : task'[t].claim = task[t].claim
  PROVE  HandedOver
  BY DEF HandedOver

LEMMA ApplyLeavesClaims ==
  ASSUME DeskInv, NEW r \in Calls, Apply(r)
  PROVE  \A t \in Tasks : task'[t].claim = task[t].claim
<1> DEFINE c == call[r]
           u == c.task
           s == c.step
           next == IF c.kind = "draft" THEN s ELSE s + 1
           stored == StoredIn(task[u], s, c.ref)
           moved == [stored EXCEPT !.step = next]
<1>1. /\ c \in CallState /\ u \in Tasks /\ s \in 1 .. Steps /\ CallKnows(r) /\ c.pc = "apply"
      /\ task \in [Tasks -> Records] /\ task[u] \in Records
  BY DEF DeskInv, DeskType, CallState, Apply
<1>2. CASE UNCHANGED task
  BY <1>2
<1>3. CASE task' = [task EXCEPT ![u].data[s] = c.ref, ![u].step = next]
  <2>1. c.ref \in Files \cup {NoFile}
    BY <1>1 DEF CallKnows
  <2>2. next \in 1 .. Done
    BY <1>1, DeskAssumption DEF Done
  <2>3. stored \in Records /\ stored.claim = task[u].claim
    BY <1>1, <2>1, RecordFields
  <2>4. task' = [task EXCEPT ![u] = moved]
    BY <1>1, <1>3 DEF StoredIn
  <2> HIDE DEF next, stored
  <2>5. moved.claim = stored.claim
    BY <2>2, <2>3, RecordFields
  <2> HIDE DEF moved
  <2> QED
    BY <1>1, <2>3, <2>4, <2>5
<1> QED
  BY <1>2, <1>3 DEF Apply

\* The task a call works on gets another claim, or none.
LEMMA ClaimSet ==
  ASSUME DeskInv, NEW r \in Calls, NEW h \in Users \cup {NoCaller},
         task' = [task EXCEPT ![call[r].task].claim = h]
  PROVE  /\ call[r].task \in Tasks /\ task'[call[r].task].claim = h
         /\ \A t \in Tasks \ {call[r].task} : task'[t] = task[t]
<1> DEFINE u == call[r].task
<1>1. u \in Tasks /\ task \in [Tasks -> Records] /\ task[u] \in Records
  BY DEF DeskInv, DeskType, CallState
<1>2. [task[u] EXCEPT !.claim = h].claim = h
  BY <1>1 DEF Records
<1> QED
  BY <1>1, <1>2

LEMMA CallHandsOver ==
  ASSUME DeskInv, NEW r \in Calls, CallNext(r)
  PROVE  HandedOver
<1>1. CASE UNCHANGED task
  BY <1>1, SameClaims
<1>2. CASE Apply(r)
  BY <1>2, ApplyLeavesClaims, SameClaims
<1>3. CASE TakeOver(r) /\ ~UNCHANGED task
  <2>1. /\ call[r].pc = "take over"
        /\ task[call[r].task].claim \in {NoCaller, call[r].seen.claim}
        /\ task' = [task EXCEPT ![call[r].task].claim = NoCaller] /\ Goto(r, "claim")
    BY <1>3 DEF TakeOver, ReleaseBy
  <2>2. /\ call[r].task \in Tasks /\ task'[call[r].task].claim = NoCaller
        /\ \A t \in Tasks \ {call[r].task} : task'[t] = task[t]
    BY <2>1, ClaimSet
  <2>3. call'[r] # call[r]
    BY <2>1, GotoDoes DEF DeskInv, Pcs
  <2>4. call[r].seen.step # Done
    BY <2>1 DEF DeskInv, CallKnows
  <2> QED
    BY <2>1, <2>2, <2>3, <2>4 DEF HandedOver
<1>4. CASE Claim(r) /\ ~UNCHANGED task
  <2>1. /\ call[r].pc = "claim"
        /\ task[call[r].task].claim \in {NoCaller, call[r].who}
        /\ task' = [task EXCEPT ![call[r].task].claim = call[r].who]
    BY <1>4 DEF Claim
  <2>2. call[r].who \in Users
    BY <2>1 DEF DeskInv, CallKnows
  <2>3. /\ call[r].task \in Tasks /\ task'[call[r].task].claim = call[r].who
        /\ \A t \in Tasks \ {call[r].task} : task'[t] = task[t]
    BY <2>1, <2>2, ClaimSet
  <2> QED
    BY <2>1, <2>3 DEF HandedOver
<1>5. CASE Release(r) /\ ~UNCHANGED task
  <2>1. /\ call[r].pc = "release"
        /\ task[call[r].task].claim \in {NoCaller, call[r].who}
        /\ task' = [task EXCEPT ![call[r].task].claim = NoCaller] /\ Answer(r, 204)
    BY <1>5 DEF Release, ReleaseBy
  <2>2. /\ call[r].task \in Tasks /\ task'[call[r].task].claim = NoCaller
        /\ \A t \in Tasks \ {call[r].task} : task'[t] = task[t]
    BY <2>1, ClaimSet
  <2>3. call'[r] # call[r]
    BY <2>1, AnswerDoes DEF DeskInv, Answers
  <2> QED
    BY <2>1, <2>2, <2>3 DEF HandedOver
<1>6. \/ UNCHANGED task \/ Apply(r) \/ TakeOver(r) \/ Claim(r) \/ Release(r)
  <2>1. CASE \E kind \in Kinds, who \in Callers, t \in Tasks, step \in 1 .. Steps, command \in Commands,
                ref \in tokens \cup Files \cup {NoRef} : Arrive(r, kind, who, t, step, command, ref)
    BY <2>1 DEF Arrive, NoChange
  <2>2. CASE Read(r) \/ Admit(r)
    BY <2>2 DEF Read, Admit, NoChange
  <2>3. CASE Show(r) \/ RejectPayload(r)
    BY <2>3 DEF Show, RejectPayload, NoChange
  <2>4. CASE ResolveFiles(r)
    BY <2>4 DEF ResolveFiles, NoChange
  <2> QED
    BY <2>1, <2>2, <2>3, <2>4 DEF CallNext
<1> QED
  BY <1>1, <1>2, <1>3, <1>4, <1>5, <1>6

\* However claims, takeovers, releases and completions overlap, a claim ends by its holder's release
\* or by a takeover from that holder, and the next one begins only then (taskauthz, claimant).
THEOREM ClaimsPassOnOnlyAsHandedOver == DeskSpec => ClaimsAreHandedOver
<1>1. DeskInv /\ [DeskNext]_deskVars => [HandedOver]_deskVars
  <2> SUFFICES ASSUME DeskInv, DeskNext PROVE HandedOver
    OBVIOUS
  <2>1. ASSUME NEW r \in Calls, CallNext(r) PROVE HandedOver
    BY <2>1, CallHandsOver
  <2>2. CASE UNCHANGED task
    BY <2>2, SameClaims
  <2>3. (\E r \in Calls : CallNext(r)) \/ UNCHANGED task
    BY DEF DeskNext, ReplaceParty, SendFiles
  <2> QED
    BY <2>1, <2>2, <2>3
<1> QED
  BY <1>1, DeskInvariant, PTL DEF DeskSpec, ClaimsAreHandedOver, HandedOver

----------------------------------------------------------------------------
(***************************************************************************)
(* However many admins force park and resolve a node at once, and whatever *)
(* its task does meanwhile: what force park answered for stays so, and no  *)
(* task is left open behind a node unseen.                                 *)
(***************************************************************************)

NodeRecords == [type : {"TASK", "GATEWAY"}, of : {"flow", "task workflow"},
                step : NodeSteps, status : Statuses, forced : BOOLEAN]
OverrideRecords ==
  [pc : {"idle", "check", "park", "close", "signal", "done"}, kind : {"none", "force park", "resolve"},
   step : NodeSteps, action : Actions, status : {"none", "204", "400", "409", "500"}]

\* A task that is yet to report has ended, and no step that has not begun has a task.
TasksOK ==
  /\ \A s \in NodeSteps : s > node.step => taskOf[s] = "none"
  /\ \A s \in reports : taskOf[s] = "completed"

\* Only a force park parks a node or closes a task, and only a resolution signals; a request is
\* answered once.
RequestsOK ==
  \A a \in AdminRequests :
    /\ override[a].pc \in {"park", "close"} => override[a].kind = "force park"
    /\ override[a].pc = "signal" => override[a].kind = "resolve"
    /\ override[a].pc # "done" => override[a].status = "none"

\* The requests that close a task, or were answered that it is closed.
Forced(a) ==
  \/ override[a].pc = "close"
  \/ override[a].kind = "force park" /\ override[a].status = "204"

\* The step of a forced node has begun, and waits no longer.
ForcedOK ==
  \A a \in AdminRequests : Forced(a) => override[a].step <= node.step /\ ~Waits(override[a].step)

AdminInv == AdminType /\ TasksOK /\ RequestsOK /\ ForcedOK /\ ForceParkedIsClosed /\ OpenTasksAreAwaited

\* A task that is open behind its node is known to a request.
Unclosed(s) ==
  \/ \E a \in AdminRequests : override[a].pc = "close" /\ override[a].step = s
  \/ \E a \in AdminRequests : override[a].kind = "force park" /\ override[a].step = s /\ override[a].status = "500"
Behind(s) == taskOf[s] = "open" /\ node.of = "flow" /\ ~Waits(s)

LEMMA StepsAreNaturals == NodeSteps \subseteq Nat /\ 1 \in NodeSteps
  BY AdminBoundsAssumption DEF NodeSteps

LEMMA NextStep == ASSUME NEW s \in NodeSteps, s < MaxNodeSteps PROVE s + 1 \in NodeSteps
  BY AdminBoundsAssumption DEF NodeSteps

LEMMA TypeFields ==
  AdminType <=> /\ node \in NodeRecords
                /\ taskOf \in [NodeSteps -> {"none", "open", "completed", "cancelled"}]
                /\ reports \subseteq NodeSteps
                /\ override \in [AdminRequests -> OverrideRecords]
                /\ adminFailures \in 0 .. MaxAdminFailures
  BY DEF AdminType, NodeRecords, OverrideRecords

LEMMA BehindIsUnclosed == OpenTasksAreAwaited <=> \A s \in NodeSteps : Behind(s) => Unclosed(s)
  BY DEF OpenTasksAreAwaited, Behind, Unclosed

----------------------------------------------------------------------------
(* What the operators of the actions do to the records.                    *)

LEMMA RunsRecords ==
  ASSUME node \in NodeRecords, taskOf \in [NodeSteps -> {"none", "open", "completed", "cancelled"}],
         NEW s \in NodeSteps, Runs(s)
  PROVE  /\ node' \in NodeRecords
         /\ taskOf' \in [NodeSteps -> {"none", "open", "completed", "cancelled"}]
         /\ node'.step = s /\ node'.status = "RUNNING" /\ node'.of = node.of
         /\ \A t \in NodeSteps \ {s} : taskOf'[t] = taskOf[t]
<1>1. /\ node' \in NodeRecords
      /\ node'.step = s /\ node'.status = "RUNNING" /\ node'.of = node.of
  BY DEF Runs, NodeRecords, Statuses
<1>2. /\ taskOf' \in [NodeSteps -> {"none", "open", "completed", "cancelled"}]
      /\ \A t \in NodeSteps \ {s} : taskOf'[t] = taskOf[t]
  BY DEF Runs
<1> QED
  BY <1>1, <1>2

LEMMA GoesRecords ==
  ASSUME override \in [AdminRequests -> OverrideRecords], NEW a \in AdminRequests,
         NEW pc \in {"idle", "check", "park", "close", "signal", "done"}, OverrideGoes(a, pc)
  PROVE  /\ override' \in [AdminRequests -> OverrideRecords]
         /\ \A b \in AdminRequests \ {a} : override'[b] = override[b]
         /\ override'[a].pc = pc /\ override'[a].status = override[a].status
         /\ override'[a].kind = override[a].kind /\ override'[a].step = override[a].step
  BY DEF OverrideGoes, OverrideRecords

LEMMA AnswersRecords ==
  ASSUME override \in [AdminRequests -> OverrideRecords], NEW a \in AdminRequests,
         NEW st \in {"none", "204", "400", "409", "500"}, OverrideAnswers(a, st)
  PROVE  /\ override' \in [AdminRequests -> OverrideRecords]
         /\ \A b \in AdminRequests \ {a} : override'[b] = override[b]
         /\ override'[a].pc = "done" /\ override'[a].status = st
         /\ override'[a].kind = override[a].kind /\ override'[a].step = override[a].step
<1> DEFINE y == [override[a] EXCEPT !.pc = "done"]
           x == [y EXCEPT !.status = st]
<1>1. override' = [override EXCEPT ![a] = x]
  BY DEF OverrideAnswers
<1>2. y \in OverrideRecords /\ y.pc = "done" /\ y.kind = override[a].kind /\ y.step = override[a].step
  BY DEF OverrideRecords
<1> HIDE DEF y
<1>3. x \in OverrideRecords /\ x.pc = y.pc /\ x.status = st /\ x.kind = y.kind /\ x.step = y.step
  BY <1>2 DEF OverrideRecords
<1> HIDE DEF x
<1> QED
  BY <1>1, <1>2, <1>3

LEMMA ArrivesRecords ==
  ASSUME override \in [AdminRequests -> OverrideRecords], NEW a \in AdminRequests,
         NEW kind \in {"force park", "resolve"}, NEW s \in NodeSteps, NEW action \in Actions,
         OverrideArrives(a, kind, s, action)
  PROVE  /\ override' \in [AdminRequests -> OverrideRecords]
         /\ \A b \in AdminRequests \ {a} : override'[b] = override[b]
         /\ override[a].pc = "idle" /\ override'[a].pc = "check" /\ override'[a].status = "none"
<1>1. override' = [override EXCEPT ![a] =
                     [pc |-> "check", kind |-> kind, step |-> s, action |-> action, status |-> "none"]]
  BY DEF OverrideArrives
<1>2. override[a] = NoOverride
  BY DEF OverrideArrives
<1>3. override[a].pc = "idle"
  <2>1. NoOverride.pc = "idle"
    BY DEF NoOverride
  <2> QED
    BY <1>2, <2>1
<1> QED
  BY <1>1, <1>3 DEF OverrideRecords

----------------------------------------------------------------------------
(* What keeps the parts of the invariant about requests.                   *)

\* The node only goes on to later steps, and takes up no earlier one again.
GoesOn ==
  /\ node.step <= node'.step
  /\ node'.of = node.of
  /\ \A s \in NodeSteps : s <= node.step => /\ taskOf'[s] = "open" => taskOf[s] = "open"
                                            /\ Waits(s)' => Waits(s)

LEMMA ForcedStays ==
  ASSUME AdminInv, AdminType', GoesOn, NEW a \in AdminRequests, override'[a] = override[a]
  PROVE  /\ Forced(a)' => override'[a].step <= node'.step /\ ~Waits(override[a].step)'
         /\ override'[a].kind = "force park" /\ override'[a].status = "204" =>
              /\ node'.of = "flow" => taskOf'[override'[a].step] # "open"
              /\ ~Waits(override[a].step)'
<1>1. PICK s \in NodeSteps : s = override[a].step
  BY DEF AdminInv, AdminType
<1>2. s \in Nat /\ node.step \in Nat /\ node'.step \in Nat
  BY StepsAreNaturals DEF AdminInv, AdminType
<1>3. Forced(a)' <=> Forced(a)
  BY DEF Forced
<1>4. Forced(a) => s <= node.step /\ ~Waits(s)
  BY <1>1 DEF AdminInv, ForcedOK
<1>5. Forced(a) => s <= node'.step /\ ~Waits(s)'
  BY <1>2, <1>4 DEF GoesOn
<1>6. ASSUME override[a].kind = "force park", override[a].status = "204", node'.of = "flow"
      PROVE  taskOf'[s] # "open"
  <2>1. node.of = "flow"
    BY <1>6 DEF GoesOn
  <2>2. taskOf[s] # "open"
    BY <1>1, <1>6, <2>1 DEF AdminInv, ForceParkedIsClosed
  <2>3. s <= node.step
    BY <1>4, <1>6 DEF Forced
  <2> QED
    BY <2>2, <2>3 DEF GoesOn
<1> QED
  BY <1>1, <1>3, <1>5, <1>6 DEF Forced, Waits

\* A step that leaves the requests alone.
LEMMA WithoutRequests ==
  ASSUME AdminInv, AdminType', TasksOK', GoesOn, UNCHANGED override,
         \A s \in NodeSteps : Behind(s)' => Behind(s)
  PROVE  AdminInv'
<1>1. RequestsOK'
  BY DEF AdminInv, RequestsOK
<1>2. ForcedOK' /\ ForceParkedIsClosed'
  <2>1. ASSUME NEW a \in AdminRequests
        PROVE  /\ Forced(a)' => override'[a].step <= node'.step /\ ~Waits(override[a].step)'
               /\ override'[a].kind = "force park" /\ override'[a].status = "204" =>
                    /\ node'.of = "flow" => taskOf'[override'[a].step] # "open"
                    /\ ~Waits(override[a].step)'
    <3>1. override'[a] = override[a]
      OBVIOUS
    <3> QED
      BY <3>1, ForcedStays
  <2>2. ForcedOK'
    BY <2>1 DEF ForcedOK
  <2>3. ForceParkedIsClosed'
    BY <2>1 DEF ForceParkedIsClosed
  <2> QED
    BY <2>2, <2>3
<1>3. \A s \in NodeSteps : Unclosed(s) => Unclosed(s)'
  BY DEF Unclosed
<1>4. \A s \in NodeSteps : Behind(s)' => Unclosed(s)'
  BY <1>3, BehindIsUnclosed DEF AdminInv
<1>5. OpenTasksAreAwaited'
  BY <1>4 DEF OpenTasksAreAwaited, Behind, Unclosed
<1> QED
  BY <1>1, <1>2, <1>5 DEF AdminInv

\* A step of one request.
LEMMA OfARequest ==
  ASSUME AdminInv, AdminType', TasksOK', GoesOn, NEW a \in AdminRequests,
         \A b \in AdminRequests \ {a} : override'[b] = override[b],
         override'[a].pc \in {"park", "close"} => override'[a].kind = "force park",
         override'[a].pc = "signal" => override'[a].kind = "resolve",
         override'[a].pc # "done" => override'[a].status = "none",
         Forced(a)' => /\ override'[a].step <= node'.step /\ ~Waits(override[a].step)'
                       /\ override'[a].status = "204" /\ node'.of = "flow" => taskOf'[override'[a].step] # "open",
         \A s \in NodeSteps : Behind(s)' => Unclosed(s)'
  PROVE  AdminInv'
<1>1. RequestsOK'
  BY DEF AdminInv, RequestsOK
<1>2. ASSUME NEW b \in AdminRequests
      PROVE  /\ Forced(b)' => override'[b].step <= node'.step /\ ~Waits(override[b].step)'
             /\ override'[b].kind = "force park" /\ override'[b].status = "204" =>
                  /\ node'.of = "flow" => taskOf'[override'[b].step] # "open"
                  /\ ~Waits(override[b].step)'
  <2>1. CASE b = a
    BY <2>1 DEF Forced
  <2>2. CASE b # a
    BY <2>2, ForcedStays
  <2> QED
    BY <2>1, <2>2
<1>3. ForcedOK'
  BY <1>2 DEF ForcedOK
<1>5. ForceParkedIsClosed'
  BY <1>2 DEF ForceParkedIsClosed
<1>4. OpenTasksAreAwaited'
  BY DEF OpenTasksAreAwaited, Behind, Unclosed
<1> QED
  BY <1>1, <1>3, <1>4, <1>5 DEF AdminInv

----------------------------------------------------------------------------
(* The node and its task.                                                  *)

LEMMA NaturalSteps ==
  ASSUME AdminType
  PROVE  node.step \in NodeSteps /\ node.step \in Nat /\ (\A s \in NodeSteps : s \in Nat)
  BY StepsAreNaturals DEF AdminType

LEMMA TaskEndsKeeps ==
  ASSUME AdminInv, NEW s \in NodeSteps, TaskEnds(s)
  PROVE  AdminInv'
<1> USE DEF AdminInv, TaskEnds
<1>1. AdminType'
  BY DEF AdminType
<1>2. TasksOK'
  BY NaturalSteps DEF AdminType, TasksOK
<1>4. GoesOn
  <2>1. node.step <= node'.step /\ node'.of = node.of
    <3>1. node.step \in Nat
      BY NaturalSteps
    <3>2. node'.step = node.step /\ node'.of = node.of
      BY DEF AdminType
    <3> QED
      BY <3>1, <3>2
  <2>2. \A t \in NodeSteps : (taskOf'[t] = "open" => taskOf[t] = "open") /\ (Waits(t)' => Waits(t))
    BY DEF AdminType, Waits
  <2> QED
    BY <2>1, <2>2 DEF GoesOn
<1>3. \A t \in NodeSteps : Behind(t)' => Behind(t)
  BY DEF AdminType, Behind, Waits
<1> QED
  BY <1>1, <1>2, <1>3, <1>4, WithoutRequests

LEMMA ReportsKeeps ==
  ASSUME AdminInv, NEW s \in NodeSteps, Reports(s)
  PROVE  AdminInv'
<1> USE DEF AdminInv, Reports
<1>1. AdminType'
  BY DEF AdminType, Statuses
<1>2. TasksOK'
  BY NaturalSteps DEF AdminType, TasksOK
<1>4. GoesOn
  <2>1. node.step <= node'.step /\ node'.of = node.of
    <3>1. node.step \in Nat
      BY NaturalSteps
    <3>2. node'.step = node.step /\ node'.of = node.of
      BY DEF AdminType
    <3> QED
      BY <3>1, <3>2
  <2>2. \A t \in NodeSteps : (taskOf'[t] = "open" => taskOf[t] = "open") /\ (Waits(t)' => Waits(t))
    BY DEF AdminType, Waits
  <2> QED
    BY <2>1, <2>2 DEF GoesOn
<1>3. ASSUME NEW t \in NodeSteps, Behind(t)' PROVE Behind(t)
  <2>1. t # s
    BY <1>3 DEF TasksOK, Behind
  <2> QED
    BY <1>3, <2>1 DEF AdminType, Behind, Waits
<1> QED
  BY <1>1, <1>2, <1>3, <1>4, WithoutRequests

LEMMA ParksKeeps ==
  ASSUME AdminInv, Parks
  PROVE  AdminInv'
<1> USE DEF AdminInv, Parks
<1>1. AdminType'
  BY DEF AdminType, Statuses
<1>2. TasksOK'
  BY NaturalSteps DEF AdminType, TasksOK
<1>3. GoesOn
  <2>1. node.step <= node'.step /\ node'.of = node.of
    <3>1. node.step \in Nat
      BY NaturalSteps
    <3>2. node'.step = node.step /\ node'.of = node.of
      BY DEF AdminType
    <3> QED
      BY <3>1, <3>2
  <2>2. \A t \in NodeSteps : (taskOf'[t] = "open" => taskOf[t] = "open") /\ (Waits(t)' => Waits(t))
    BY DEF AdminType, Waits
  <2> QED
    BY <2>1, <2>2 DEF GoesOn
<1>4. \A t \in NodeSteps : Behind(t)' => Behind(t)
  BY DEF AdminType, Behind, Waits
<1> QED
  BY <1>1, <1>2, <1>3, <1>4, WithoutRequests

\* The node goes on to its next step, after one that it does not wait on.
LEMMA RunsOn ==
  ASSUME AdminInv, node.status # "RUNNING", node.step < MaxNodeSteps, Runs(node.step + 1), UNCHANGED reports
  PROVE  TasksOK' /\ GoesOn /\ \A t \in NodeSteps : Behind(t)' => Behind(t)
<1> DEFINE s == node.step + 1
<1>1. AdminType /\ TasksOK /\ node \in NodeRecords /\ taskOf \in [NodeSteps -> {"none", "open", "completed", "cancelled"}]
  BY TypeFields DEF AdminInv
<1>2. s \in NodeSteps /\ node.step \in Nat
  BY <1>1, NaturalSteps, NextStep
<1>3. /\ node'.step = s /\ node'.of = node.of
      /\ \A t \in NodeSteps \ {s} : taskOf'[t] = taskOf[t]
  BY <1>1, <1>2, RunsRecords
<1>4. TasksOK'
  <2>1. \A t \in NodeSteps : t > s => taskOf'[t] = "none"
    BY <1>1, <1>2, <1>3, NaturalSteps DEF TasksOK
  <2>2. \A t \in reports : t # s /\ taskOf[t] = "completed" /\ t \in NodeSteps
    <3>1. taskOf[s] = "none"
      BY <1>1, <1>2 DEF TasksOK
    <3> QED
      BY <1>1, <3>1 DEF TasksOK, AdminType
  <2> QED
    BY <1>3, <2>1, <2>2 DEF TasksOK
<1>5. GoesOn
  BY <1>1, <1>2, <1>3, NaturalSteps DEF GoesOn, Waits
<1>6. ASSUME NEW t \in NodeSteps, Behind(t)' PROVE Behind(t)
  <2>1. node'.status = "RUNNING"
    BY <1>1, <1>2, RunsRecords
  <2>2. t # s
    BY <1>3, <1>6, <2>1 DEF Behind, Waits
  <2> QED
    BY <1>3, <1>6, <2>2 DEF Behind, Waits
<1> QED
  BY <1>4, <1>5, <1>6

LEMMA RevisitsKeeps ==
  ASSUME AdminInv, Revisits
  PROVE  AdminInv'
<1>1. AdminType /\ node.status # "RUNNING" /\ node.step < MaxNodeSteps /\ Runs(node.step + 1)
  BY DEF AdminInv, Revisits
<1>2. UNCHANGED <<reports, override, adminFailures>>
  BY DEF Revisits
<1>3. node.step + 1 \in NodeSteps
  BY <1>1, NaturalSteps, NextStep
<1>4. AdminType'
  BY <1>1, <1>2, <1>3, RunsRecords DEF AdminType, NodeRecords
<1> QED
  BY <1>1, <1>2, <1>4, RunsOn, WithoutRequests

----------------------------------------------------------------------------
(* Requests.                                                               *)

LEMMA NodeStays ==
  ASSUME AdminInv, UNCHANGED <<node, taskOf, reports>>
  PROVE  TasksOK' /\ GoesOn /\ \A s \in NodeSteps : Behind(s)' => Behind(s) /\ Unclosed(s)
<1>1. TasksOK'
  BY DEF AdminInv, TasksOK
<1>2. GoesOn
  BY NaturalSteps DEF AdminInv, GoesOn, Waits
<1>3. \A s \in NodeSteps : Behind(s)' => Behind(s)
  BY DEF Behind, Waits
<1> QED
  BY <1>1, <1>2, <1>3, BehindIsUnclosed DEF AdminInv

\* What stands for an unclosed task is a request that closes it or one that has failed.
LEMMA UnclosedStays ==
  ASSUME NEW a \in AdminRequests, \A b \in AdminRequests \ {a} : override'[b] = override[b],
         override[a].pc # "close", override[a].status # "500",
         NEW s \in NodeSteps, Unclosed(s)
  PROVE  Unclosed(s)'
  BY DEF Unclosed

LEMMA ArrivesKeeps ==
  ASSUME AdminInv, NEW a \in AdminRequests, NEW kind \in {"force park", "resolve"}, NEW s \in NodeSteps,
         NEW action \in Actions, OverrideArrives(a, kind, s, action)
  PROVE  AdminInv'
<1>1. UNCHANGED <<node, taskOf, reports, adminFailures>>
  BY DEF OverrideArrives
<1>2. /\ override' \in [AdminRequests -> OverrideRecords]
      /\ \A b \in AdminRequests \ {a} : override'[b] = override[b]
      /\ override[a].pc = "idle" /\ override'[a].pc = "check" /\ override'[a].status = "none"
  BY TypeFields, ArrivesRecords DEF AdminInv
<1>3. AdminType'
  BY <1>1, <1>2 DEF AdminInv, AdminType, OverrideRecords
<1>4. override[a].status = "none"
  BY <1>2 DEF AdminInv, RequestsOK
<1>5. \A t \in NodeSteps : Behind(t)' => Unclosed(t)'
  BY <1>1, <1>2, <1>4, NodeStays, UnclosedStays
<1>6. ~Forced(a)'
  BY <1>2 DEF Forced
<1>7. TasksOK' /\ GoesOn
  BY <1>1, NodeStays
<1> QED
  BY <1>2, <1>3, <1>5, <1>6, <1>7, OfARequest

\* A request that only looks, and goes on or is refused.
LEMMA LooksKeep ==
  ASSUME AdminInv, NEW a \in AdminRequests, UNCHANGED <<node, taskOf, reports>>,
         AdminType', \A b \in AdminRequests \ {a} : override'[b] = override[b],
         override[a].pc \in {"check", "park", "signal"},
         override'[a].pc \in {"park", "close"} => override[a].kind = "force park",
         override'[a].pc = "signal" => override[a].kind = "resolve",
         override'[a].pc # "done" => override'[a].status = "none",
         override'[a].pc = "close" => override[a].step <= node.step /\ ~Waits(override[a].step),
         override'[a].status = "204" => override[a].kind = "resolve",
         override'[a].kind = override[a].kind, override'[a].step = override[a].step
  PROVE  AdminInv'
<1>1. override[a].status = "none"
  BY DEF AdminInv, RequestsOK
<1>2. TasksOK' /\ GoesOn /\ \A s \in NodeSteps : Behind(s)' => Unclosed(s)
  BY NodeStays
<1>3. \A s \in NodeSteps : Behind(s)' => Unclosed(s)'
  BY <1>1, <1>2, UnclosedStays
<1>4. Forced(a)' => override'[a].pc = "close"
  BY DEF Forced
<1>5. override'[a].pc = "close" => override'[a].step <= node'.step /\ ~Waits(override[a].step)' /\ override'[a].status # "204"
  BY DEF Waits
<1> QED
  BY <1>2, <1>3, <1>4, <1>5, OfARequest

LEMMA FindForceParkKeeps ==
  ASSUME AdminInv, NEW a \in AdminRequests, FindForceParkNode(a)
  PROVE  AdminInv'
<1>1. /\ UNCHANGED <<node, taskOf, reports, adminFailures>>
      /\ override[a].pc = "check" /\ override[a].kind = "force park"
  BY DEF FindForceParkNode
<1>2. \/ \E st \in {"400", "409"} : OverrideAnswers(a, st)
      \/ OverrideGoes(a, "park")
      \/ OverrideGoes(a, "close") /\ Parked(override[a].step)
  BY DEF FindForceParkNode
<1>3. AdminType /\ override \in [AdminRequests -> OverrideRecords] /\ node.step \in Nat
  BY TypeFields, NaturalSteps DEF AdminInv
<1>4. override[a].status = "none"
  BY <1>1 DEF AdminInv, RequestsOK
<1>5. /\ override' \in [AdminRequests -> OverrideRecords]
      /\ \A b \in AdminRequests \ {a} : override'[b] = override[b]
      /\ override'[a].kind = override[a].kind /\ override'[a].step = override[a].step
      /\ override'[a].status # "204"
      /\ override'[a].pc # "done" => override'[a].status = "none"
      /\ override'[a].pc # "signal"
      /\ override'[a].pc = "close" => Parked(override[a].step)
  <2>1. CASE \E st \in {"400", "409"} : OverrideAnswers(a, st)
    <3>1. PICK st \in {"400", "409"} : OverrideAnswers(a, st)
      BY <2>1
    <3>2. st \in {"none", "204", "400", "409", "500"} /\ st # "204"
      OBVIOUS
    <3> QED
      BY <1>3, <3>1, <3>2, AnswersRecords
  <2>2. CASE OverrideGoes(a, "park")
    BY <1>3, <1>4, <2>2, GoesRecords
  <2>3. CASE OverrideGoes(a, "close") /\ Parked(override[a].step)
    BY <1>3, <1>4, <2>3, GoesRecords
  <2> QED
    BY <1>2, <2>1, <2>2, <2>3
<1>6. AdminType'
  BY <1>1, <1>3, <1>5 DEF AdminType, OverrideRecords
<1>7. override'[a].pc = "close" => override[a].step <= node.step /\ ~Waits(override[a].step)
  BY <1>3, <1>5 DEF Parked, Waits
<1> QED
  BY <1>1, <1>5, <1>6, <1>7, LooksKeep

LEMMA FindParkedKeeps ==
  ASSUME AdminInv, NEW a \in AdminRequests, FindParkedNode(a)
  PROVE  AdminInv'
<1>1. /\ UNCHANGED <<node, taskOf, reports, adminFailures>>
      /\ override[a].pc = "check" /\ override[a].kind = "resolve"
  BY DEF FindParkedNode
<1>2. \/ \E st \in {"400", "409"} : OverrideAnswers(a, st)
      \/ OverrideGoes(a, "signal")
  BY DEF FindParkedNode
<1>3. AdminType /\ override \in [AdminRequests -> OverrideRecords]
  BY TypeFields DEF AdminInv
<1>4. override[a].status = "none"
  BY <1>1 DEF AdminInv, RequestsOK
<1>5. /\ override' \in [AdminRequests -> OverrideRecords]
      /\ \A b \in AdminRequests \ {a} : override'[b] = override[b]
      /\ override'[a].kind = override[a].kind /\ override'[a].step = override[a].step
      /\ override'[a].pc \in {"done", "signal"}
      /\ override'[a].pc # "done" => override'[a].status = "none"
  <2>1. CASE \E st \in {"400", "409"} : OverrideAnswers(a, st)
    <3>1. PICK st \in {"400", "409"} : OverrideAnswers(a, st)
      BY <2>1
    <3>2. st \in {"none", "204", "400", "409", "500"}
      OBVIOUS
    <3> QED
      BY <1>3, <3>1, <3>2, AnswersRecords
  <2>2. CASE OverrideGoes(a, "signal")
    BY <1>3, <1>4, <2>2, GoesRecords
  <2> QED
    BY <1>2, <2>1, <2>2
<1>6. AdminType'
  BY <1>1, <1>3, <1>5 DEF AdminType, OverrideRecords
<1> QED
  BY <1>1, <1>5, <1>6, LooksKeep

\* The node that is parked is the one that waited on the request's step.
LEMMA ForceParkKeeps ==
  ASSUME AdminInv, NEW a \in AdminRequests, ForcePark(a)
  PROVE  AdminInv'
<1>1. UNCHANGED <<taskOf, reports, adminFailures>> /\ override[a].pc = "park"
  BY DEF ForcePark
<1>2. AdminType /\ override \in [AdminRequests -> OverrideRecords] /\ node.step \in Nat
  BY TypeFields, NaturalSteps DEF AdminInv
<1>3. override[a].status = "none" /\ override[a].kind = "force park"
  BY <1>1 DEF AdminInv, RequestsOK
<1>4. CASE ~Waits(override[a].step)
  <2>1. OverrideAnswers(a, "409") /\ UNCHANGED node
    BY <1>4 DEF ForcePark
  <2>2. /\ override' \in [AdminRequests -> OverrideRecords]
        /\ \A b \in AdminRequests \ {a} : override'[b] = override[b]
        /\ override'[a].kind = override[a].kind /\ override'[a].step = override[a].step
        /\ override'[a].pc = "done" /\ override'[a].status = "409"
    BY <1>2, <2>1, AnswersRecords
  <2>3. AdminType'
    BY <1>1, <1>2, <2>1, <2>2 DEF AdminType, OverrideRecords
  <2> QED
    BY <1>1, <2>1, <2>2, <2>3, LooksKeep
<1>5. CASE Waits(override[a].step)
  <2>1. /\ node' = [node EXCEPT !.status = "AWAITING_ADMIN", !.forced = TRUE]
        /\ IF node.of = "flow" THEN OverrideGoes(a, "close") ELSE OverrideAnswers(a, "204")
    BY <1>5 DEF ForcePark
  <2>2. /\ node' \in NodeRecords
        /\ node'.status = "AWAITING_ADMIN" /\ node'.step = node.step /\ node'.of = node.of
    BY <1>2, <2>1, TypeFields DEF NodeRecords, Statuses
  <2>3. /\ override' \in [AdminRequests -> OverrideRecords]
        /\ \A b \in AdminRequests \ {a} : override'[b] = override[b]
        /\ override'[a].kind = "force park" /\ override'[a].step = override[a].step
        /\ override'[a].pc # "done" => override'[a].status = "none"
        /\ override'[a].pc \in {"close", "done"}
        /\ node.of = "flow" => override'[a].pc = "close"
    <3>1. CASE node.of = "flow"
      BY <1>2, <1>3, <2>1, <3>1, GoesRecords
    <3>2. CASE node.of # "flow"
      BY <1>2, <1>3, <2>1, <3>2, AnswersRecords
    <3> QED
      BY <3>1, <3>2
  <2>4. AdminType'
    BY <1>1, <1>2, <2>2, <2>3 DEF AdminType, OverrideRecords, NodeRecords
  <2>5. TasksOK' /\ GoesOn
    <3>1. TasksOK'
      BY <1>1, <2>2 DEF AdminInv, TasksOK
    <3>2. GoesOn
      BY <1>1, <1>2, <2>2 DEF GoesOn, Waits
    <3> QED
      BY <3>1, <3>2
  <2>6. override[a].step = node.step /\ ~Waits(override[a].step)'
    BY <1>5, <2>2 DEF Waits
  <2>7. ASSUME NEW s \in NodeSteps, Behind(s)' PROVE Unclosed(s)'
    <3>1. taskOf[s] = "open" /\ node.of = "flow"
      BY <1>1, <2>2, <2>7 DEF Behind
    <3>2. CASE s = node.step
      BY <2>3, <2>6, <3>1, <3>2 DEF Unclosed
    <3>3. CASE s # node.step
      <4>1. Behind(s)
        BY <3>1, <3>3 DEF Behind, Waits
      <4>2. Unclosed(s)
        BY <4>1, BehindIsUnclosed DEF AdminInv
      <4> QED
        BY <1>1, <1>3, <2>3, <4>2, UnclosedStays
    <3> QED
      BY <3>2, <3>3
  <2>8. override'[a].step <= node'.step
    <3>1. override'[a].step = node.step /\ node'.step = node.step
      BY <2>2, <2>3, <2>6
    <3>2. node.step \in Nat
      BY <1>2
    <3> QED
      BY <3>1, <3>2
  <2>9. Forced(a)' => (override'[a].status = "204" /\ node'.of = "flow" => taskOf'[override'[a].step] # "open")
    BY <2>2, <2>3
  <2> QED
    BY <2>3, <2>4, <2>5, <2>6, <2>7, <2>8, <2>9, OfARequest
<1> QED
  BY <1>4, <1>5

LEMMA CloseTaskKeeps ==
  ASSUME AdminInv, NEW a \in AdminRequests, CloseTask(a)
  PROVE  AdminInv'
<1>1. /\ UNCHANGED <<node, reports, adminFailures>> /\ override[a].pc = "close"
      /\ OverrideAnswers(a, "204")
  BY DEF CloseTask
<1>2. AdminType /\ override \in [AdminRequests -> OverrideRecords] /\ node.step \in Nat
  BY TypeFields, NaturalSteps DEF AdminInv
<1>3. /\ override' \in [AdminRequests -> OverrideRecords]
      /\ \A b \in AdminRequests \ {a} : override'[b] = override[b]
      /\ override'[a].kind = override[a].kind /\ override'[a].step = override[a].step
      /\ override'[a].pc = "done" /\ override'[a].status = "204"
  BY <1>1, <1>2, AnswersRecords
<1>4. PICK s \in NodeSteps : s = override[a].step
  BY <1>2 DEF OverrideRecords
<1>5. /\ taskOf' \in [NodeSteps -> {"none", "open", "completed", "cancelled"}]
      /\ taskOf'[s] = IF taskOf[s] = "open" THEN "cancelled" ELSE taskOf[s]
      /\ \A t \in NodeSteps \ {s} : taskOf'[t] = taskOf[t]
  <2>1. taskOf' = [taskOf EXCEPT ![s] = IF @ = "open" THEN "cancelled" ELSE @]
    BY <1>4 DEF CloseTask
  <2>2. taskOf \in [NodeSteps -> {"none", "open", "completed", "cancelled"}]
    BY <1>2 DEF AdminType
  <2> QED
    BY <2>1, <2>2
<1>6. AdminType'
  BY <1>1, <1>2, <1>3, <1>5 DEF AdminType, OverrideRecords
<1>7. TasksOK'
  <2>1. \A t \in NodeSteps : taskOf[t] \in {"none", "completed"} => taskOf'[t] = taskOf[t]
    BY <1>5
  <2> QED
    BY <1>1, <1>2, <2>1 DEF AdminInv, AdminType, TasksOK
<1>8. GoesOn
  <2>1. \A t \in NodeSteps : taskOf'[t] = "open" => taskOf[t] = "open"
    BY <1>5
  <2> QED
    BY <1>1, <1>2, <2>1 DEF GoesOn, Waits
<1>9. override[a].step <= node.step /\ ~Waits(override[a].step)
  BY <1>1 DEF AdminInv, ForcedOK, Forced
<1>10. ASSUME NEW t \in NodeSteps, Behind(t)' PROVE Unclosed(t)'
  <2>1. t # s /\ Behind(t)
    BY <1>1, <1>5, <1>10 DEF Behind, Waits
  <2>2. Unclosed(t)
    BY <2>1, BehindIsUnclosed DEF AdminInv
  <2>3. override[a].status # "500"
    BY <1>1 DEF AdminInv, RequestsOK
  <2> QED
    BY <1>3, <1>4, <2>1, <2>2, <2>3 DEF Unclosed
<1>11. override'[a].step <= node'.step /\ ~Waits(override[a].step)' /\ taskOf'[override'[a].step] # "open"
  BY <1>1, <1>3, <1>4, <1>5, <1>9 DEF Waits
<1> QED
  BY <1>3, <1>6, <1>7, <1>8, <1>10, <1>11, OfARequest

LEMMA OverrideFailsKeeps ==
  ASSUME AdminInv, NEW a \in AdminRequests, OverrideFails(a)
  PROVE  AdminInv'
<1>1. /\ UNCHANGED <<node, taskOf, reports>>
      /\ override[a].pc \in {"check", "park", "close", "signal"} /\ OverrideAnswers(a, "500")
      /\ adminFailures < MaxAdminFailures /\ adminFailures' = adminFailures + 1
  BY DEF OverrideFails
<1>2. AdminType /\ override \in [AdminRequests -> OverrideRecords]
  BY TypeFields DEF AdminInv
<1>3. /\ override' \in [AdminRequests -> OverrideRecords]
      /\ \A b \in AdminRequests \ {a} : override'[b] = override[b]
      /\ override'[a].kind = override[a].kind /\ override'[a].step = override[a].step
      /\ override'[a].pc = "done" /\ override'[a].status = "500"
  BY <1>1, <1>2, AnswersRecords
<1>4. adminFailures' \in 0 .. MaxAdminFailures
  <2>1. adminFailures \in 0 .. MaxAdminFailures
    BY <1>2 DEF AdminType
  <2> QED
    BY <1>1, <2>1, AdminBoundsAssumption
<1>5. AdminType'
  BY <1>1, <1>2, <1>3, <1>4 DEF AdminType, OverrideRecords
<1>6. TasksOK' /\ GoesOn /\ \A s \in NodeSteps : Behind(s)' => Unclosed(s)
  BY <1>1, NodeStays
<1>7. override[a].pc = "close" => override[a].kind = "force park"
  BY DEF AdminInv, RequestsOK
<1>8. override[a].status # "500"
  BY <1>1 DEF AdminInv, RequestsOK
<1>9. \A s \in NodeSteps : Unclosed(s) => Unclosed(s)'
  BY <1>3, <1>7, <1>8 DEF Unclosed
<1>10. ~Forced(a)'
  BY <1>3 DEF Forced
<1> QED
  BY <1>3, <1>5, <1>6, <1>9, <1>10, OfARequest

LEMMA ResolveKeeps ==
  ASSUME AdminInv, NEW a \in AdminRequests, Resolve(a)
  PROVE  AdminInv'
<1>1. /\ UNCHANGED <<reports, adminFailures>>
      /\ override[a].pc = "signal" /\ OverrideAnswers(a, "204")
  BY DEF Resolve
<1>2. AdminType /\ override \in [AdminRequests -> OverrideRecords] /\ node \in NodeRecords /\ node.step \in Nat
  BY TypeFields, NaturalSteps DEF AdminInv
<1>3. /\ override' \in [AdminRequests -> OverrideRecords]
      /\ \A b \in AdminRequests \ {a} : override'[b] = override[b]
      /\ override'[a].kind = override[a].kind /\ override'[a].step = override[a].step
      /\ override'[a].pc = "done" /\ override'[a].status = "204"
  BY <1>1, <1>2, AnswersRecords
<1>4. \/ node.status # "RUNNING" /\ node.step < MaxNodeSteps /\ Runs(node.step + 1)
      \/ /\ UNCHANGED taskOf /\ node.status # "RUNNING"
         /\ \E st \in {"COMPLETED", "FAILED"} : node' = [node EXCEPT !.status = st, !.forced = FALSE]
      \/ UNCHANGED <<node, taskOf>>
  BY DEF Resolve, Parked, IsTask
<1>5. /\ node' \in NodeRecords /\ taskOf' \in [NodeSteps -> {"none", "open", "completed", "cancelled"}]
      /\ TasksOK' /\ GoesOn /\ \A s \in NodeSteps : Behind(s)' => Behind(s)
  <2>1. CASE node.status # "RUNNING" /\ node.step < MaxNodeSteps /\ Runs(node.step + 1)
    <3>1. node.step + 1 \in NodeSteps
      BY <1>2, <2>1, NaturalSteps, NextStep
    <3>2. taskOf \in [NodeSteps -> {"none", "open", "completed", "cancelled"}]
      BY <1>2, TypeFields
    <3>3. node' \in NodeRecords /\ taskOf' \in [NodeSteps -> {"none", "open", "completed", "cancelled"}]
      BY <1>2, <2>1, <3>1, <3>2, RunsRecords
    <3> QED
      BY <1>1, <2>1, <3>3, RunsOn
  <2>2. CASE /\ UNCHANGED taskOf /\ node.status # "RUNNING"
             /\ \E st \in {"COMPLETED", "FAILED"} : node' = [node EXCEPT !.status = st, !.forced = FALSE]
    <3>1. PICK st \in {"COMPLETED", "FAILED"} : node' = [node EXCEPT !.status = st, !.forced = FALSE]
      BY <2>2
    <3>2. node' \in NodeRecords /\ node'.step = node.step /\ node'.of = node.of /\ node'.status # "RUNNING"
      BY <1>2, <3>1 DEF NodeRecords, Statuses
    <3>3. TasksOK'
      BY <1>1, <2>2, <3>2 DEF AdminInv, TasksOK
    <3>4. GoesOn
      <4>1. node.step <= node'.step
        BY <1>2, <3>2
      <4> QED
        BY <2>2, <3>2, <4>1 DEF GoesOn, Waits
    <3>5. \A s \in NodeSteps : Behind(s)' => Behind(s)
      BY <2>2, <3>2 DEF Behind, Waits
    <3> QED
      BY <1>2, <2>2, <3>2, <3>3, <3>4, <3>5, TypeFields
  <2>3. CASE UNCHANGED <<node, taskOf>>
    BY <1>1, <1>2, <2>3, TypeFields, NodeStays
  <2> QED
    BY <1>4, <2>1, <2>2, <2>3
<1>6. AdminType'
  BY <1>1, <1>2, <1>3, <1>5 DEF AdminType, NodeRecords, OverrideRecords
<1>7. override[a].kind = "resolve" /\ override[a].status = "none"
  BY <1>1 DEF AdminInv, RequestsOK
<1>8. \A s \in NodeSteps : Behind(s)' => Unclosed(s)'
  BY <1>1, <1>3, <1>5, <1>7, BehindIsUnclosed, UnclosedStays DEF AdminInv
<1>9. ~Forced(a)'
  BY <1>3, <1>7 DEF Forced
<1> QED
  BY <1>3, <1>5, <1>6, <1>8, <1>9, OfARequest

----------------------------------------------------------------------------
(* The invariant and what follows.                                         *)

LEMMA FirstStep == /\ 0 \in 0 .. MaxAdminFailures
                   /\ \A s \in NodeSteps : s > 1 => s # 1
  BY StepsAreNaturals, AdminBoundsAssumption

LEMMA AdminInitInv == AdminInit => AdminInv
<1> SUFFICES ASSUME AdminInit PROVE AdminInv
  OBVIOUS
<1>1. PICK type \in {"TASK", "GATEWAY"}, of \in {"flow", "task workflow"} :
        node = [type |-> type, of |-> of, step |-> 1, status |-> "RUNNING", forced |-> FALSE]
  BY DEF AdminInit
<1>2. /\ node \in NodeRecords /\ node.step = 1 /\ node.status = "RUNNING"
      /\ node.type = type
  BY <1>1, StepsAreNaturals DEF NodeRecords, Statuses
<1>3. /\ \A s \in NodeSteps : taskOf[s] = IF s = 1 /\ IsTask THEN "open" ELSE "none"
      /\ taskOf \in [NodeSteps -> {"none", "open", "completed", "cancelled"}]
  BY DEF AdminInit
<1>4. reports = {} /\ adminFailures = 0
  BY DEF AdminInit
<1>5. NoOverride \in OverrideRecords /\ NoOverride.pc = "idle" /\ NoOverride.kind = "none" /\ NoOverride.status = "none"
  BY StepsAreNaturals DEF NoOverride, OverrideRecords, Actions
<1>6. /\ override \in [AdminRequests -> OverrideRecords]
      /\ \A a \in AdminRequests : override[a].pc = "idle" /\ override[a].kind = "none" /\ override[a].status = "none"
  <2>1. override = [a \in AdminRequests |-> NoOverride]
    BY DEF AdminInit
  <2> QED
    BY <1>5, <2>1
<1>7. AdminType
  <2>1. adminFailures \in 0 .. MaxAdminFailures /\ reports \subseteq NodeSteps
    BY <1>4, FirstStep
  <2> QED
    BY <1>2, <1>3, <1>6, <2>1, TypeFields
<1>8. TasksOK
  BY <1>2, <1>3, <1>4, FirstStep DEF TasksOK
<1>9. RequestsOK /\ ForcedOK /\ ForceParkedIsClosed
  BY <1>6 DEF RequestsOK, ForcedOK, Forced, ForceParkedIsClosed
<1>10. OpenTasksAreAwaited
  BY <1>2, <1>3 DEF OpenTasksAreAwaited, Waits
<1> QED
  BY <1>7, <1>8, <1>9, <1>10 DEF AdminInv

LEMMA AdminStep == AdminInv /\ [AdminNext]_adminVars => AdminInv'
<1> SUFFICES ASSUME AdminInv, [AdminNext]_adminVars PROVE AdminInv'
  OBVIOUS
<1>1. CASE UNCHANGED adminVars
  <2>1. UNCHANGED <<node, taskOf, reports, override, adminFailures>>
    BY <1>1 DEF adminVars
  <2>2. AdminType'
    BY <2>1 DEF AdminInv, AdminType
  <2> QED
    BY <2>1, <2>2, NodeStays, WithoutRequests
<1>2. CASE AdminNext
  <2>1. ASSUME NEW s \in NodeSteps, TaskEnds(s) \/ Reports(s) PROVE AdminInv'
    BY <2>1, TaskEndsKeeps, ReportsKeeps
  <2>2. CASE Parks \/ Revisits
    BY <2>2, ParksKeeps, RevisitsKeeps
  <2>3. ASSUME NEW a \in AdminRequests, NEW s \in NodeSteps, NEW action \in Actions,
               OverrideArrives(a, "resolve", s, action) \/ OverrideArrives(a, "force park", s, action)
        PROVE  AdminInv'
    BY <2>3, ArrivesKeeps
  <2>4. ASSUME NEW a \in AdminRequests,
               \/ FindForceParkNode(a) \/ ForcePark(a) \/ CloseTask(a)
               \/ FindParkedNode(a) \/ Resolve(a) \/ OverrideFails(a)
        PROVE  AdminInv'
    BY <2>4, FindForceParkKeeps, ForceParkKeeps, CloseTaskKeeps, FindParkedKeeps, ResolveKeeps, OverrideFailsKeeps
  <2> QED
    BY <1>2, <2>1, <2>2, <2>3, <2>4 DEF AdminNext
<1> QED
  BY <1>1, <1>2

LEMMA AdminInvariant == AdminSpec => []AdminInv
  BY AdminInitInv, AdminStep, PTL DEF AdminSpec

\* The type invariant of the node and of the requests on it, however many they are.
THEOREM AdminTypeCorrect == AdminSpec => []AdminType
<1>1. AdminInv => AdminType
  BY DEF AdminInv
<1> QED
  BY <1>1, AdminInvariant, PTL

\* ForceParkTaskNode: once an admin is answered that a step is force parked, its task is closed and it
\* takes no completion, whatever other admins, the task and the engine do before or after.
THEOREM ForceParkIsFinal == AdminSpec => []ForceParkedIsClosed
<1>1. AdminInv => ForceParkedIsClosed
  BY DEF AdminInv
<1> QED
  BY <1>1, AdminInvariant, PTL

\* A task left open behind its node is always one that a request is closing or has told that it failed to.
THEOREM NoTaskIsForgotten == AdminSpec => []OpenTasksAreAwaited
<1>1. AdminInv => OpenTasksAreAwaited
  BY DEF AdminInv
<1> QED
  BY <1>1, AdminInvariant, PTL

----------------------------------------------------------------------------
(***************************************************************************)
(* The two sides of a review never mistake one step's answer for another's,*)
(* for any number of steps, answers lost and calls that arrive late; and   *)
(* while nothing is lost, one side works and the other waits for it.       *)
(***************************************************************************)

SideStates == {"idle", "work", "calling", "parked", "stale", "refused", "closed"}
Messages == [from : Sides, token : RoundTokens, replyTo : RoundTokens]

\* What a side sends says which token the step was begun for, when it arrives late too.
AskedFor ==
  /\ \A s \in Sides : side[s] = "calling" => round[s] \in 1 .. MaxRounds /\ about[s][round[s]] = peer[s]
  /\ \A m \in late : m.token \in 1 .. MaxRounds /\ m.token <= round[m.from] /\ about[m.from][m.token] = m.replyTo

\* While nothing is lost: what the two sides are doing, together.
OnlyNSW == side["agency"] = "idle" /\ side["NSW"] \in {"work", "calling"} /\ peer["NSW"] = NoToken
WaitsForOther(s) ==
  /\ side[s] = "parked" /\ round[s] # NoToken
  /\ side[Other(s)] \in {"work", "calling"} /\ peer[Other(s)] = round[s]
Ended == \/ \A s \in Sides : side[s] = "closed"
         \/ ~Allowed /\ side["agency"] = "idle" /\ side["NSW"] = "refused"
InTurn ==
  losses = 0 =>
    /\ late = {}
    /\ \A s \in Sides : side[s] = "calling" => round[s] # NoToken
    /\ OnlyNSW \/ (\E s \in Sides : WaitsForOther(s)) \/ Ended

ReviewsInv == ReviewsType /\ AskedFor /\ InTurn

LEMMA TwoSides ==
  /\ Sides = {"NSW", "agency"}
  /\ Other("NSW") = "agency" /\ Other("agency") = "NSW"
  /\ \A s \in Sides : Other(s) \in Sides /\ Other(s) # s /\ Other(Other(s)) = s
<1>1. Other("NSW") = "agency" /\ Other("agency") = "NSW"
  BY DEF Other, Sides
<1> QED
  BY <1>1 DEF Sides

LEMMA TokensAreNumbers == /\ RoundTokens \subseteq Nat /\ NoToken \in RoundTokens /\ NoToken = 0
                /\ 1 .. MaxRounds \subseteq RoundTokens
                /\ \A n \in RoundTokens : n < MaxRounds => n + 1 \in 1 .. MaxRounds /\ n + 1 \in RoundTokens
  BY ReviewBoundsAssumption DEF RoundTokens, NoToken

LEMMA ReviewsInitInv == ReviewsInit => ReviewsInv
<1> SUFFICES ASSUME ReviewsInit PROVE ReviewsInv
  OBVIOUS
<1>1. ReviewsType
  BY TokensAreNumbers, ReviewBoundsAssumption DEF ReviewsInit, ReviewsType
<1>2. AskedFor
  BY DEF ReviewsInit, AskedFor
<1>3. InTurn
  BY DEF ReviewsInit, InTurn, OnlyNSW, Sides
<1> QED
  BY <1>1, <1>2, <1>3 DEF ReviewsInv

----------------------------------------------------------------------------
(* A call's work.                                                          *)

\* What an accepted call was sent for: the token of the step that it finds parked.
LEMMA WorkDoes ==
  ASSUME ReviewsType, NEW m \in Messages, NEW sides \in [Sides -> SideStates],
         sides[Other(m.from)] = side[Other(m.from)], Work(m, sides)
  PROVE  LET o == Other(m.from) IN
         /\ side' \in [Sides -> SideStates] /\ peer' \in [Sides -> RoundTokens]
         /\ owners' \subseteq [ou : {AgencyOU}, role : {OwnerRole}]
         /\ side'[m.from] = sides[m.from] /\ peer'[m.from] = peer[m.from]
         /\ \/ side'[o] = "work" /\ peer'[o] = m.token /\ Accepted(m) /\ Changes(m)
            \/ side'[o] = side[o] /\ peer'[o] = peer[o] /\ ~(Accepted(m) /\ Changes(m))
<1> DEFINE o == Other(m.from)
<1>1. m.from \in Sides /\ o \in Sides /\ o # m.from /\ m.token \in RoundTokens
  BY TwoSides DEF Messages
<1>2. peer \in [Sides -> RoundTokens] /\ owners \subseteq [ou : {AgencyOU}, role : {OwnerRole}]
  BY DEF ReviewsType
<1>3. CASE Accepted(m) /\ Changes(m)
  <2>1. /\ side' = [sides EXCEPT ![o] = "work"]
        /\ peer' = [peer EXCEPT ![o] = m.token]
        /\ owners' \in {owners, owners \cup {[ou |-> AgencyOU, role |-> OwnerRole]}}
    BY <1>3 DEF Work
  <2>2. owners' \subseteq [ou : {AgencyOU}, role : {OwnerRole}]
    BY <1>2, <2>1
  <2>3. side' \in [Sides -> SideStates] /\ side'[m.from] = sides[m.from] /\ side'[o] = "work"
    BY <1>1, <2>1 DEF SideStates
  <2>4. peer' \in [Sides -> RoundTokens] /\ peer'[m.from] = peer[m.from] /\ peer'[o] = m.token
    BY <1>1, <1>2, <2>1
  <2> QED
    BY <1>3, <2>2, <2>3, <2>4
<1>4. CASE ~(Accepted(m) /\ Changes(m))
  BY <1>2, <1>4 DEF Work
<1> QED
  BY <1>3, <1>4

\* A parked step takes no dispatch, and goes on only for a message that answers it.
LEMMA AcceptedAnswers ==
  ASSUME NEW m \in Messages, Accepted(m), Changes(m), side[Other(m.from)] # "idle"
  PROVE  side[Other(m.from)] = "parked" /\ round[Other(m.from)] = m.replyTo
<1>1. IsDispatch(m) => Other(m.from) = "agency"
  BY TwoSides DEF IsDispatch
<1> QED
  BY <1>1 DEF Accepted, Changes

LEMMA WorkKeepsAskedFor ==
  ASSUME ReviewsType, AskedFor, NEW m \in Messages, NEW sides \in [Sides -> SideStates],
         sides[Other(m.from)] = side[Other(m.from)],
         sides[m.from] = "calling" => side[m.from] = "calling",
         Work(m, sides), UNCHANGED <<round, about>>, late' \subseteq late
  PROVE  AskedFor'
<1>1. ASSUME NEW s \in Sides, side'[s] = "calling" PROVE side[s] = "calling" /\ peer'[s] = peer[s]
  <2>1. s = m.from \/ s = Other(m.from)
    BY TwoSides DEF Messages
  <2>2. CASE s = m.from
    BY <1>1, <2>2, WorkDoes
  <2>3. CASE s = Other(m.from)
    BY <1>1, <2>3, WorkDoes
  <2> QED
    BY <2>1, <2>2, <2>3
<1>2. \A s \in Sides : side'[s] = "calling" => round'[s] \in 1 .. MaxRounds /\ about'[s][round'[s]] = peer'[s]
  BY <1>1 DEF AskedFor
<1> QED
  BY <1>2 DEF AskedFor

\* A side's own message.
LEMMA MessageIs ==
  ASSUME ReviewsType, NEW s \in Sides
  PROVE  /\ Message(s) \in Messages
         /\ Message(s).from = s /\ Message(s).token = round[s] /\ Message(s).replyTo = peer[s]
  BY DEF ReviewsType, Message, Messages

----------------------------------------------------------------------------
(* What the actions do.                                                    *)

LEMMA AskDoes ==
  ASSUME ReviewsType, NEW s \in Sides, Ask(s)
  PROVE  /\ ReviewsType'
         /\ side[s] = "work" /\ side'[s] = "calling" /\ round'[s] \in 1 .. MaxRounds /\ round[s] <= round'[s]
         /\ about'[s][round'[s]] = peer[s]
         /\ \A n \in 1 .. MaxRounds : n <= round[s] => about'[s][n] = about[s][n]
         /\ \A o \in Sides \ {s} : side'[o] = side[o] /\ round'[o] = round[o] /\ about'[o] = about[o]
         /\ UNCHANGED <<peer, owners, late, losses>>
<1>1. side \in [Sides -> SideStates] /\ round \in [Sides -> RoundTokens] /\ peer \in [Sides -> RoundTokens]
      /\ about \in [Sides -> [1 .. MaxRounds -> RoundTokens]]
  BY DEF ReviewsType, SideStates
<1>2. /\ side[s] = "work" /\ round[s] < MaxRounds /\ UNCHANGED <<peer, owners, late, losses>>
      /\ side' = [side EXCEPT ![s] = "calling"]
      /\ round' = [round EXCEPT ![s] = @ + 1]
      /\ about' = [about EXCEPT ![s][round[s] + 1] = peer[s]]
  BY DEF Ask
<1>3. PICK r \in 1 .. MaxRounds : r = round[s] + 1
  BY <1>1, <1>2, TokensAreNumbers
<1>4. r \in RoundTokens /\ round[s] \in Nat /\ r \in Nat /\ round[s] <= r
      /\ \A n \in 1 .. MaxRounds : n <= round[s] => n # r
  <2>1. round[s] \in Nat
    BY <1>1, TokensAreNumbers
  <2>2. r \in RoundTokens /\ r \in Nat
    BY TokensAreNumbers
  <2> QED
    BY <1>3, <2>1, <2>2
<1>5. /\ side' \in [Sides -> SideStates] /\ side'[s] = "calling"
      /\ \A o \in Sides \ {s} : side'[o] = side[o]
  BY <1>1, <1>2 DEF SideStates
<1>6. /\ round' \in [Sides -> RoundTokens] /\ round'[s] = r
      /\ \A o \in Sides \ {s} : round'[o] = round[o]
  <2>1. round' = [round EXCEPT ![s] = r]
    BY <1>2, <1>3
  <2> QED
    BY <1>1, <1>4, <2>1
<1>7. /\ about' \in [Sides -> [1 .. MaxRounds -> RoundTokens]]
      /\ about'[s][r] = peer[s]
      /\ \A n \in 1 .. MaxRounds \ {r} : about'[s][n] = about[s][n]
      /\ \A o \in Sides \ {s} : about'[o] = about[o]
  <2>1. about' = [about EXCEPT ![s][r] = peer[s]]
    BY <1>2, <1>3
  <2>2. peer[s] \in RoundTokens
    BY <1>1
  <2> QED
    BY <1>1, <2>1, <2>2
<1>8. ReviewsType'
  BY <1>2, <1>5, <1>6, <1>7 DEF ReviewsType, SideStates
<1>9. \A n \in 1 .. MaxRounds : n <= round[s] => about'[s][n] = about[s][n]
  BY <1>4, <1>7
<1> QED
  BY <1>2, <1>4, <1>5, <1>6, <1>7, <1>8, <1>9

\* A call and what its caller makes of the answer.
LEMMA PostDoes ==
  ASSUME ReviewsType, NEW s \in Sides, Post(s)
  PROVE  /\ side[s] = "calling" /\ UNCHANGED <<round, about, late, losses>>
         /\ \E sides \in [Sides -> SideStates] :
              /\ \A o \in Sides \ {s} : sides[o] = side[o]
              /\ Work(Message(s), sides)
              /\ sides[s] = CASE Accepted(Message(s)) -> "parked"
                              [] ~Accepted(Message(s)) /\ IsDispatch(Message(s)) -> "refused"
                              [] OTHER -> "stale"
<1> DEFINE next == CASE Accepted(Message(s)) -> "parked"
                     [] ~Accepted(Message(s)) /\ IsDispatch(Message(s)) -> "refused"
                     [] OTHER -> "stale"
<1>1. /\ side[s] = "calling" /\ UNCHANGED <<round, about, late, losses>>
      /\ Work(Message(s), [side EXCEPT ![s] = next])
  BY DEF Post
<1>2. next \in SideStates
  BY DEF SideStates
<1>3. side \in [Sides -> SideStates]
  BY DEF ReviewsType, SideStates
<1>4. /\ [side EXCEPT ![s] = next] \in [Sides -> SideStates]
      /\ \A o \in Sides \ {s} : [side EXCEPT ![s] = next][o] = side[o]
      /\ [side EXCEPT ![s] = next][s] = next
  <2> HIDE DEF next
  <2> QED
    BY <1>2, <1>3
<1> QED
  BY <1>1, <1>4

\* A step that does a call's work keeps the types.
LEMMA WorkKeepsTypes ==
  ASSUME ReviewsType, NEW m \in Messages, NEW sides \in [Sides -> SideStates],
         sides[Other(m.from)] = side[Other(m.from)], Work(m, sides),
         UNCHANGED <<round, about>>, late' \subseteq late, losses' \in 0 .. MaxLosses
  PROVE  ReviewsType'
<1>1. /\ side' \in [Sides -> SideStates] /\ peer' \in [Sides -> RoundTokens]
      /\ owners' \subseteq [ou : {AgencyOU}, role : {OwnerRole}]
  BY WorkDoes
<1> QED
  BY <1>1 DEF ReviewsType, SideStates

LEMMA AskKeeps ==
  ASSUME ReviewsInv, NEW s \in Sides, Ask(s)
  PROVE  ReviewsInv'
<1>1. ReviewsType /\ AskedFor /\ InTurn
  BY DEF ReviewsInv
<1>2. /\ ReviewsType'
      /\ side[s] = "work" /\ side'[s] = "calling" /\ round'[s] \in 1 .. MaxRounds /\ round[s] <= round'[s]
      /\ about'[s][round'[s]] = peer[s]
      /\ \A n \in 1 .. MaxRounds : n <= round[s] => about'[s][n] = about[s][n]
      /\ \A o \in Sides \ {s} : side'[o] = side[o] /\ round'[o] = round[o] /\ about'[o] = about[o]
      /\ UNCHANGED <<peer, owners, late, losses>>
  BY <1>1, AskDoes
<1>3. AskedFor'
  <2>1. ASSUME NEW o \in Sides, side'[o] = "calling"
        PROVE  round'[o] \in 1 .. MaxRounds /\ about'[o][round'[o]] = peer'[o]
    BY <1>1, <1>2, <2>1 DEF AskedFor
  <2>2. ASSUME NEW m \in late
        PROVE  m.token \in 1 .. MaxRounds /\ m.token <= round'[m.from] /\ about'[m.from][m.token] = m.replyTo
    <3>1. /\ m.from \in Sides /\ m.token \in 1 .. MaxRounds /\ m.token <= round[m.from]
          /\ about[m.from][m.token] = m.replyTo
      BY <1>1 DEF AskedFor, ReviewsType
    <3>2. CASE m.from # s
      BY <1>2, <3>1, <3>2
    <3>3. CASE m.from = s
      <4>1. m.token \in Nat /\ round[s] \in Nat /\ round'[s] \in Nat
        BY <1>1, <1>2, <3>1, TokensAreNumbers DEF ReviewsType
      <4> QED
        BY <1>2, <3>1, <3>3, <4>1
    <3> QED
      BY <3>2, <3>3
  <2> QED
    BY <1>2, <2>1, <2>2 DEF AskedFor
<1>4. InTurn'
  <2> SUFFICES ASSUME losses' = 0 PROVE InTurn'
    BY DEF InTurn
  <2>1. /\ late = {} /\ \A o \in Sides : side[o] = "calling" => round[o] # NoToken
        /\ OnlyNSW \/ (\E o \in Sides : WaitsForOther(o)) \/ Ended
    BY <1>1, <1>2 DEF InTurn
  <2>2. round'[s] # NoToken
    BY <1>2, TokensAreNumbers
  <2>3. \A o \in Sides : side'[o] = "calling" => round'[o] # NoToken
    BY <1>2, <2>1, <2>2
  <2>4. CASE OnlyNSW
    <3>1. s = "NSW"
      BY <1>2, <2>4, TwoSides DEF OnlyNSW
    <3>2. OnlyNSW'
      BY <1>2, <2>4, <3>1, TwoSides DEF OnlyNSW
    <3> QED
      BY <1>2, <2>1, <2>3, <3>2 DEF InTurn
  <2>5. ASSUME NEW o \in Sides, WaitsForOther(o) PROVE WaitsForOther(o)'
    <3>1. s = Other(o) /\ o # s
      BY <1>2, <2>5, TwoSides DEF WaitsForOther
    <3> QED
      BY <1>2, <2>5, <3>1 DEF WaitsForOther
  <2>6. ~Ended
    BY <1>2, TwoSides DEF Ended
  <2> QED
    BY <1>2, <2>1, <2>3, <2>4, <2>5, <2>6 DEF InTurn
<1> QED
  BY <1>2, <1>3, <1>4 DEF ReviewsInv

LEMMA PostKeeps ==
  ASSUME ReviewsInv, NEW s \in Sides, Post(s)
  PROVE  ReviewsInv'
<1>1. ReviewsType /\ AskedFor /\ InTurn
  BY DEF ReviewsInv
<1> DEFINE m == Message(s)
<1>2. m \in Messages /\ m.from = s /\ m.token = round[s] /\ m.replyTo = peer[s]
  BY <1>1, MessageIs
<1>3. PICK sides \in [Sides -> SideStates] :
        /\ \A o \in Sides \ {s} : sides[o] = side[o]
        /\ Work(m, sides)
        /\ sides[s] = CASE Accepted(m) -> "parked"
                        [] ~Accepted(m) /\ IsDispatch(m) -> "refused"
                        [] OTHER -> "stale"
  BY <1>1, PostDoes
<1>4. side[s] = "calling" /\ UNCHANGED <<round, about, late, losses>>
  BY <1>1, PostDoes
<1> HIDE DEF m
<1>5. Other(s) \in Sides /\ Other(s) # s /\ sides[Other(s)] = side[Other(s)] /\ Other(Other(s)) = s
  BY <1>3, TwoSides
<1>6. ReviewsType'
  BY <1>1, <1>2, <1>3, <1>4, <1>5, WorkKeepsTypes DEF ReviewsType
<1>7. sides[s] # "calling"
  BY <1>3
<1>8. AskedFor'
  BY <1>1, <1>2, <1>3, <1>4, <1>5, <1>7, WorkKeepsAskedFor
<1>9. /\ side'[s] = sides[s] /\ peer'[s] = peer[s]
      /\ \/ side'[Other(s)] = "work" /\ peer'[Other(s)] = round[s] /\ Accepted(m) /\ Changes(m)
         \/ side'[Other(s)] = side[Other(s)] /\ peer'[Other(s)] = peer[Other(s)] /\ ~(Accepted(m) /\ Changes(m))
  BY <1>1, <1>2, <1>3, <1>5, WorkDoes
<1>10. InTurn'
  <2> SUFFICES ASSUME losses = 0 PROVE InTurn'
    BY <1>4 DEF InTurn
  <2>1. /\ late = {} /\ \A o \in Sides : side[o] = "calling" => round[o] # NoToken
        /\ OnlyNSW \/ (\E o \in Sides : WaitsForOther(o)) \/ Ended
    BY <1>1 DEF InTurn
  <2>2. \A o \in Sides : o = s \/ o = Other(s)
    BY TwoSides
  <2>3. \A o \in Sides : side'[o] = "calling" => round'[o] # NoToken
    BY <1>4, <1>7, <1>9, <2>1, <2>2
  <2>4. ~Ended
    BY <1>4, TwoSides DEF Ended
  <2>5. CASE Accepted(m) /\ Changes(m)
    <3>1. WaitsForOther(s)'
      BY <1>3, <1>4, <1>5, <1>9, <2>1, <2>5 DEF WaitsForOther
    <3> QED
      BY <1>4, <2>1, <2>3, <3>1 DEF InTurn
  <2>6. CASE OnlyNSW /\ ~(Accepted(m) /\ Changes(m))
    <3>1. s = "NSW" /\ IsDispatch(m) /\ Changes(m)
      BY <1>2, <1>4, <2>6, TwoSides DEF OnlyNSW, IsDispatch, Changes
    <3>2. ~Accepted(m) /\ ~Allowed
      BY <2>6, <3>1 DEF Accepted
    <3>3. side'["NSW"] = "refused" /\ side'["agency"] = "idle"
      BY <1>3, <1>9, <2>6, <3>1, <3>2, TwoSides DEF OnlyNSW
    <3>4. Ended'
      BY <3>2, <3>3 DEF Ended, Allowed
    <3> QED
      BY <1>4, <2>1, <2>3, <3>4 DEF InTurn
  <2>7. ASSUME NEW o \in Sides, WaitsForOther(o) PROVE Accepted(m) /\ Changes(m)
    <3>1. s = Other(o) /\ o = Other(s)
      BY <1>4, <2>7, TwoSides DEF WaitsForOther
    <3>2. side[Other(s)] = "parked" /\ peer[s] = round[Other(s)] /\ round[Other(s)] # NoToken
      BY <2>7, <3>1 DEF WaitsForOther
    <3>3. ~IsDispatch(m)
      BY <1>2, <3>2 DEF IsDispatch
    <3> QED
      BY <1>2, <3>2, <3>3 DEF Accepted, Changes
  <2> QED
    BY <2>1, <2>4, <2>5, <2>6, <2>7
<1> QED
  BY <1>6, <1>8, <1>10 DEF ReviewsInv

\* An answer lost, a call given up on and a late one end the time in which nothing is lost.
LEMMA LossesGrow ==
  ASSUME ReviewsType, losses < MaxLosses, losses' = losses + 1
  PROVE  losses' \in 0 .. MaxLosses /\ losses' # 0
<1>1. losses \in 0 .. MaxLosses
  BY DEF ReviewsType
<1> QED
  BY <1>1, ReviewBoundsAssumption

LEMMA AnswerLostKeeps ==
  ASSUME ReviewsInv, NEW s \in Sides, AnswerLost(s)
  PROVE  ReviewsInv'
<1>1. ReviewsType /\ AskedFor /\ side \in [Sides -> SideStates]
  BY DEF ReviewsInv, ReviewsType, SideStates
<1>2. Work(Message(s), side) /\ UNCHANGED <<round, about, late>> /\ losses' \in 0 .. MaxLosses /\ losses' # 0
  BY <1>1, LossesGrow DEF AnswerLost
<1>3. Message(s) \in Messages
  BY <1>1, MessageIs
<1>4. ReviewsType' /\ AskedFor'
  BY <1>1, <1>2, <1>3, WorkKeepsTypes, WorkKeepsAskedFor
<1> QED
  BY <1>2, <1>4 DEF ReviewsInv, InTurn

LEMMA TimedOutKeeps ==
  ASSUME ReviewsInv, NEW s \in Sides, TimedOut(s)
  PROVE  ReviewsInv'
<1>1. ReviewsType /\ AskedFor
  BY DEF ReviewsInv
<1>2. /\ side[s] = "calling" /\ late' = late \cup {Message(s)}
      /\ UNCHANGED <<side, round, peer, about, owners>> /\ losses' \in 0 .. MaxLosses /\ losses' # 0
  BY <1>1, LossesGrow DEF TimedOut
<1>3. /\ Message(s) \in Messages
      /\ Message(s).from = s /\ Message(s).token = round[s] /\ Message(s).replyTo = peer[s]
  BY <1>1, MessageIs
<1>4. ReviewsType'
  BY <1>1, <1>2, <1>3 DEF ReviewsType, Messages
<1>5. /\ round[s] \in 1 .. MaxRounds /\ round[s] <= round[s] /\ about[s][round[s]] = peer[s]
  <2>1. round[s] \in 1 .. MaxRounds /\ about[s][round[s]] = peer[s]
    BY <1>1, <1>2 DEF AskedFor
  <2> QED
    BY <2>1
<1>6. AskedFor'
  BY <1>1, <1>2, <1>3, <1>5 DEF AskedFor
<1> QED
  BY <1>2, <1>4, <1>6 DEF ReviewsInv, InTurn

LEMMA ArrivesLateKeeps ==
  ASSUME ReviewsInv, NEW m \in late, ArrivesLate(m)
  PROVE  ReviewsInv'
<1>1. ReviewsType /\ AskedFor /\ side \in [Sides -> SideStates] /\ losses \in 0 .. MaxLosses
  BY DEF ReviewsInv, ReviewsType, SideStates
<1>2. Work(m, side) /\ UNCHANGED <<round, about, losses>> /\ late' \subseteq late
  BY DEF ArrivesLate
<1>3. m \in Messages
  BY <1>1 DEF ReviewsType, Messages
<1>4. ReviewsType' /\ AskedFor'
  BY <1>1, <1>2, <1>3, WorkKeepsTypes, WorkKeepsAskedFor
<1>5. losses # 0
  BY DEF ReviewsInv, InTurn
<1> QED
  BY <1>2, <1>4, <1>5 DEF ReviewsInv, InTurn

LEMMA DecideKeeps ==
  ASSUME ReviewsInv, Decide
  PROVE  ReviewsInv'
<1>1. ReviewsType /\ AskedFor /\ InTurn /\ side \in [Sides -> SideStates]
  BY DEF ReviewsInv, ReviewsType, SideStates
<1>2. side["agency"] = "work" /\ UNCHANGED <<round, peer, about, owners, late, losses>>
  BY DEF Decide
<1>3. \/ /\ side["NSW"] = "parked" /\ round["NSW"] = peer["agency"]
         /\ side' = [s \in Sides |-> "closed"]
      \/ /\ ~(side["NSW"] = "parked" /\ round["NSW"] = peer["agency"])
         /\ side' = [side EXCEPT !["agency"] = "refused"]
  BY DEF Decide
<1>4. /\ side' \in [Sides -> SideStates]
      /\ \A s \in Sides : side'[s] = "calling" => side[s] = "calling"
  BY <1>1, <1>3 DEF SideStates
<1>5. ReviewsType' /\ AskedFor'
  BY <1>1, <1>2, <1>4 DEF ReviewsType, AskedFor, SideStates
<1>6. InTurn'
  <2> SUFFICES ASSUME losses = 0 PROVE InTurn'
    BY <1>2 DEF InTurn
  <2>1. /\ late = {} /\ \A o \in Sides : side[o] = "calling" => round[o] # NoToken
        /\ OnlyNSW \/ (\E o \in Sides : WaitsForOther(o)) \/ Ended
    BY <1>1 DEF InTurn
  <2>2. WaitsForOther("NSW")
    BY <1>2, <2>1, TwoSides DEF OnlyNSW, Ended, WaitsForOther
  <2>3. side["NSW"] = "parked" /\ round["NSW"] = peer["agency"]
    BY <2>2, TwoSides DEF WaitsForOther
  <2>4. Ended'
    BY <1>3, <2>3 DEF Ended
  <2> QED
    BY <1>2, <1>4, <2>1, <2>4 DEF InTurn
<1> QED
  BY <1>5, <1>6 DEF ReviewsInv

LEMMA ReviewsStep == ReviewsInv /\ [ReviewsNext]_reviewVars => ReviewsInv'
<1> SUFFICES ASSUME ReviewsInv, [ReviewsNext]_reviewVars PROVE ReviewsInv'
  OBVIOUS
<1>1. CASE UNCHANGED reviewVars
  <2>1. UNCHANGED <<side, round, peer, about, owners, late, losses>>
    BY <1>1 DEF reviewVars
  <2>2. ReviewsType' /\ AskedFor'
    BY <2>1 DEF ReviewsInv, ReviewsType, AskedFor
  <2>3. InTurn'
    BY <2>1 DEF ReviewsInv, InTurn, OnlyNSW, WaitsForOther, Ended, Allowed
  <2> QED
    BY <2>2, <2>3 DEF ReviewsInv
<1>2. CASE ReviewsNext
  BY <1>2, AskKeeps, PostKeeps, AnswerLostKeeps, TimedOutKeeps, ArrivesLateKeeps, DecideKeeps DEF ReviewsNext
<1> QED
  BY <1>1, <1>2

LEMMA ReviewsInvariant == ReviewsSpec => []ReviewsInv
  BY ReviewsInitInv, ReviewsStep, PTL DEF ReviewsSpec

\* The type invariant of both sides' steps, for any number of steps, officers and losses.
THEOREM ReviewsTypeCorrect == ReviewsSpec => []ReviewsType
<1>1. ReviewsInv => ReviewsType
  BY DEF ReviewsInv
<1> QED
  BY <1>1, ReviewsInvariant, PTL

\* EXTERNAL_REVIEW: as long as no answer is lost, one side is at work and the other waits for it on
\* the token that it holds, however many rounds the review takes.
THEOREM OneSideAlwaysWaits == ReviewsSpec => []OneSideWaits
<1>1. ReviewsInv => OneSideWaits
  <2> SUFFICES ASSUME ReviewsInv, losses = 0
               PROVE  /\ \A s \in Sides : side[s] # "stale" /\ (Allowed => side[s] # "refused")
                      /\ \A s \in Sides : side[s] = "parked" =>
                           side[Other(s)] \in {"work", "calling"} /\ peer[Other(s)] = round[s]
    BY DEF OneSideWaits
  <2>1. OnlyNSW \/ (\E s \in Sides : WaitsForOther(s)) \/ Ended
    BY DEF ReviewsInv, InTurn
  <2>2. CASE OnlyNSW
    BY <2>2, TwoSides DEF OnlyNSW
  <2>3. ASSUME NEW s \in Sides, WaitsForOther(s)
        PROVE  /\ \A o \in Sides : side[o] \notin {"stale", "refused"}
               /\ \A o \in Sides : side[o] = "parked" => o = s
    BY <2>3, TwoSides DEF WaitsForOther
  <2>4. CASE Ended
    BY <2>4, TwoSides DEF Ended
  <2> QED
    BY <2>1, <2>2, <2>3, <2>4 DEF WaitsForOther
<1> QED
  BY <1>1, ReviewsInvariant, PTL

----------------------------------------------------------------------------
(* What is answered.                                                       *)

\* A call that moves a parked step on answers the token that the step is parked on.
LEMMA WorkAnswers ==
  ASSUME ReviewsType, NEW m \in Messages, NEW sides \in [Sides -> SideStates],
         \A o \in Sides \ {m.from} : sides[o] = side[o],
         m.token \in 1 .. MaxRounds, about[m.from][m.token] = m.replyTo,
         NEW s \in Sides, side[s] = "parked", side'[s] # "parked", Work(m, sides),
         side[m.from] = "parked" => sides[m.from] = "parked"
  PROVE  side'[s] = "work" /\ about[Other(s)][peer'[s]] = round[s]
<1>1. /\ m.from \in Sides /\ Other(m.from) # m.from /\ Other(m.from) \in Sides
      /\ s = m.from \/ s = Other(m.from)
      /\ Other(Other(m.from)) = m.from
  BY TwoSides DEF Messages
<1>2. /\ side'[m.from] = sides[m.from]
      /\ \/ /\ side'[Other(m.from)] = "work" /\ peer'[Other(m.from)] = m.token
            /\ Accepted(m) /\ Changes(m)
         \/ side'[Other(m.from)] = side[Other(m.from)]
  BY <1>1, WorkDoes
<1>3. s = Other(m.from) /\ side'[s] = "work" /\ peer'[s] = m.token /\ Accepted(m) /\ Changes(m)
  BY <1>1, <1>2
<1>4. round[s] = m.replyTo
  BY <1>3, AcceptedAnswers
<1> QED
  BY <1>1, <1>3, <1>4

LEMMA ReviewsAnswer ==
  ASSUME ReviewsInv, ReviewsNext, NEW s \in Sides, side[s] = "parked", side'[s] # "parked"
  PROVE  /\ side'[s] = "work" => about[Other(s)][peer'[s]] = round[s]
         /\ side'[s] = "closed" => peer[Other(s)] = round[s]
<1>1. ReviewsType /\ AskedFor /\ side \in [Sides -> SideStates]
  BY DEF ReviewsInv, ReviewsType, SideStates
<1>2. ASSUME NEW o \in Sides, side[o] = "calling"
      PROVE  /\ Message(o) \in Messages /\ Message(o).from = o /\ Message(o).token \in 1 .. MaxRounds
             /\ about[o][Message(o).token] = Message(o).replyTo
  BY <1>1, <1>2, MessageIs DEF AskedFor
<1>3. ASSUME NEW o \in Sides, Ask(o) \/ TimedOut(o) PROVE FALSE
  <2>1. CASE Ask(o)
    BY <1>1, <2>1, AskDoes
  <2>2. CASE TimedOut(o)
    BY <2>2 DEF TimedOut
  <2> QED
    BY <1>3, <2>1, <2>2
<1>4. ASSUME NEW o \in Sides, Post(o)
      PROVE  side'[s] = "work" /\ about[Other(s)][peer'[s]] = round[s]
  <2>1. side[o] = "calling"
    BY <1>1, <1>4, PostDoes
  <2>2. PICK sides \in [Sides -> SideStates] :
          (\A x \in Sides \ {o} : sides[x] = side[x]) /\ Work(Message(o), sides)
    BY <1>1, <1>4, PostDoes
  <2> QED
    BY <1>1, <1>2, <2>1, <2>2, WorkAnswers
<1>5. ASSUME NEW o \in Sides, AnswerLost(o)
      PROVE  side'[s] = "work" /\ about[Other(s)][peer'[s]] = round[s]
  <2>1. side[o] = "calling" /\ Work(Message(o), side)
    BY <1>5 DEF AnswerLost
  <2> QED
    BY <1>1, <1>2, <2>1, WorkAnswers
<1>6. ASSUME NEW m \in late, ArrivesLate(m)
      PROVE  side'[s] = "work" /\ about[Other(s)][peer'[s]] = round[s]
  <2>1. m \in Messages /\ m.token \in 1 .. MaxRounds /\ about[m.from][m.token] = m.replyTo
    BY <1>1 DEF ReviewsType, Messages, AskedFor
  <2>2. Work(m, side)
    BY <1>6 DEF ArrivesLate
  <2> QED
    BY <1>1, <2>1, <2>2, WorkAnswers
<1>7. ASSUME Decide PROVE side'[s] # "work" /\ peer[Other(s)] = round[s]
  <2>1. s = "NSW"
    BY <1>7, TwoSides DEF Decide
  <2>2. side' = [x \in Sides |-> "closed"] /\ round["NSW"] = peer["agency"]
    BY <1>1, <1>7, <2>1, TwoSides DEF Decide
  <2> QED
    BY <2>1, <2>2, TwoSides
<1> QED
  BY <1>3, <1>4, <1>5, <1>6, <1>7 DEF ReviewsNext

\* startFlowBody: whatever is lost, repeated or late, a parked step goes on only with the token of a
\* step that the other side began in order to answer it.
THEOREM AnswersAreToTheQuestion == ReviewsSpec => AnswersWhatWasAsked
<1>1. ASSUME ReviewsInv, [ReviewsNext]_reviewVars
      PROVE  [\A s \in Sides : side[s] = "parked" /\ side'[s] # "parked" =>
                LET o == Other(s)
                IN /\ side'[s] = "work" => about[o][peer'[s]] = round[s]
                   /\ side'[s] = "closed" => peer[o] = round[s]]_reviewVars
  BY <1>1, ReviewsAnswer
<1> QED
  BY <1>1, ReviewsInvariant, PTL DEF ReviewsSpec, AnswersWhatWasAsked

----------------------------------------------------------------------------
(***************************************************************************)
(* A payment step is completed by its own money only, for any number of    *)
(* payees, methods, runs of the step, checkouts, crashes and changes of the*)
(* payees' mapping.                                                        *)
(***************************************************************************)

Amounts == Fees \cup {NoInput}
FeeRecords == [step : Nat, pc : {"idle", "checkout", "save", "suspend", "waiting", "failed"},
               method : Methods \cup {NoMethod}, payee : Payees, amount : Amounts, shown : Nat]
SessionRecords == [method : Methods, payee : Payees, amount : Amounts, token : Nat,
                   expired : BOOLEAN, presented : SUBSET Identities, paid : SUBSET Identities,
                   settled : BOOLEAN]

PaymentsTyped ==
  /\ fee \in FeeRecords
  /\ sessions \in Seq(SessionRecords)
  /\ fee.pc \in {"checkout", "save", "suspend"} => fee.method \in Methods

\* No checkout is of a run that has not begun, and those of this run are of its payee and amount.
TokensOK ==
  \A i \in DOMAIN sessions :
    /\ sessions[i].token <= fee.step
    /\ sessions[i].token = fee.step => sessions[i].payee = fee.payee /\ sessions[i].amount = fee.amount

PaymentsInv == PaymentsTyped /\ TokensOK

LEMMA PaymentsInitInv == PaymentsInit => PaymentsInv
<1> SUFFICES ASSUME PaymentsInit PROVE PaymentsInv
  OBVIOUS
<1>1. PICK p \in Payees : p = CHOOSE q \in Payees : TRUE
  BY PayeesAssumption
<1>2. /\ fee = [step |-> 0, pc |-> "idle", method |-> NoMethod, payee |-> p, amount |-> NoInput, shown |-> NoReference]
      /\ sessions = <<>>
  BY <1>1 DEF PaymentsInit
<1>3. fee \in FeeRecords
  BY <1>2 DEF FeeRecords, Amounts, NoReference
<1> QED
  BY <1>2, <1>3 DEF PaymentsInv, PaymentsTyped, TokensOK

----------------------------------------------------------------------------
LEMMA SessionsAreRecords ==
  ASSUME PaymentsTyped PROVE \A i \in DOMAIN sessions : sessions[i] \in SessionRecords
  BY DEF PaymentsTyped

LEMMA BeginDoes ==
  ASSUME PaymentsTyped, NEW p \in Payees, NEW requested \in Methods \cup {NoMethod}, NEW input \in Inputs \cup {NoInput},
         Begin(p, requested, input)
  PROVE  /\ fee' \in FeeRecords /\ (fee'.pc \in {"checkout", "save", "suspend"} => fee'.method \in Methods)
         /\ fee'.step = fee.step + 1 /\ UNCHANGED <<sessions, mapping>> /\ fee.pc # "waiting"
<1>1. \A m \in Selected(requested, p) : m \in Methods
  BY DEF Selected, Available
<1>2. \A a \in Chargeable(input, p) : a \in Amounts
  BY DEF Chargeable, Amounts, Fees
<1>3. PICK st \in {"failed", "checkout"}, m \in Methods \cup {NoMethod}, a \in Amounts :
        /\ fee' = [fee EXCEPT !.step = @ + 1, !.pc = st, !.payee = p, !.method = m, !.amount = a]
        /\ st = "checkout" => m \in Methods
  <2>1. CASE Selected(requested, p) = {} \/ Chargeable(input, p) = {}
    <3>1. NoInput \in Amounts
      BY DEF Amounts
    <3> QED
      BY <2>1, <3>1 DEF Begin
  <2>2. CASE ~(Selected(requested, p) = {} \/ Chargeable(input, p) = {})
    <3>1. PICK m \in Methods : m = CHOOSE x \in Selected(requested, p) : TRUE
      BY <1>1, <2>2
    <3>2. PICK a \in Amounts : a = CHOOSE x \in Chargeable(input, p) : TRUE
      BY <1>2, <2>2
    <3> QED
      BY <2>2, <3>1, <3>2 DEF Begin
  <2> QED
    BY <2>1, <2>2
<1>4. UNCHANGED <<sessions, mapping>> /\ fee.pc # "waiting"
  BY DEF Begin
<1>5. PICK n \in Nat : n = fee.step + 1
  BY DEF PaymentsTyped, FeeRecords
<1>6. fee' = [step |-> n, pc |-> st, method |-> m, payee |-> p, amount |-> a, shown |-> fee.shown]
  BY <1>3, <1>5 DEF PaymentsTyped, FeeRecords
<1>7. fee.shown \in Nat
  BY DEF PaymentsTyped, FeeRecords
<1> QED
  BY <1>3, <1>4, <1>5, <1>6, <1>7 DEF FeeRecords

LEMMA BeginKeeps ==
  ASSUME PaymentsInv, NEW p \in Payees, NEW requested \in Methods \cup {NoMethod}, NEW input \in Inputs \cup {NoInput},
         Begin(p, requested, input)
  PROVE  PaymentsInv'
<1>1. /\ fee' \in FeeRecords /\ (fee'.pc \in {"checkout", "save", "suspend"} => fee'.method \in Methods)
      /\ fee'.step = fee.step + 1 /\ UNCHANGED <<sessions, mapping>>
  BY BeginDoes DEF PaymentsInv
<1>2. \A i \in DOMAIN sessions : sessions[i].token \in Nat
  BY SessionsAreRecords DEF PaymentsInv, SessionRecords
<1>3. fee.step \in Nat
  BY DEF PaymentsInv, PaymentsTyped, FeeRecords
<1>4. \A i \in DOMAIN sessions : sessions[i].token <= fee.step
  BY DEF PaymentsInv, TokensOK
<1>5. \A i \in DOMAIN sessions : sessions[i].token <= fee.step + 1 /\ sessions[i].token # fee.step + 1
  BY <1>2, <1>3, <1>4
<1>6. TokensOK'
  BY <1>1, <1>5 DEF TokensOK
<1> QED
  BY <1>1, <1>6 DEF PaymentsInv, PaymentsTyped

\* A step of the activity after its checkout, or of the bank's completion.
LEMMA FeeGoes ==
  ASSUME PaymentsInv, UNCHANGED sessions,
         NEW st \in {"idle", "checkout", "save", "suspend", "waiting", "failed"}, NEW shown \in Nat,
         st \in {"checkout", "save", "suspend"} => fee.method \in Methods,
         fee' = [fee EXCEPT !.pc = st, !.shown = shown]
  PROVE  PaymentsInv'
<1>1. /\ fee' \in FeeRecords /\ fee'.step = fee.step /\ fee'.payee = fee.payee /\ fee'.amount = fee.amount
      /\ fee'.method = fee.method /\ fee'.pc = st
  BY DEF PaymentsInv, PaymentsTyped, FeeRecords
<1>2. TokensOK'
  BY <1>1 DEF PaymentsInv, TokensOK
<1> QED
  BY <1>1, <1>2 DEF PaymentsInv, PaymentsTyped

LEMMA AppendedIsLast ==
  ASSUME NEW S, NEW q \in Seq(S), NEW e \in S
  PROVE  /\ Append(q, e) \in Seq(S)
         /\ \A i \in DOMAIN Append(q, e) : Append(q, e)[i] = e \/ (i \in DOMAIN q /\ Append(q, e)[i] = q[i])
<1>1. /\ Append(q, e) \in Seq(S) /\ Len(Append(q, e)) = Len(q) + 1 /\ Len(q) \in Nat
      /\ \A i \in 1 .. Len(q) : Append(q, e)[i] = q[i]
      /\ Append(q, e)[Len(q) + 1] = e
  OBVIOUS
<1>2. DOMAIN Append(q, e) = 1 .. Len(q) + 1 /\ DOMAIN q = 1 .. Len(q)
  BY <1>1
<1> QED
  BY <1>1, <1>2

LEMMA CreateCheckoutKeeps ==
  ASSUME PaymentsInv, CreateCheckout
  PROVE  PaymentsInv'
<1>1. /\ fee \in FeeRecords /\ sessions \in Seq(SessionRecords) /\ fee.pc = "checkout" /\ fee.method \in Methods
  BY DEF PaymentsInv, PaymentsTyped, CreateCheckout
<1>2. fee.payee \in Payees /\ fee.amount \in Amounts /\ fee.step \in Nat /\ fee.shown \in Nat
  BY <1>1 DEF FeeRecords
<1>3. CASE fee.method \in Available(fee.payee)
  <2>1. PICK r \in SessionRecords :
          /\ sessions' = Append(sessions, r)
          /\ r.token = fee.step /\ r.payee = fee.payee /\ r.amount = fee.amount
    <3>1. [method |-> fee.method, payee |-> fee.payee, amount |-> fee.amount, token |-> fee.step,
           expired |-> FALSE, presented |-> {}, paid |-> {}, settled |-> FALSE] \in SessionRecords
      BY <1>1, <1>2 DEF SessionRecords
    <3> QED
      BY <1>3, <3>1 DEF CreateCheckout
  <2>2. fee' = [fee EXCEPT !.pc = "save"]
    BY <1>3 DEF CreateCheckout
  <2>3. /\ fee' \in FeeRecords /\ fee'.step = fee.step /\ fee'.payee = fee.payee /\ fee'.amount = fee.amount
        /\ fee'.method = fee.method
    BY <1>1, <2>2 DEF FeeRecords
  <2>4. /\ sessions' \in Seq(SessionRecords)
        /\ \A i \in DOMAIN sessions' : sessions'[i] = r \/ (i \in DOMAIN sessions /\ sessions'[i] = sessions[i])
    <3>1. /\ Append(sessions, r) \in Seq(SessionRecords)
          /\ \A i \in DOMAIN Append(sessions, r) :
               Append(sessions, r)[i] = r \/ (i \in DOMAIN sessions /\ Append(sessions, r)[i] = sessions[i])
      BY <1>1, AppendedIsLast
    <3> QED
      BY <2>1, <3>1
  <2>5. fee.step <= fee.step
    BY <1>2
  <2>6. TokensOK'
    BY <2>1, <2>3, <2>4, <2>5 DEF PaymentsInv, TokensOK
  <2> QED
    BY <1>1, <2>3, <2>4, <2>6 DEF PaymentsInv, PaymentsTyped
<1>4. CASE fee.method \notin Available(fee.payee)
  <2>1. fee' = [fee EXCEPT !.pc = "failed"] /\ UNCHANGED sessions
    BY <1>4 DEF CreateCheckout
  <2>2. fee' = [fee EXCEPT !.pc = "failed", !.shown = fee.shown]
    BY <1>1, <2>1 DEF FeeRecords
  <2> QED
    BY <1>2, <2>1, <2>2, FeeGoes
<1> QED
  BY <1>3, <1>4

LEMMA ActivityKeeps ==
  ASSUME PaymentsInv, ShowReference \/ Suspend \/ ActivityAgain
  PROVE  PaymentsInv'
<1>1. fee \in FeeRecords /\ fee.shown \in Nat /\ Len(sessions) \in Nat
      /\ (fee.pc \in {"save", "suspend"} => fee.method \in Methods)
  BY DEF PaymentsInv, PaymentsTyped, FeeRecords
<1>2. PICK st \in {"suspend", "waiting", "checkout"}, shown \in Nat :
        /\ fee' = [fee EXCEPT !.pc = st, !.shown = shown]
        /\ UNCHANGED sessions /\ fee.pc \in {"save", "suspend"}
  <2>1. CASE ShowReference
    BY <1>1, <2>1 DEF ShowReference
  <2>2. CASE Suspend
    <3>1. fee' = [fee EXCEPT !.pc = "waiting", !.shown = fee.shown]
      BY <1>1, <2>2 DEF Suspend, FeeRecords
    <3> QED
      BY <1>1, <2>2, <3>1 DEF Suspend
  <2>3. CASE ActivityAgain
    <3>1. fee' = [fee EXCEPT !.pc = "checkout", !.shown = fee.shown]
      BY <1>1, <2>3 DEF ActivityAgain, FeeRecords
    <3> QED
      BY <1>1, <2>3, <3>1 DEF ActivityAgain
  <2> QED
    BY <2>1, <2>2, <2>3
<1> QED
  BY <1>1, <1>2, FeeGoes

----------------------------------------------------------------------------
(* The bank: a checkout's terms are what they were when it was created.    *)

SameTerms(i) == /\ sessions'[i].token = sessions[i].token
                /\ sessions'[i].payee = sessions[i].payee /\ sessions'[i].amount = sessions[i].amount

LEMMA TermsStay ==
  ASSUME PaymentsTyped, NEW i \in DOMAIN sessions, NEW r \in SessionRecords,
         r.token = sessions[i].token, r.payee = sessions[i].payee, r.amount = sessions[i].amount,
         sessions' = [sessions EXCEPT ![i] = r]
  PROVE  sessions' \in Seq(SessionRecords) /\ DOMAIN sessions' = DOMAIN sessions
         /\ \A j \in DOMAIN sessions : SameTerms(j)
  BY DEF PaymentsTyped, SameTerms

LEMMA BankChanges ==
  ASSUME PaymentsTyped, NEW i \in DOMAIN sessions,
         (\E id \in Identities : Present(i, id) \/ Pay(i, id) \/ Notify(i, id)) \/ ReferenceExpires(i)
  PROVE  \E r \in SessionRecords :
           /\ r.token = sessions[i].token /\ r.payee = sessions[i].payee /\ r.amount = sessions[i].amount
           /\ sessions' = [sessions EXCEPT ![i] = r]
<1>1. sessions[i] \in SessionRecords /\ sessions \in Seq(SessionRecords)
  BY SessionsAreRecords DEF PaymentsTyped
<1> DEFINE Changed(r) == /\ r \in SessionRecords
                       /\ r.token = sessions[i].token /\ r.payee = sessions[i].payee /\ r.amount = sessions[i].amount
                       /\ sessions' = [sessions EXCEPT ![i] = r]
<1>2. ASSUME NEW id \in Identities, Present(i, id) PROVE \E r : Changed(r)
  <2>1. sessions' = [sessions EXCEPT ![i] = [sessions[i] EXCEPT !.presented = @ \cup {id}]]
    BY <1>1, <1>2 DEF Present
  <2>2. [sessions[i] EXCEPT !.presented = @ \cup {id}] \in SessionRecords
    BY <1>1 DEF SessionRecords
  <2>3. /\ [sessions[i] EXCEPT !.presented = @ \cup {id}].token = sessions[i].token
        /\ [sessions[i] EXCEPT !.presented = @ \cup {id}].payee = sessions[i].payee
        /\ [sessions[i] EXCEPT !.presented = @ \cup {id}].amount = sessions[i].amount
    BY <1>1 DEF SessionRecords
  <2> QED
    BY <2>1, <2>2, <2>3
<1>3. ASSUME NEW id \in Identities, Pay(i, id) PROVE \E r : Changed(r)
  <2>1. sessions' = [sessions EXCEPT ![i] = [sessions[i] EXCEPT !.presented = @ \ {id}, !.paid = @ \cup {id}]]
    BY <1>1, <1>3 DEF Pay
  <2>2. [sessions[i] EXCEPT !.presented = @ \ {id}, !.paid = @ \cup {id}] \in SessionRecords
    BY <1>1 DEF SessionRecords
  <2>3. /\ [sessions[i] EXCEPT !.presented = @ \ {id}, !.paid = @ \cup {id}].token = sessions[i].token
        /\ [sessions[i] EXCEPT !.presented = @ \ {id}, !.paid = @ \cup {id}].payee = sessions[i].payee
        /\ [sessions[i] EXCEPT !.presented = @ \ {id}, !.paid = @ \cup {id}].amount = sessions[i].amount
    BY <1>1 DEF SessionRecords
  <2> QED
    BY <2>1, <2>2, <2>3
<1>4. ASSUME NEW id \in Identities, Notify(i, id) PROVE \E r : Changed(r)
  <2>1. sessions' = [sessions EXCEPT ![i] = [sessions[i] EXCEPT !.settled = TRUE]]
    BY <1>1, <1>4 DEF Notify
  <2>2. [sessions[i] EXCEPT !.settled = TRUE] \in SessionRecords
    BY <1>1 DEF SessionRecords
  <2>3. /\ [sessions[i] EXCEPT !.settled = TRUE].token = sessions[i].token
        /\ [sessions[i] EXCEPT !.settled = TRUE].payee = sessions[i].payee
        /\ [sessions[i] EXCEPT !.settled = TRUE].amount = sessions[i].amount
    BY <1>1 DEF SessionRecords
  <2> QED
    BY <2>1, <2>2, <2>3
<1>5. ASSUME ReferenceExpires(i) PROVE \E r : Changed(r)
  <2>1. sessions' = [sessions EXCEPT ![i] = [sessions[i] EXCEPT !.expired = TRUE]]
    BY <1>1, <1>5 DEF ReferenceExpires
  <2>2. [sessions[i] EXCEPT !.expired = TRUE] \in SessionRecords
    BY <1>1 DEF SessionRecords
  <2>3. /\ [sessions[i] EXCEPT !.expired = TRUE].token = sessions[i].token
        /\ [sessions[i] EXCEPT !.expired = TRUE].payee = sessions[i].payee
        /\ [sessions[i] EXCEPT !.expired = TRUE].amount = sessions[i].amount
    BY <1>1 DEF SessionRecords
  <2> QED
    BY <2>1, <2>2, <2>3
<1> QED
  BY <1>2, <1>3, <1>4, <1>5

LEMMA BankKeeps ==
  ASSUME PaymentsInv, NEW i \in DOMAIN sessions,
         (\E id \in Identities : Present(i, id) \/ Pay(i, id) \/ Notify(i, id)) \/ ReferenceExpires(i)
  PROVE  PaymentsInv'
<1>1. fee \in FeeRecords /\ PaymentsTyped
  BY DEF PaymentsInv, PaymentsTyped
<1>2. sessions' \in Seq(SessionRecords) /\ DOMAIN sessions' = DOMAIN sessions /\ \A j \in DOMAIN sessions : SameTerms(j)
  BY <1>1, BankChanges, TermsStay
<1>3. UNCHANGED fee \/ fee' = [fee EXCEPT !.pc = "idle"]
  BY DEF Present, Pay, Notify, CompletePaid, ReferenceExpires
<1>4. /\ fee' \in FeeRecords /\ fee'.step = fee.step /\ fee'.payee = fee.payee /\ fee'.amount = fee.amount
      /\ fee'.method = fee.method /\ (fee'.pc = fee.pc \/ fee'.pc = "idle")
  BY <1>1, <1>3 DEF FeeRecords
<1>5. TokensOK'
  BY <1>2, <1>4 DEF PaymentsInv, TokensOK, SameTerms
<1> QED
  BY <1>2, <1>4, <1>5 DEF PaymentsInv, PaymentsTyped

LEMMA PaymentsStep == PaymentsInv /\ [PaymentsNext]_payVars => PaymentsInv'
<1> SUFFICES ASSUME PaymentsInv, [PaymentsNext]_payVars PROVE PaymentsInv'
  OBVIOUS
<1>1. CASE UNCHANGED <<fee, sessions>>
  BY <1>1 DEF PaymentsInv, PaymentsTyped, TokensOK
<1>2. ASSUME NEW m \in Methods, NEW p \in Payees, NEW id \in Identities \cup {NoIdentity}, Remap(m, p, id)
      PROVE  UNCHANGED <<fee, sessions>>
  BY <1>2 DEF Remap
<1>3. CASE UNCHANGED payVars
  BY <1>1, <1>3 DEF payVars
<1>4. CASE PaymentsNext
  BY <1>1, <1>2, <1>4, BeginKeeps, CreateCheckoutKeeps, ActivityKeeps, BankKeeps DEF PaymentsNext
<1> QED
  BY <1>3, <1>4

----------------------------------------------------------------------------
(* What completes the step.                                                *)

LEMMA OnlyNotified ==
  ASSUME PaymentsInv, PaymentsNext, fee.pc = "waiting", fee'.pc # "waiting"
  PROVE  \E i \in DOMAIN sessions :
           /\ sessions'[i].settled
           /\ Registered(i) \in sessions[i].paid
           /\ sessions[i].token = fee.step
           /\ sessions[i].payee = fee.payee /\ sessions[i].amount = fee.amount
<1>1. fee \in FeeRecords /\ PaymentsTyped
  BY DEF PaymentsInv, PaymentsTyped
<1>2. \E i \in DOMAIN sessions, id \in Identities : Notify(i, id)
  BY DEF PaymentsNext, Begin, CreateCheckout, ShowReference, Suspend, ActivityAgain, Present, Pay,
         ReferenceExpires, Remap
<1>3. PICK i \in DOMAIN sessions, id \in Identities : Notify(i, id)
  BY <1>2
<1>4. id \in sessions[i].paid /\ id = Registered(i)
  BY <1>3 DEF Notify, Matches
<1>5. sessions'[i].settled
  <2>1. sessions' = [sessions EXCEPT ![i].settled = TRUE]
    BY <1>3 DEF Notify
  <2>2. sessions[i] \in SessionRecords /\ sessions \in Seq(SessionRecords)
    BY <1>1, SessionsAreRecords DEF PaymentsTyped
  <2> QED
    BY <2>1, <2>2 DEF SessionRecords
<1>6. sessions[i].token = fee.step
  BY <1>3 DEF Notify, CompletePaid
<1> QED
  BY <1>4, <1>5, <1>6 DEF PaymentsInv, TokensOK

\* task_completer and govpay's webhook: however often the step runs, its activity is run again, the
\* mapping changes and notifications are repeated, a step is completed by the money of a checkout that
\* this run of it has opened, paid to the identity that its payee has now.
THEOREM OwnMoneyCompletes == PaymentsSpec => PaymentCompletesItsStep
<1>1. ASSUME PaymentsInv, [PaymentsNext]_payVars
      PROVE  [fee.pc = "waiting" /\ fee'.pc # "waiting" =>
                \E i \in DOMAIN sessions :
                  /\ sessions'[i].settled
                  /\ Registered(i) \in sessions[i].paid
                  /\ sessions[i].token = fee.step
                  /\ sessions[i].payee = fee.payee /\ sessions[i].amount = fee.amount]_payVars
  BY <1>1, OnlyNotified
<1>2. PaymentsInit => PaymentsInv
  BY PaymentsInitInv
<1> QED
  BY <1>1, <1>2, PaymentsStep, PTL DEF PaymentsSpec, PaymentCompletesItsStep

----------------------------------------------------------------------------
(* Types and bounds of a payment.                                          *)

FeePcs == {"idle", "checkout", "save", "suspend", "waiting", "failed"}
FeeStates == [step : 0 .. MaxPaySteps, pc : FeePcs, method : Methods \cup {NoMethod}, payee : Payees,
              amount : Fees \cup {NoInput}, shown : References \cup {NoReference}]

\* A step that is about to have a checkout, or has one, was begun with a method and an amount.
FeeStands(x) ==
  /\ x \in FeeStates
  /\ x.pc \in {"checkout", "save", "suspend"} => x.step > 0 /\ x.method \in Methods /\ x.amount \in Fees

PaymentsBounded == PaymentsType /\ FeeStands(fee)

LEMMA PaymentsTypeIs ==
  PaymentsType <=> /\ fee \in FeeStates /\ sessions \in Seq(Session) /\ Len(sessions) <= MaxSessions
                   /\ mapping \in [Methods -> [Payees -> Identities \cup {NoIdentity}]]
                   /\ crashes \in 0 .. MaxCrashes /\ remaps \in 0 .. MaxRemaps
  BY DEF PaymentsType, FeeStates, FeePcs

LEMMA BoundedIsTyped == PaymentsBounded => PaymentsTyped
<1> SUFFICES ASSUME PaymentsBounded PROVE PaymentsTyped
  OBVIOUS
<1>1. FeeStands(fee) /\ sessions \in Seq(Session)
  BY PaymentsTypeIs DEF PaymentsBounded
<1>2. fee \in FeeRecords
  BY <1>1, FeesAssumption DEF FeeStands, FeeStates, FeePcs, FeeRecords, Amounts, References, NoReference
<1>3. Session \subseteq SessionRecords
  BY FeesAssumption DEF Session, SessionRecords, Amounts
<1>4. sessions \in Seq(SessionRecords)
  BY <1>1, <1>3
<1> QED
  BY <1>1, <1>2, <1>4 DEF PaymentsTyped, FeeStands

\* The step's run stays and its position changes, to one that a checkout belongs to only from one that it did.
LEMMA FeeStandsOn ==
  ASSUME FeeStands(fee), NEW pc \in FeePcs, NEW shown \in References \cup {NoReference},
         pc \in {"checkout", "save", "suspend"} => fee.pc \in {"checkout", "save", "suspend"},
         fee' = [fee EXCEPT !.pc = pc, !.shown = shown]
  PROVE  FeeStands(fee')
<1>1. /\ fee' \in FeeStates /\ fee'.pc = pc /\ fee'.step = fee.step /\ fee'.method = fee.method
      /\ fee'.amount = fee.amount
  BY DEF FeeStands, FeeStates
<1> QED
  BY <1>1 DEF FeeStands

LEMMA BeginBounded ==
  ASSUME PaymentsBounded, NEW p \in Payees, NEW requested \in Methods \cup {NoMethod}, NEW input \in Inputs \cup {NoInput},
         Begin(p, requested, input)
  PROVE  FeeStands(fee')
<1>1. /\ \A m \in Selected(requested, p) : m \in Methods
      /\ \A a \in Chargeable(input, p) : a \in Fees
  BY DEF Selected, Available, Chargeable, Fees
<1>2. fee \in FeeStates /\ fee.step < MaxPaySteps
  BY PaymentsTypeIs DEF PaymentsBounded, Begin
<1>3. PICK pc \in FeePcs, m \in Methods \cup {NoMethod}, a \in Fees \cup {NoInput} :
        /\ fee' = [fee EXCEPT !.step = @ + 1, !.pc = pc, !.payee = p, !.method = m, !.amount = a]
        /\ pc \in {"checkout", "save", "suspend"} => m \in Methods /\ a \in Fees
  <2>1. CASE Selected(requested, p) = {} \/ Chargeable(input, p) = {}
    BY <2>1 DEF Begin, FeePcs
  <2>2. CASE ~(Selected(requested, p) = {} \/ Chargeable(input, p) = {})
    <3>1. /\ (CHOOSE m \in Selected(requested, p) : TRUE) \in Selected(requested, p)
          /\ (CHOOSE a \in Chargeable(input, p) : TRUE) \in Chargeable(input, p)
      BY <2>2
    <3> QED
      BY <1>1, <2>2, <3>1 DEF Begin, FeePcs
  <2> QED
    BY <2>1, <2>2
<1>4. fee.step + 1 \in 0 .. MaxPaySteps /\ fee.step + 1 > 0
  BY <1>2, FeesAssumption DEF FeeStates
<1>5. fee' \in FeeStates /\ fee'.pc = pc /\ fee'.step = fee.step + 1 /\ fee'.method = m /\ fee'.amount = a
  BY <1>2, <1>3, <1>4 DEF FeeStates
<1> QED
  BY <1>3, <1>4, <1>5 DEF FeeStands

LEMMA CheckoutBounded ==
  ASSUME PaymentsBounded, CreateCheckout
  PROVE  FeeStands(fee') /\ sessions' \in Seq(Session) /\ Len(sessions') <= MaxSessions
<1>1. /\ fee \in FeeStates /\ FeeStands(fee) /\ fee.pc = "checkout" /\ Len(sessions) < MaxSessions
      /\ sessions \in Seq(Session) /\ fee.shown \in References \cup {NoReference} /\ fee.payee \in Payees
      /\ fee.step \in 1 .. MaxPaySteps /\ fee.method \in Methods /\ fee.amount \in Fees
  BY PaymentsTypeIs, FeesAssumption DEF PaymentsBounded, CreateCheckout, FeeStands, FeeStates
<1>2. fee' = [fee EXCEPT !.pc = "save", !.shown = fee.shown] \/ fee' = [fee EXCEPT !.pc = "failed", !.shown = fee.shown]
  BY <1>1 DEF CreateCheckout, FeeStates
<1>3. FeeStands(fee')
  BY <1>1, <1>2, FeeStandsOn DEF FeePcs
<1>4. [method |-> fee.method, payee |-> fee.payee, amount |-> fee.amount, token |-> fee.step,
       expired |-> FALSE, presented |-> {}, paid |-> {}, settled |-> FALSE] \in Session
  BY <1>1 DEF Session
<1>5. \/ UNCHANGED sessions
      \/ \E r \in Session : sessions' = Append(sessions, r)
  BY <1>4 DEF CreateCheckout
<1>6. Len(sessions) + 1 <= MaxSessions /\ Len(sessions) <= MaxSessions
  BY <1>1, FeesAssumption
<1>7. sessions' \in Seq(Session) /\ Len(sessions') <= MaxSessions
  BY <1>1, <1>5, <1>6
<1> QED
  BY <1>3, <1>7

LEMMA ActivityBounded ==
  ASSUME PaymentsBounded, ShowReference \/ Suspend \/ ActivityAgain
  PROVE  FeeStands(fee')
<1>1. /\ fee \in FeeStates /\ FeeStands(fee) /\ fee.shown \in References \cup {NoReference}
      /\ Len(sessions) \in References \cup {NoReference}
  BY PaymentsTypeIs, FeesAssumption DEF PaymentsBounded, FeeStands, FeeStates, References, NoReference
<1>2. \E pc \in FeePcs, shown \in References \cup {NoReference} :
        fee' = [fee EXCEPT !.pc = pc, !.shown = shown] /\ fee.pc \in {"save", "suspend"}
  <2>1. CASE ShowReference
    BY <1>1, <2>1 DEF ShowReference, FeePcs
  <2>2. CASE Suspend
    <3>1. fee' = [fee EXCEPT !.pc = "waiting", !.shown = fee.shown]
      BY <1>1, <2>2 DEF Suspend, FeeStates
    <3> QED
      BY <1>1, <2>2, <3>1 DEF Suspend, FeePcs
  <2>3. CASE ActivityAgain
    <3>1. fee' = [fee EXCEPT !.pc = "checkout", !.shown = fee.shown]
      BY <1>1, <2>3 DEF ActivityAgain, FeeStates
    <3> QED
      BY <1>1, <2>3, <3>1 DEF ActivityAgain, FeePcs
  <2> QED
    BY <2>1, <2>2, <2>3
<1> QED
  BY <1>1, <1>2, FeeStandsOn

LEMMA BankBounded ==
  ASSUME PaymentsBounded, NEW i \in DOMAIN sessions,
         (\E id \in Identities : Present(i, id) \/ Pay(i, id) \/ Notify(i, id)) \/ ReferenceExpires(i)
  PROVE  /\ FeeStands(fee') /\ sessions' \in Seq(Session) /\ Len(sessions') <= MaxSessions
         /\ UNCHANGED <<mapping, crashes, remaps>>
<1>1. /\ PaymentsTyped /\ FeeStands(fee) /\ sessions \in Seq(Session) /\ Len(sessions) <= MaxSessions
      /\ fee.shown \in References \cup {NoReference} /\ fee \in FeeStates
  BY BoundedIsTyped, PaymentsTypeIs DEF PaymentsBounded, FeeStands, FeeStates
<1>2. sessions' \in Seq(SessionRecords) /\ DOMAIN sessions' = DOMAIN sessions /\ \A j \in DOMAIN sessions : SameTerms(j)
  BY <1>1, BankChanges, TermsStay
<1>3. ASSUME NEW j \in DOMAIN sessions' PROVE sessions'[j] \in Session
  <2>1. sessions[j] \in Session /\ sessions'[j] \in SessionRecords
    BY <1>1, <1>2
  <2>2. sessions'[j].token \in 1 .. MaxPaySteps /\ sessions'[j].amount \in Fees
    BY <1>2, <2>1 DEF SameTerms, Session
  <2> QED
    BY <2>1, <2>2 DEF Session, SessionRecords
<1>4. sessions' \in Seq(Session) /\ Len(sessions') = Len(sessions)
  <2>1. DOMAIN sessions = 1 .. Len(sessions) /\ DOMAIN sessions' = 1 .. Len(sessions')
        /\ Len(sessions) \in Nat /\ Len(sessions') \in Nat
    BY <1>1, <1>2
  <2>2. Len(sessions') = Len(sessions)
    BY <1>2, <2>1
  <2>3. sessions' \in [1 .. Len(sessions') -> Session]
    BY <1>2, <1>3, <2>1
  <2> QED
    BY <2>1, <2>2, <2>3
<1>5. UNCHANGED fee \/ fee' = [fee EXCEPT !.pc = "idle"]
  BY DEF Present, Pay, Notify, CompletePaid, ReferenceExpires
<1>6. FeeStands(fee')
  <2>1. CASE UNCHANGED fee
    BY <1>1, <2>1
  <2>2. CASE fee' = [fee EXCEPT !.pc = "idle"]
    <3>1. fee' = [fee EXCEPT !.pc = "idle", !.shown = fee.shown]
      BY <1>1, <2>2 DEF FeeStates
    <3> QED
      BY <1>1, <3>1, FeeStandsOn DEF FeePcs
  <2> QED
    BY <1>5, <2>1, <2>2
<1>7. UNCHANGED <<mapping, crashes, remaps>>
  BY DEF Present, Pay, Notify, ReferenceExpires
<1> QED
  BY <1>1, <1>4, <1>6, <1>7

LEMMA PaymentsBoundedStep == PaymentsBounded /\ [PaymentsNext]_payVars => PaymentsBounded'
<1> SUFFICES ASSUME PaymentsBounded, [PaymentsNext]_payVars PROVE PaymentsBounded'
  OBVIOUS
<1> USE PaymentsTypeIs
<1>1. ASSUME FeeStands(fee'), sessions' \in Seq(Session), Len(sessions') <= MaxSessions,
             mapping' \in [Methods -> [Payees -> Identities \cup {NoIdentity}]],
             crashes' \in 0 .. MaxCrashes, remaps' \in 0 .. MaxRemaps
      PROVE  PaymentsBounded'
  BY <1>1 DEF PaymentsBounded, PaymentsType, FeeStands, FeeStates, FeePcs
<1>2. /\ FeeStands(fee) /\ sessions \in Seq(Session) /\ Len(sessions) <= MaxSessions
      /\ mapping \in [Methods -> [Payees -> Identities \cup {NoIdentity}]]
      /\ crashes \in 0 .. MaxCrashes /\ remaps \in 0 .. MaxRemaps
  BY DEF PaymentsBounded
<1> HIDE PaymentsTypeIs
<1>3. ASSUME NEW p \in Payees, NEW m \in Methods \cup {NoMethod}, NEW a \in Inputs \cup {NoInput}, Begin(p, m, a)
      PROVE  PaymentsBounded'
  <2>1. FeeStands(fee')
    BY <1>3, BeginBounded
  <2>2. UNCHANGED <<sessions, mapping, crashes, remaps>>
    BY <1>3 DEF Begin
  <2> QED
    BY <1>1, <1>2, <2>1, <2>2
<1>4. CASE CreateCheckout
  <2>1. FeeStands(fee') /\ sessions' \in Seq(Session) /\ Len(sessions') <= MaxSessions
    BY <1>4, CheckoutBounded
  <2>2. UNCHANGED <<mapping, crashes, remaps>>
    BY <1>4 DEF CreateCheckout
  <2> QED
    BY <1>1, <1>2, <2>1, <2>2
<1>5. CASE ShowReference \/ Suspend \/ ActivityAgain
  <2>1. FeeStands(fee')
    BY <1>5, ActivityBounded
  <2>2. UNCHANGED <<sessions, mapping, remaps>> /\ crashes' \in 0 .. MaxCrashes
    BY <1>2, <1>5, FeesAssumption DEF ShowReference, Suspend, ActivityAgain
  <2> QED
    BY <1>1, <1>2, <2>1, <2>2
<1>6. ASSUME NEW i \in DOMAIN sessions,
             (\E id \in Identities : Present(i, id) \/ Pay(i, id) \/ Notify(i, id)) \/ ReferenceExpires(i)
      PROVE  PaymentsBounded'
  BY <1>1, <1>2, <1>6, BankBounded
<1>7. ASSUME NEW m \in Methods, NEW p \in Payees, NEW id \in Identities \cup {NoIdentity}, Remap(m, p, id)
      PROVE  PaymentsBounded'
  <2>1. /\ mapping' = [mapping EXCEPT ![m] = [mapping[m] EXCEPT ![p] = id]]
        /\ remaps' \in 0 .. MaxRemaps /\ UNCHANGED <<fee, sessions, crashes>>
    BY <1>2, <1>7, FeesAssumption DEF Remap
  <2>2. mapping' \in [Methods -> [Payees -> Identities \cup {NoIdentity}]]
    BY <1>2, <2>1
  <2> QED
    BY <1>1, <1>2, <2>1, <2>2
<1>8. CASE UNCHANGED payVars
  <2>1. UNCHANGED <<fee, sessions, mapping, crashes, remaps>>
    BY <1>8 DEF payVars
  <2> QED
    BY <1>1, <1>2, <2>1
<1> QED
  BY <1>3, <1>4, <1>5, <1>6, <1>7, <1>8 DEF PaymentsNext

LEMMA PaymentsBoundedAtFirst == PaymentsInit => PaymentsBounded
<1> SUFFICES ASSUME PaymentsInit PROVE PaymentsBounded
  OBVIOUS
<1>1. PICK p \in Payees : p = CHOOSE q \in Payees : TRUE
  BY PayeesAssumption
<1>2. fee = [step |-> 0, pc |-> "idle", method |-> NoMethod, payee |-> p, amount |-> NoInput, shown |-> NoReference]
  BY <1>1 DEF PaymentsInit
<1>3. FeeStands(fee)
  BY <1>2, FeesAssumption DEF FeeStands, FeeStates, FeePcs
<1>4. sessions \in Seq(Session) /\ Len(sessions) <= MaxSessions
  <2>1. << >> \in Seq(Session) /\ Len(<< >>) = 0
    OBVIOUS
  <2> QED
    BY <2>1, FeesAssumption DEF PaymentsInit
<1>5. /\ mapping \in [Methods -> [Payees -> Identities \cup {NoIdentity}]]
      /\ crashes \in 0 .. MaxCrashes /\ remaps \in 0 .. MaxRemaps
  BY FeesAssumption DEF PaymentsInit
<1> QED
  BY <1>3, <1>4, <1>5, PaymentsTypeIs DEF PaymentsBounded, FeeStands

\* A payment step, its checkouts and the payees' mapping have their types: no checkout is of a run that was
\* not begun, and each is of an amount that can be charged and stored as it is.
THEOREM PaymentsTypeCorrect == PaymentsSpec => []PaymentsType
<1>1. PaymentsBounded => PaymentsType
  BY DEF PaymentsBounded
<1> QED
  BY <1>1, PaymentsBoundedAtFirst, PaymentsBoundedStep, PTL DEF PaymentsSpec

----------------------------------------------------------------------------
(***************************************************************************)
(* The CMS is answered 200 only for an event that has done what it had to, *)
(* for any number of events, calls under way, steps of a wait and failures.*)
(***************************************************************************)

\* A call carries an event that has been sent, a wait that has moved on was moved by an event of
\* its own that completed it, and one that has ended by a final one.
SlpaInv ==
  /\ SlpaType
  /\ answered \subseteq DOMAIN sent
  /\ applied \subseteq (DOMAIN sent) \X Templates
  /\ \A w \in SlpaCalls : hook[w].pc # "idle" => hook[w].event \in DOMAIN sent
  /\ \A t \in Templates :
       /\ wait[t].state \in {"moving", "completed"} =>
            \E f \in DOMAIN sent : <<f, t>> \in applied /\ sent[f] = wait[t].decision
       /\ wait[t].state = "completed" => Final(wait[t].decision)
  /\ AnsweredWasApplied

WaitStates == [state : {"none", "parked", "moving", "completed"}, step : 0 .. MaxWaitSteps,
               decision : SlpaEventNames \cup {"none"}]
HookStates == [pc : {"idle", "parked", "states", "held", "complete"}, event : EventNumbers \cup {0},
               step : 0 .. MaxWaitSteps]

LEMMA NoHookIs == NoHook \in HookStates /\ NoHook.pc = "idle"
  BY SlpaBoundsAssumption DEF NoHook, HookStates

LEMMA WaitFields ==
  ASSUME NEW x \in WaitStates
  PROVE  /\ \A s \in {"none", "parked", "moving", "completed"} : [x EXCEPT !.state = s] \in WaitStates
         /\ \A n \in 0 .. MaxWaitSteps : [x EXCEPT !.step = n] \in WaitStates
         /\ \A d \in SlpaEventNames : [x EXCEPT !.decision = d] \in WaitStates
  BY DEF WaitStates

\* What a call has found does not count while it is not answered.
LEMMA SlpaHookStep ==
  ASSUME SlpaInv, NEW w \in SlpaCalls, NEW x \in HookStates, hook' = [hook EXCEPT ![w] = x],
         x.pc # "idle" => x.event \in DOMAIN sent,
         UNCHANGED <<sent, answered, held, wait, applied>>, slpaFailures' \in 0 .. MaxSlpaFailures
  PROVE  SlpaInv'
<1>1. hook' \in [SlpaCalls -> HookStates] /\ hook'[w] = x /\ \A v \in SlpaCalls \ {w} : hook'[v] = hook[v]
  BY DEF SlpaInv, SlpaType, HookStates
<1>2. SlpaType'
  BY <1>1 DEF SlpaInv, SlpaType, HookStates
<1>3. \A v \in SlpaCalls : hook'[v].pc # "idle" => hook'[v].event \in DOMAIN sent
  BY <1>1 DEF SlpaInv
<1>4. AnsweredWasApplied'
  BY DEF SlpaInv, AnsweredWasApplied
<1> QED
  BY <1>2, <1>3, <1>4 DEF SlpaInv

LEMMA HookGoesTo ==
  ASSUME SlpaInv, NEW w \in SlpaCalls, hook[w].pc # "idle", NEW pc \in {"states", "held", "complete"},
         NEW step \in 0 .. MaxWaitSteps, HookGoes(w, pc, step),
         UNCHANGED <<sent, answered, held, wait, applied, slpaFailures>>
  PROVE  SlpaInv'
<1> DEFINE y == [hook[w] EXCEPT !.pc = pc]
           x == [y EXCEPT !.step = step]
<1>1. hook[w] \in HookStates /\ hook[w].event \in DOMAIN sent
  BY DEF SlpaInv, SlpaType, HookStates
<1>2. y \in HookStates
  BY <1>1 DEF HookStates
<1>3. x \in HookStates
  <2> HIDE DEF y
  <2> QED
    BY <1>2 DEF HookStates
<1>4. x.event = hook[w].event
  BY <1>1 DEF HookStates
<1>5. hook' = [hook EXCEPT ![w] = x]
  BY DEF HookGoes, SlpaInv, SlpaType
<1>6. slpaFailures' \in 0 .. MaxSlpaFailures
  BY DEF SlpaInv, SlpaType
<1> HIDE DEF x
<1> QED
  BY <1>1, <1>3, <1>4, <1>5, <1>6, SlpaHookStep

\* A call that is not answered 200 leaves everything but itself as it was.
LEMMA HookRefuses ==
  ASSUME SlpaInv, NEW w \in SlpaCalls, HookAnswers(w, FALSE), UNCHANGED <<sent, held, wait, applied>>,
         slpaFailures' \in 0 .. MaxSlpaFailures
  PROVE  SlpaInv'
<1>1. hook' = [hook EXCEPT ![w] = NoHook] /\ UNCHANGED answered
  BY DEF HookAnswers
<1> QED
  BY <1>1, NoHookIs, SlpaHookStep

LEMMA SendKeeps ==
  ASSUME SlpaInv, NEW name \in SlpaEventNames, Send(name)
  PROVE  SlpaInv'
<1>1. /\ Len(sent) < MaxEvents /\ sent' = Append(sent, name)
      /\ UNCHANGED <<answered, held, wait, hook, applied, slpaFailures>>
  BY DEF Send
<1>2. /\ sent \in Seq(SlpaEventNames) /\ answered \subseteq DOMAIN sent /\ applied \subseteq (DOMAIN sent) \X Templates
  BY DEF SlpaInv, SlpaType
<1>3. /\ sent' \in Seq(SlpaEventNames) /\ Len(sent') <= MaxEvents
      /\ DOMAIN sent \subseteq DOMAIN sent' /\ \A f \in DOMAIN sent : sent'[f] = sent[f]
  BY <1>1, <1>2, SlpaBoundsAssumption
<1>4. SlpaType'
  BY <1>1, <1>3 DEF SlpaInv, SlpaType
<1>5. answered' \subseteq DOMAIN sent' /\ applied' \subseteq (DOMAIN sent') \X Templates
  BY <1>1, <1>2, <1>3
<1>6. \A w \in SlpaCalls : hook'[w].pc # "idle" => hook'[w].event \in DOMAIN sent'
  BY <1>1, <1>3 DEF SlpaInv
<1>7. ASSUME NEW t \in Templates
      PROVE  /\ wait'[t].state \in {"moving", "completed"} =>
                  \E f \in DOMAIN sent' : <<f, t>> \in applied' /\ sent'[f] = wait'[t].decision
             /\ wait'[t].state = "completed" => Final(wait'[t].decision)
  <2>1. wait'[t] = wait[t] /\ applied' = applied
    BY <1>1
  <2>2. CASE wait[t].state \in {"moving", "completed"}
    <3>1. PICK f \in DOMAIN sent : <<f, t>> \in applied /\ sent[f] = wait[t].decision
      BY <2>2 DEF SlpaInv
    <3>2. f \in DOMAIN sent' /\ sent'[f] = wait'[t].decision /\ <<f, t>> \in applied'
      BY <1>3, <2>1, <3>1
    <3> QED
      BY <2>1, <3>2 DEF SlpaInv
  <2> QED
    BY <2>1, <2>2
<1>8. AnsweredWasApplied'
  <2> SUFFICES ASSUME NEW e \in answered
               PROVE  \/ <<e, TemplateOf(sent'[e])>> \in applied
                      \/ \E f \in DOMAIN sent' : Final(sent'[f]) /\ <<f, TemplateOf(sent'[e])>> \in applied
    BY <1>1 DEF AnsweredWasApplied
  <2>1. sent'[e] = sent[e]
    BY <1>2, <1>3
  <2>2. \/ <<e, TemplateOf(sent[e])>> \in applied
        \/ \E f \in DOMAIN sent : Final(sent[f]) /\ <<f, TemplateOf(sent[e])>> \in applied
    BY DEF SlpaInv, AnsweredWasApplied
  <2> QED
    BY <1>3, <2>1, <2>2
<1> QED
  BY <1>4, <1>5, <1>6, <1>7, <1>8 DEF SlpaInv

\* The workflow comes to a wait, or goes on from it.
LEMMA WaitMoves ==
  ASSUME SlpaInv, NEW t \in Templates, Opens(t) \/ Continues(t)
  PROVE  SlpaInv'
<1> DEFINE x == wait'[t]
<1>1. wait[t] \in WaitStates /\ wait \in [Templates -> WaitStates]
  BY DEF SlpaInv, SlpaType, WaitStates
<1>2. /\ wait' \in [Templates -> WaitStates] /\ \A u \in Templates \ {t} : wait'[u] = wait[u]
      /\ wait'[t].state \in {"moving", "completed"} =>
           wait[t].state = "moving" /\ wait'[t].decision = wait[t].decision
      /\ wait'[t].state = "completed" => Final(wait'[t].decision)
  <2>1. CASE Opens(t)
    <3> DEFINE y == [wait[t] EXCEPT !.state = "parked"]
               z == [y EXCEPT !.step = 1]
    <3>1. wait' = [wait EXCEPT ![t] = z]
      BY <1>1, <2>1 DEF Opens
    <3>2. y \in WaitStates
      BY <1>1, WaitFields
    <3>3. z \in WaitStates
      <4>1. 1 \in 0 .. MaxWaitSteps
        BY SlpaBoundsAssumption
      <4> HIDE DEF y
      <4> QED
        BY <3>2, <4>1, WaitFields
    <3>4. z.state = "parked"
      BY <1>1 DEF WaitStates
    <3> HIDE DEF z
    <3> QED
      BY <1>1, <3>1, <3>3, <3>4
  <2>2. CASE Continues(t) /\ Final(wait[t].decision)
    <3> DEFINE z == [wait[t] EXCEPT !.state = "completed"]
    <3>1. wait' = [wait EXCEPT ![t] = z] /\ wait[t].state = "moving"
      BY <1>1, <2>2 DEF Continues
    <3>2. z \in WaitStates /\ z.decision = wait[t].decision
      BY <1>1, WaitFields DEF WaitStates
    <3> HIDE DEF z
    <3> QED
      BY <1>1, <2>2, <3>1, <3>2
  <2>3. CASE Continues(t) /\ ~Final(wait[t].decision)
    <3> DEFINE y == [wait[t] EXCEPT !.state = "parked"]
               z == [y EXCEPT !.step = wait[t].step + 1]
    <3>1. wait' = [wait EXCEPT ![t] = z] /\ wait[t].step < MaxWaitSteps
      BY <1>1, <2>3 DEF Continues
    <3>2. y \in WaitStates /\ wait[t].step + 1 \in 0 .. MaxWaitSteps
      <4>1. wait[t].step \in 0 .. MaxWaitSteps
        BY <1>1 DEF WaitStates
      <4>2. wait[t].step + 1 \in 0 .. MaxWaitSteps
        BY <3>1, <4>1, SlpaBoundsAssumption
      <4> QED
        BY <1>1, <4>2, WaitFields
    <3>3. z \in WaitStates
      BY <3>2, WaitFields
    <3>4. z.state = "parked"
      BY <1>1 DEF WaitStates
    <3> HIDE DEF z
    <3> QED
      BY <1>1, <3>1, <3>3, <3>4
  <2> QED
    BY <2>1, <2>2, <2>3
<1>3. UNCHANGED <<sent, answered, held, hook, applied, slpaFailures>>
  BY DEF Opens, Continues
<1>4. SlpaType'
  BY <1>2, <1>3 DEF SlpaInv, SlpaType, WaitStates
<1>5. \A u \in Templates :
        /\ wait'[u].state \in {"moving", "completed"} =>
             \E f \in DOMAIN sent : <<f, u>> \in applied /\ sent[f] = wait'[u].decision
        /\ wait'[u].state = "completed" => Final(wait'[u].decision)
  <2> SUFFICES ASSUME NEW u \in Templates
               PROVE  /\ wait'[u].state \in {"moving", "completed"} =>
                           \E f \in DOMAIN sent : <<f, u>> \in applied /\ sent[f] = wait'[u].decision
                      /\ wait'[u].state = "completed" => Final(wait'[u].decision)
    OBVIOUS
  <2>1. /\ wait'[u].state = "completed" => Final(wait'[u].decision)
        /\ wait'[u].state \in {"moving", "completed"} =>
             wait[u].state \in {"moving", "completed"} /\ wait'[u].decision = wait[u].decision
    <3>1. CASE u = t
      BY <1>2, <3>1
    <3>2. CASE u # t
      BY <1>2, <3>2 DEF SlpaInv
    <3> QED
      BY <3>1, <3>2
  <2>2. wait[u].state \in {"moving", "completed"} =>
          \E f \in DOMAIN sent : <<f, u>> \in applied /\ sent[f] = wait[u].decision
    BY DEF SlpaInv
  <2> QED
    BY <2>1, <2>2
<1>6. AnsweredWasApplied'
  BY <1>3 DEF SlpaInv, AnsweredWasApplied
<1> QED
  BY <1>3, <1>4, <1>5, <1>6 DEF SlpaInv

LEMMA LookKeeps ==
  ASSUME SlpaInv, NEW w \in SlpaCalls, LookParked(w) \/ LookStates(w) \/ LookHeld(w)
  PROVE  SlpaInv'
<1> DEFINE t == TemplateOf(EventOf(w))
<1>1. /\ hook[w].pc # "idle" /\ UNCHANGED <<sent, held, wait, applied, slpaFailures>>
      /\ hook[w].event \in DOMAIN sent /\ hook[w].event \in EventNumbers \cup {0}
  BY DEF LookParked, LookStates, LookHeld, SlpaInv, SlpaType
<1>2. t \in Templates /\ wait[t].step \in 0 .. MaxWaitSteps /\ 0 \in 0 .. MaxWaitSteps
  BY SlpaBoundsAssumption DEF TemplateOf, Templates, SlpaInv, SlpaType
<1>3. slpaFailures' \in 0 .. MaxSlpaFailures
  BY <1>1 DEF SlpaInv, SlpaType
<1>4. CASE LookParked(w)
  <2>1. UNCHANGED answered /\ (HookGoes(w, "complete", wait[t].step) \/ HookGoes(w, "states", 0))
    BY <1>4 DEF LookParked, WaitOf
  <2> QED
    BY <1>1, <1>2, <2>1, HookGoesTo
<1>5. CASE LookHeld(w)
  BY <1>1, <1>3, <1>5, HookRefuses DEF LookHeld
<1>6. CASE LookStates(w)
  <2>1. CASE wait[t].state = "none"
    <3>1. HookGoes(w, "held", 0) /\ UNCHANGED answered
      BY <1>6, <2>1 DEF LookStates, WaitOf
    <3> QED
      BY <1>1, <1>2, <3>1, HookGoesTo
  <2>2. CASE wait[t].state = "completed"
    <3>1. hook' = [hook EXCEPT ![w] = NoHook] /\ answered' = answered \cup {hook[w].event}
      BY <1>6, <2>2 DEF LookStates, WaitOf, HookAnswers
    <3>2. \E f \in DOMAIN sent : Final(sent[f]) /\ <<f, t>> \in applied
      BY <1>2, <2>2 DEF SlpaInv
    <3>3. AnsweredWasApplied'
      BY <1>1, <3>1, <3>2 DEF SlpaInv, AnsweredWasApplied, EventOf
    <3>4. /\ hook' \in [SlpaCalls -> HookStates] /\ hook'[w] = NoHook
          /\ \A v \in SlpaCalls \ {w} : hook'[v] = hook[v]
      BY <3>1, NoHookIs DEF SlpaInv, SlpaType, HookStates
    <3>5. answered' \subseteq DOMAIN sent /\ answered' \subseteq EventNumbers
      <4>1. DOMAIN sent \subseteq EventNumbers
        BY SlpaBoundsAssumption DEF SlpaInv, SlpaType, EventNumbers
      <4> QED
        BY <1>1, <3>1, <4>1 DEF SlpaInv
    <3>6. SlpaType'
      BY <1>1, <3>4, <3>5 DEF SlpaInv, SlpaType, HookStates
    <3> QED
      BY <1>1, <3>3, <3>4, <3>5, <3>6, NoHookIs DEF SlpaInv
  <2>3. CASE wait[t].state \notin {"none", "completed"}
    <3>1. HookAnswers(w, FALSE)
      BY <1>6, <2>3 DEF LookStates, WaitOf
    <3> QED
      BY <1>1, <1>3, <3>1, HookRefuses
  <2> QED
    BY <2>1, <2>2, <2>3
<1> QED
  BY <1>4, <1>5, <1>6

LEMMA CompleteKeeps ==
  ASSUME SlpaInv, NEW w \in SlpaCalls, Complete(w)
  PROVE  SlpaInv'
<1> DEFINE e == hook[w].event
           t == TemplateOf(sent[e])
<1>1. /\ hook[w].pc = "complete" /\ UNCHANGED <<sent, held, slpaFailures>> /\ e \in DOMAIN sent
      /\ sent \in Seq(SlpaEventNames) /\ sent[e] \in SlpaEventNames
  BY DEF Complete, SlpaInv, SlpaType
<1>2. t \in Templates /\ wait[t] \in WaitStates /\ wait \in [Templates -> WaitStates]
  BY DEF TemplateOf, Templates, SlpaInv, SlpaType, WaitStates
<1>3. slpaFailures' \in 0 .. MaxSlpaFailures
  BY <1>1 DEF SlpaInv, SlpaType
<1>4. CASE ~(wait[t].state = "parked" /\ wait[t].step = hook[w].step)
  <2>1. HookAnswers(w, FALSE) /\ UNCHANGED <<wait, applied>>
    BY <1>4 DEF Complete, EventOf
  <2> QED
    BY <1>1, <1>3, <2>1, HookRefuses
<1>5. CASE wait[t].state = "parked" /\ wait[t].step = hook[w].step
  <2> DEFINE y == [wait[t] EXCEPT !.state = "moving"]
             z == [y EXCEPT !.decision = sent[e]]
  <2>1. /\ wait' = [wait EXCEPT ![t] = z] /\ applied' = applied \cup {<<e, t>>}
        /\ hook' = [hook EXCEPT ![w] = NoHook] /\ answered' = answered \cup {e}
    BY <1>2, <1>5 DEF Complete, EventOf, HookAnswers
  <2>2. y \in WaitStates
    BY <1>2, WaitFields
  <2>3. z \in WaitStates
    BY <1>1, <2>2, WaitFields
  <2>4. z.state = "moving" /\ z.decision = sent[e]
    BY <1>2 DEF WaitStates
  <2> HIDE DEF z
  <2>5. /\ wait' \in [Templates -> WaitStates] /\ wait'[t] = z /\ \A u \in Templates \ {t} : wait'[u] = wait[u]
    BY <1>2, <2>1, <2>3
  <2>6. /\ hook' \in [SlpaCalls -> HookStates] /\ hook'[w] = NoHook
        /\ \A v \in SlpaCalls \ {w} : hook'[v] = hook[v]
    BY <2>1, NoHookIs DEF SlpaInv, SlpaType, HookStates
  <2>7. DOMAIN sent \subseteq EventNumbers
    BY SlpaBoundsAssumption DEF SlpaInv, SlpaType, EventNumbers
  <2>8. /\ answered' \subseteq DOMAIN sent /\ applied' \subseteq (DOMAIN sent) \X Templates
    BY <1>1, <1>2, <2>1 DEF SlpaInv
  <2>9. SlpaType'
    <3>1. answered' \subseteq EventNumbers /\ applied' \subseteq EventNumbers \X Templates
      BY <2>7, <2>8
    <3> QED
      BY <1>1, <2>5, <2>6, <3>1 DEF SlpaInv, SlpaType, WaitStates, HookStates
  <2>10. ASSUME NEW u \in Templates
         PROVE  /\ wait'[u].state \in {"moving", "completed"} =>
                     \E f \in DOMAIN sent : <<f, u>> \in applied' /\ sent[f] = wait'[u].decision
                /\ wait'[u].state = "completed" => Final(wait'[u].decision)
    <3>1. CASE u = t
      BY <1>1, <2>1, <2>4, <2>5, <3>1
    <3>2. CASE u # t
      BY <2>1, <2>5, <2>10, <3>2 DEF SlpaInv
    <3> QED
      BY <3>1, <3>2
  <2>11. AnsweredWasApplied'
    <3> SUFFICES ASSUME NEW d \in answered'
                 PROVE  \/ <<d, TemplateOf(sent[d])>> \in applied'
                        \/ \E f \in DOMAIN sent : Final(sent[f]) /\ <<f, TemplateOf(sent[d])>> \in applied'
      BY <1>1 DEF AnsweredWasApplied
    <3>1. CASE d = e
      BY <2>1, <3>1
    <3>2. CASE d # e
      <4>1. d \in answered
        BY <2>1, <3>2
      <4>2. \/ <<d, TemplateOf(sent[d])>> \in applied
            \/ \E f \in DOMAIN sent : Final(sent[f]) /\ <<f, TemplateOf(sent[d])>> \in applied
        BY <4>1 DEF SlpaInv, AnsweredWasApplied
      <4> QED
        BY <2>1, <4>2
    <3> QED
      BY <3>1, <3>2
  <2> QED
    BY <1>1, <2>6, <2>8, <2>9, <2>10, <2>11, NoHookIs DEF SlpaInv
<1> QED
  BY <1>4, <1>5

LEMMA SlpaStep == SlpaInv /\ [SlpaNext]_slpaVars => SlpaInv'
<1> SUFFICES ASSUME SlpaInv, [SlpaNext]_slpaVars
             PROVE  SlpaInv'
  OBVIOUS
<1>1. CASE OrderHeld \/ UNCHANGED slpaVars
  <2>1. /\ UNCHANGED <<sent, answered, wait, hook, applied, slpaFailures>> /\ held' \in BOOLEAN
    BY <1>1 DEF OrderHeld, slpaVars, SlpaInv, SlpaType
  <2>2. SlpaType' /\ AnsweredWasApplied'
    BY <2>1 DEF SlpaInv, SlpaType, AnsweredWasApplied
  <2> QED
    BY <2>1, <2>2 DEF SlpaInv
<1>2. ASSUME NEW w \in SlpaCalls, NEW e \in DOMAIN sent, Deliver(w, e)
      PROVE  SlpaInv'
  <2> DEFINE x == [pc |-> "parked", event |-> e, step |-> 0]
  <2>1. /\ hook' = [hook EXCEPT ![w] = x] /\ UNCHANGED <<sent, answered, held, wait, applied, slpaFailures>>
        /\ slpaFailures' \in 0 .. MaxSlpaFailures
    BY <1>2 DEF Deliver, SlpaInv, SlpaType
  <2>2. e \in EventNumbers
    BY SlpaBoundsAssumption DEF SlpaInv, SlpaType, EventNumbers
  <2>3. x \in HookStates /\ x.event = e
    BY <2>2, SlpaBoundsAssumption DEF HookStates
  <2> HIDE DEF x
  <2> QED
    BY <2>1, <2>3, SlpaHookStep
<1>3. ASSUME NEW w \in SlpaCalls, CallFails(w)
      PROVE  SlpaInv'
  <2>1. slpaFailures' \in 0 .. MaxSlpaFailures
    BY <1>3, SlpaBoundsAssumption DEF CallFails, SlpaInv, SlpaType
  <2> QED
    BY <1>3, <2>1, HookRefuses DEF CallFails
<1> QED
  BY <1>1, <1>2, <1>3, SendKeeps, WaitMoves, LookKeeps, CompleteKeeps DEF SlpaNext

LEMMA SlpaInitInv == SlpaInit => SlpaInv
<1> SUFFICES ASSUME SlpaInit
             PROVE  SlpaInv
  OBVIOUS
<1>1. SlpaType
  <2>1. wait \in [Templates -> WaitStates] /\ hook \in [SlpaCalls -> HookStates]
    BY NoHookIs, SlpaBoundsAssumption DEF SlpaInit, WaitStates
  <2>2. sent \in Seq(SlpaEventNames) /\ Len(sent) <= MaxEvents
    <3>1. sent = << >>
      BY DEF SlpaInit
    <3>2. << >> \in Seq(SlpaEventNames) /\ Len(<< >>) = 0
      OBVIOUS
    <3> QED
      BY <3>1, <3>2, SlpaBoundsAssumption
  <2>3. answered = {} /\ applied = {} /\ held = FALSE /\ slpaFailures = 0
    BY DEF SlpaInit
  <2>4. slpaFailures \in 0 .. MaxSlpaFailures
    BY <2>3, SlpaBoundsAssumption
  <2> QED
    BY <2>1, <2>2, <2>3, <2>4 DEF SlpaType, WaitStates, HookStates
<1>2. (\A w \in SlpaCalls : hook[w].pc = "idle") /\ \A t \in Templates : wait[t].state = "none"
  BY NoHookIs DEF SlpaInit
<1> QED
  BY <1>1, <1>2 DEF SlpaInit, SlpaInv, AnsweredWasApplied

\* Sent in any order and however often, delivered to any number of calls: an event that the CMS is
\* told to stop sending has completed a step of its own wait, or that wait had been ended for good.
THEOREM AnsweredMeansApplied == SlpaSpec => []AnsweredWasApplied
<1>1. SlpaInv => AnsweredWasApplied
  BY DEF SlpaInv
<1> QED
  BY <1>1, SlpaInitInv, SlpaStep, PTL DEF SlpaSpec

\* Events, waits and the calls that carry events have their types.
THEOREM SlpaTypeCorrect == SlpaSpec => []SlpaType
<1>1. SlpaInv => SlpaType
  BY DEF SlpaInv
<1> QED
  BY <1>1, SlpaInitInv, SlpaStep, PTL DEF SlpaSpec
===============================================================================
