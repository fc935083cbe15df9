------------------------------ MODULE TaskDesk ------------------------------
(***************************************************************************)
(* internal/tasks: the routes on which callers read a task, submit, save   *)
(* drafts of and claim its steps, with the read and write authorisation    *)
(* they go through (readauthz, taskauthz, authzgate, extensions/authz).    *)
(*                                                                         *)
(* Each call reads the task's record first and works on what it read: by   *)
(* its later steps the task may have moved on, its claim may have changed, *)
(* its case's parties may have been replaced and tokens expired. The task  *)
(* manager (external) applies a completion, draft, claim or release in one *)
(* step of its own.                                                        *)
(***************************************************************************)
EXTENDS CaseParties, FileAccess, Sequences

CONSTANTS
  Tasks,
  CaseOf,          \* each task's case
  Steps,           \* number of steps of a task
  Rules,           \* authz extension: the roles and clients allowed each command of each step
  NoDraft,
  DraftCommand,    \* the command a draft of a step is authorised as, or NoDraft
  ReadRoles,       \* the task template's read.roles, in order of precedence; <<>> for any role
  Claimable,       \* the task template's claimable
  OUOf,            \* each user's OU handle
  HeldRoles,       \* the roles in each user's token
  Calls,           \* calls under way at once
  MaxCalls,        \* bound on calls
  MaxReplacements  \* bound on parties replaced

VARIABLES
  task,          \* each task's record
  sender,        \* history: who sent the file stored at each step
  wasIn,         \* history: the files that have been stored in each task
  call,          \* what each call is doing and the record it has read
  calls,
  replacements,
  wasParty       \* history: the OU handles that have held each role on each case

deskVars == <<task, sender, wasIn, call, calls, replacements, wasParty, party, filesVars>>

ASSUME DeskAssumption ==
  /\ Steps \in Nat \ {0} /\ MaxCalls \in Nat /\ MaxReplacements \in Nat
  /\ Tasks # {} /\ CaseOf \in [Tasks -> Cases]
  /\ Users \cap Clients = {} /\ NoCaller \notin Callers /\ NoFile \notin Files

Done == Steps + 1
NoRef == NoFile
Commands == {"submit", "return"}
Records == [step : 1 .. Done, claim : Users \cup {NoCaller}, data : [1 .. Steps -> Files \cup Tokens \cup {NoFile}]]
NewTask == [step |-> 1, claim |-> NoCaller, data |-> [s \in 1 .. Steps |-> NoFile]]

Kinds == {"get", "complete", "draft", "claim", "release"}
Pcs == {"idle", "read", "admit", "show", "resolve", "apply", "take over", "claim", "release"}
NoCall == [pc |-> "idle", kind |-> "get", who |-> NoCaller, task |-> CHOOSE t \in Tasks : TRUE, step |-> 1,
           command |-> "submit", ref |-> NoRef, seen |-> NewTask, status |-> 0]
CallState == [pc : Pcs, kind : Kinds, who : Callers \cup {NoCaller}, task : Tasks, step : 1 .. Steps,
              command : Commands, ref : Tokens \cup Files \cup {NoRef}, seen : Records,
              status : {0, 200, 204, 400, 403, 404, 409, 410}]

DeskType ==
  /\ PartyType /\ FilesType
  /\ task \in [Tasks -> Records]
  /\ sender \in [Tasks -> [1 .. Steps -> Callers \cup {NoCaller}]]
  /\ wasIn \in [Tasks -> SUBSET Files]
  /\ call \in [Calls -> CallState]
  /\ calls \in 0 .. MaxCalls
  /\ replacements \in 0 .. MaxReplacements
  /\ wasParty \in [Cases -> [Roles -> SUBSET Handles]]

----------------------------------------------------------------------------
(* Authorisation.                                                          *)

\* ownedRolesFor: the roles that the caller's OU holds on the case; a client has no OU.
OwnedRoles(who, c) == IF who \in Users THEN RolesOf(c, OUOf[who]) ELSE {}

\* authorize: a user by token role and ownership, a client by its name.
MayActAs(who, c, names) ==
  IF who \in Users THEN Eligible(HeldRoles[who], OwnedRoles(who, c), names) # {} ELSE who \in names

\* MayAct: some command of the step lets the caller act.
CanAct(who, t, step) ==
  step # Done /\ MayActAs(who, CaseOf[t], UNION {Rules[step][cmd] : cmd \in Commands})

\* Mutant: the token's roles are enough, whoever owns the case.
ClaimsUnowned(who, t) == IF who \in Users THEN HeldRoles[who] ELSE {}
\* readauthz.Resolve: the roles whose claims are true. A template that lists roles admits the
\* first one that the caller is eligible for.
Claims(who, t) ==
  LET eligible == IF who \in Users THEN Eligible(HeldRoles[who], OwnedRoles(who, CaseOf[t]), Roles) ELSE {}
      listed == {i \in DOMAIN ReadRoles : ReadRoles[i] \in eligible}
  IN IF ReadRoles = <<>> THEN eligible
     ELSE {ReadRoles[i] : i \in {j \in listed : \A k \in listed : j <= k}}

----------------------------------------------------------------------------
(* Calls.                                                                  *)

Goto(r, pc) == call' = [call EXCEPT ![r].pc = pc]
Answer(r, status) == call' = [call EXCEPT ![r] =
  [NoCall EXCEPT !.kind = call[r].kind, !.who = call[r].who, !.task = call[r].task, !.status = status]]
Record(r) == task[call[r].task]
NoChange == UNCHANGED <<task, sender, wasIn, calls, replacements, wasParty, party, filesVars>>

\* decodeSubmission, decodeEnvelope and claimant: a draft names no command, clients cannot claim.
Arrive(r, kind, who, t, step, command, ref) ==
  /\ call[r].pc = "idle"
  /\ calls < MaxCalls
  /\ kind \notin {"complete", "draft"} => step = 1 /\ ref = NoRef
  /\ kind # "complete" => command = "submit"
  /\ calls' = calls + 1
  /\ call' = [call EXCEPT ![r] =
       [NoCall EXCEPT !.kind = kind, !.who = who, !.task = t, !.step = step, !.command = command, !.ref = ref,
                      !.pc = IF kind \in {"claim", "release"} /\ who \in Clients THEN "idle" ELSE "read",
                      !.status = IF kind \in {"claim", "release"} /\ who \in Clients THEN 403 ELSE 0]]
  /\ UNCHANGED <<task, sender, wasIn, replacements, wasParty, party, filesVars>>

\* Store.GetTask.
Read(r) ==
  /\ call[r].pc = "read"
  /\ call' = [call EXCEPT ![r].seen = Record(r),
                          ![r].pc = IF call[r].kind \in {"complete", "draft"} THEN "resolve" ELSE "admit"]
  /\ NoChange

\* Mutant: a completed task can be taken over, which unclaims it.
AdmitCompleted(r) ==
  LET seen == call[r].seen
  IN /\ call[r].pc = "admit"
     /\ CASE Claims(call[r].who, call[r].task) = {} -> Answer(r, 404)
          [] Claims(call[r].who, call[r].task) # {} /\ call[r].kind = "get" -> Goto(r, "show")
          [] Claims(call[r].who, call[r].task) # {} /\ call[r].kind = "release" -> Goto(r, "release")
          [] OTHER -> Goto(r, IF seen.claim \in {NoCaller, call[r].who} THEN "claim" ELSE "take over")
     /\ NoChange
\* resolveRead; a denial is answered as a task that does not exist. Then, for a claim or a
\* release, whether the task can be claimed, and what to do about the claim that was read.
Admit(r) ==
  LET seen == call[r].seen
  IN /\ call[r].pc = "admit"
     /\ CASE Claims(call[r].who, call[r].task) = {} -> Answer(r, 404)
          [] Claims(call[r].who, call[r].task) # {} /\ call[r].kind = "get" -> Goto(r, "show")
          [] Claims(call[r].who, call[r].task) # {} /\ call[r].kind # "get" /\ ~Claimable -> Answer(r, 404)
          [] OTHER ->
               CASE call[r].kind = "release" -> Goto(r, "release")
                 [] call[r].kind = "claim" /\ seen.step = Done -> Answer(r, 409)
                 [] call[r].kind = "claim" /\ seen.step # Done ->
                      Goto(r, IF seen.claim \in {NoCaller, call[r].who} THEN "claim" ELSE "take over")
     /\ NoChange

FilesIn(record) == {record.data[s] : s \in 1 .. Steps} \cap Files

\* The tokens that a reader gets in place of a record's files; it can submit them back only
\* when it may act on the record's step.
ForReader(who, record, canAct) ==
  {Issue(who, f, IF canAct THEN Scopes ELSE {"read"}) : f \in FilesIn(record)}

Show(r) ==
  LET who == call[r].who
      seen == call[r].seen
  IN /\ call[r].pc = "show"
     /\ tokens' = tokens \cup ForReader(who, seen, CanAct(who, call[r].task, seen.step))
     /\ Answer(r, 200)
     /\ UNCHANGED <<task, sender, wasIn, calls, replacements, wasParty, party, uploader, contents, opened>>

\* What becomes of the reference in a submission: it is replaced with the stored value, or not.
FromCaller(who, ref) ==
  IF ref = NoRef THEN [is |-> "ok", file |-> NoFile]
  ELSE LET found == Resolution(who, ref, "submit")
       IN [is |-> found, file |-> IF found = "ok" THEN ref.file ELSE NoFile]

ResolveFiles(r) ==
  LET resolved == FromCaller(call[r].who, call[r].ref)
      found == resolved.is
  IN /\ call[r].pc = "resolve"
     /\ CASE call[r].seen.step # call[r].step -> Answer(r, 409)
          [] call[r].seen.step = call[r].step /\ found = "ok" ->
               call' = [call EXCEPT ![r].pc = "apply", ![r].ref = resolved.file]
          [] OTHER -> Answer(r, CASE found = "invalid" -> 400 [] found \in {"not yours", "scope"} -> 403
                                  [] found = "expired" -> 410)
     /\ NoChange

\* CompleteTaskStep, CompleteTaskStepByToken and SaveDraft (external): only the active step,
\* by a caller whom its rule for the command names. A draft leaves the step as it is.
Apply(r) ==
  LET t == call[r].task
      s == call[r].step
      draft == call[r].kind = "draft"
      command == IF draft THEN DraftCommand[s] ELSE call[r].command
      allowed == IF command = NoDraft THEN {} ELSE Rules[s][command]
  IN /\ call[r].pc = "apply"
     /\ CASE Record(r).step # s -> Answer(r, 409) /\ UNCHANGED <<task, sender, wasIn>>
          [] Record(r).step = s /\ command = NoDraft -> Answer(r, 400) /\ UNCHANGED <<task, sender, wasIn>>
          [] Record(r).step = s /\ command # NoDraft /\ ~MayActAs(call[r].who, CaseOf[t], allowed) ->
               Answer(r, 403) /\ UNCHANGED <<task, sender, wasIn>>
          [] OTHER ->
               /\ task' = [task EXCEPT ![t].data[s] = call[r].ref, ![t].step = IF draft THEN s ELSE s + 1]
               /\ sender' = [sender EXCEPT ![t][s] = call[r].who]
               /\ wasIn' = [wasIn EXCEPT ![t] = @ \cup ({call[r].ref} \cap Files)]
               /\ Answer(r, 204)
     /\ UNCHANGED <<calls, replacements, wasParty, party, filesVars>>

\* The submission does not match the step's form (payloadschema).
RejectPayload(r) ==
  /\ call[r].pc = "apply"
  /\ Record(r).step = call[r].step
  /\ Answer(r, 400)
  /\ NoChange

\* ReleaseTask (external): an unclaimed task is released too.
ReleaseBy(t, holder) == task[t].claim \in {NoCaller, holder}

TakeOver(r) ==
  LET t == call[r].task
      previous == call[r].seen.claim
  IN /\ call[r].pc = "take over"
     /\ IF ReleaseBy(t, previous)
          THEN task' = [task EXCEPT ![t].claim = NoCaller] /\ Goto(r, "claim")
          ELSE Answer(r, 409) /\ UNCHANGED task
     /\ UNCHANGED <<sender, wasIn, calls, replacements, wasParty, party, filesVars>>

\* ClaimTask (external).
Claim(r) ==
  LET t == call[r].task
  IN /\ call[r].pc = "claim"
     /\ IF task[t].claim \in {NoCaller, call[r].who} /\ task[t].step # Done
          THEN task' = [task EXCEPT ![t].claim = call[r].who] /\ Answer(r, 204)
          ELSE Answer(r, 409) /\ UNCHANGED task
     /\ UNCHANGED <<sender, wasIn, calls, replacements, wasParty, party, filesVars>>

Release(r) ==
  LET t == call[r].task
  IN /\ call[r].pc = "release"
     /\ IF ReleaseBy(t, call[r].who)
          THEN task' = [task EXCEPT ![t].claim = NoCaller] /\ Answer(r, 204)
          ELSE Answer(r, 403) /\ UNCHANGED task
     /\ UNCHANGED <<sender, wasIn, calls, replacements, wasParty, party, filesVars>>

\* CHA_PERSIST assigns the CHA anew.
ReplaceParty(c, h) ==
  /\ replacements < MaxReplacements
  /\ h # party[c]["cha"]
  /\ Assign(c, "cha", h)
  /\ wasParty' = [wasParty EXCEPT ![c]["cha"] = @ \cup {h}]
  /\ replacements' = replacements + 1
  /\ UNCHANGED <<task, sender, wasIn, call, calls, filesVars>>

\* OGAFiles.tokenize: a review step, which follows a submitted one, hands the stored files to the
\* reviewing client, to read.
SendFiles(t, client) ==
  /\ task[t].step > 1
  /\ tokens' = tokens \cup {Issue(client, f, {"read"}) : f \in FilesIn(task[t])}
  /\ UNCHANGED <<task, sender, wasIn, call, calls, replacements, wasParty, party, uploader, contents, opened>>

----------------------------------------------------------------------------
DeskInit(parties) ==
  /\ FilesInit
  /\ party = parties
  /\ wasParty = [c \in Cases |-> [r \in Roles |-> {parties[c][r]} \ {NoHandle}]]
  /\ task = [t \in Tasks |-> NewTask]
  /\ sender = [t \in Tasks |-> [s \in 1 .. Steps |-> NoCaller]]
  /\ wasIn = [t \in Tasks |-> {}]
  /\ call = [r \in Calls |-> NoCall]
  /\ calls = 0
  /\ replacements = 0

CallNext(r) ==
  \/ \E kind \in Kinds, who \in Callers, t \in Tasks, step \in 1 .. Steps, command \in Commands,
        ref \in tokens \cup Files \cup {NoRef} :
       /\ ref \in Files => uploader[ref] # NoCaller
       /\ Arrive(r, kind, who, t, step, command, ref)
  \/ Read(r) \/ Admit(r) \/ Show(r) \/ ResolveFiles(r) \/ Apply(r) \/ RejectPayload(r)
  \/ TakeOver(r) \/ Claim(r) \/ Release(r)

DeskNext ==
  \/ \E r \in Calls : CallNext(r)
  \/ \E c \in Cases, h \in Handles : ReplaceParty(c, h)
  \/ \E t \in Tasks, k \in Clients : SendFiles(t, k)
  \/ FilesNext /\ UNCHANGED <<task, sender, wasIn, call, calls, replacements, wasParty, party>>

DeskSpec ==
  /\ \E parties \in [Cases -> [Roles -> Handles \cup {NoHandle}]] : DeskInit(parties)
  /\ [][DeskNext]_deskVars

----------------------------------------------------------------------------
(* Properties.                                                             *)

\* The roles that a user has held on a case, as far as its token's roles go.
EverIn(who, c) == {r \in Roles : who \in Users /\ r \in HeldRoles[who] /\ OUOf[who] \in wasParty[c][r]}

\* A file is opened only by the client that uploaded it or was handed it with a task it is stored
\* in, or by a user who was a party of that task's case: no reference sent on by its holder, no
\* replaced party and no token of another scope opens it.
FilesStayInTheirCase ==
  \A w \in opened :
    \/ w[1] \in Clients /\ uploader[w[2]] = w[1]
    \/ \E t \in Tasks : w[2] \in wasIn[t] /\ (w[1] \in Clients \/ EverIn(w[1], CaseOf[t]) # {})

\* What a step has stored is a file and never a reference to one, and the caller who sent it
\* either uploaded it or was shown it on a step that it could act on.
StoredFilesWereTheirs ==
  \A t \in Tasks, s \in 1 .. Steps :
    LET file == task[t].data[s]
    IN file # NoFile =>
         /\ file \in Files
         /\ \E k \in tokens : k.file = file /\ k.holder = sender[t][s] /\ "submit" \in k.scopes

\* A claim ends before the next one begins, and it ends when its holder releases it or when it
\* is taken over by a user who saw that holder on a task not yet completed: a completed task
\* keeps its claim as the record of who worked it.
ClaimsAreHandedOver ==
  [][\A t \in Tasks :
       task[t].claim # NoCaller /\ task'[t].claim # task[t].claim =>
         /\ task'[t].claim = NoCaller
         /\ \E r \in Calls :
              /\ call[r].task = t /\ call'[r] # call[r]
              /\ \/ call[r].pc = "release" /\ call[r].who = task[t].claim
                 \/ /\ call[r].pc = "take over"
                    /\ call[r].seen.claim = task[t].claim /\ call[r].seen.step # Done]_deskVars
============================================================================
