# Verification of nsw-srilanka

TLA+ models of the parts of the National Single Window backend that are hard to
test: where several callers, callbacks, database transactions and the workflow
engine meet. Each module is checked by TLC on small instances; the results that
matter most are proved with TLAPS for every value of the constants.

    tlc -config CaseFlows.cfg MCCaseFlows      # model-check one run
    tlapm CaseFlowsProofs.tla                  # check the proofs of one component

Every `*Proofs` module is checked in the same way: `CaseFlowsProofs`,
`EdgeExchangeProofs`, `CusdecProofs`, `DispatchNoteProofs`, `ConsignmentsProofs`,
`TaskProofs`, `PluginProofs` and `RecordsProofs`.

## The system

The backend is a Go server over PostgreSQL and a workflow engine (Temporal, and
a task manager on top of it, both external libraries). A trader's *case* has
*flows*; each flow is one workflow run whose steps are *tasks*. A task parks and
waits for a person, for an agency, for a payment or for a callback of an
external system.

| Component | State | Operations | Interacts with | Hard behaviour |
|---|---|---|---|---|
| Case flows (`internal/caseflow`) | `cases`, `case_flows`, `case_parties` | StartFlow, EnsureCase, completion | engine (start, completion activity), every component that opens a flow | overlapping transactions, retries, lost answers, deploys |
| CusDec (`asycuda/cusdec`) | one row per dispatch | result, three events, two notices | task manager, case flows, SLC Edge | callbacks repeated, reordered, early and concurrent |
| Dispatch notes (`asycuda/cdn`) | one row per dispatch | result, acknowledgment, cancellation, amendment | as CusDec | the same, and a redelivery releases a wait once more |
| Webhook and held callbacks (`asycuda/handler.go`, `retry.go`) | callbacks held in the process | answer, hold, retry, give up | CusDec, dispatch notes | a 202 ends SLC Edge's retries; restarts |
| api_call (`tasks/plugins/api_call.go`) and its customs interpreters | the step's output | verify, submit, record the dispatch | SLC Edge, ASYCUDA | a message is taken and its answer lost; suppression of repeats by `nswId` |
| External review (`tasks/plugins/external_review.go`, `caseflow/client_handler.go`) | tokens of parked steps on both sides | dispatch, reply, decide | agency's case flows, task manager | a reply whose answer is lost or that arrives late |
| Task desk (`internal/tasks`) | task records, claims, drafts | read, claim, take over, release, draft, complete | parties, storage, forms, task manager | a record read before an await and acted on after it |
| Files (`internal/storage`) | stored files, sealed tokens | upload, put, download | task desk, machine clients | a token outlives what it was issued for |
| Case parties (`internal/caseparty`, `taskauthz`) | `case_parties` | assign, look up roles | consignments, task desk | a party replaced while its call is under way |
| Submitted forms (`extensions/payloadschema`) | what the step holds | draft, submit | task desk | rows in any order; keywords that hide a read-only value |
| Workflow administration (`workflowadmin`) | none | force park, resolve | task manager, engine | a status read before the park; one of two calls failing |
| Payments (`plugins/payment.go`, `govpay`) | checkout, reference | open, present, notify, settle | GovPay+, payment service, task manager | late money of an earlier reference or an earlier configuration |
| Consignments (`internal/consignment`, `trade/plugin_cha_persist.go`) | consignments | create, read, list, start a flow, choose the CHA | profiles, case flows, parties | three writes one after the other; renamed companies |
| Profiles (`internal/profile`, `cmd/otc`) | companies, users | add, apply, edit; first sign-in | consignments | an edit saved over another; two first sign-ins |
| SLPA webhooks (`slpa/webhook`) | none | order and invoice events | task manager | waits that park again; an event that has nothing to act on yet |
| SLPA requests (`slpa/*`, `plugins/slpa_*.go`) | steps' outputs | declare, order, invoice, split, pair, remove, pass | CMS | an answer lost after the CMS has acted |
| ePhyto (`external-integration/ephyto`) | step's outputs | build, submit, poll, withdraw | IPPC Hub | a certificate sent twice, or not as applied for |
| Reference numbers and written values (`plugins/refid.go`, `plugins/valuewriter.go`) | none | check the places, draw or read, fill | registry | numbers used up by a failed run; a value read from a place that another write fills |
| HS code split, dispatch note split and results, document lookups | steps' outputs | split, collect, retrieve | child workflows, Customs | branches that fail, are cancelled or raised again |
| Generated and archived documents (`plugins/html_document.go`, `plugins/remote_file_archiver.go`) | the record's file | render or fetch, store | storage, other services | a copy stored and not recorded, then a link that has expired |
| Task extensions, renderers, catalog, replay engine, wiring, portals | - | reads and pure mappings | - | none that a model adds to |

What makes them correct, in short: a case is finished exactly when its flows
are; a workflow ID is one run of one recorded definition; a callback that was
acknowledged takes effect; a row's status never goes back; a wait is released by
the callback it was parked for, once; nothing acknowledged is lost except where
the code says so; what a step records of an outside party is so there; a file, a
claim and a case are only for those who are party to it; and what an admin or a
trader is told has happened.

## Modules

| Module | Models |
|---|---|
| `CaseLedger` | what `internal/caseflow` promises, with atomic steps: the abstract specification |
| `CaseFlows` | `StartFlow`, `Record`, `MarkStarted`, `MarkCompleted`, statement by statement, with the engine and the callers' retries |
| `CaseFlowsProofs` | theorems about `CaseFlows`, the refinement of `CaseLedger` among them |
| `EdgeExchange` | what declarations and dispatch notes share: the dispatching step, the waits, SLC Edge's deliveries, the answers and the held callbacks |
| `Cusdec` | customs declarations, on `EdgeExchange` |
| `DispatchNote` | cargo dispatch notes, on `EdgeExchange` |
| `EdgeExchangeProofs` | lemmas about `EdgeExchange` that the next two share |
| `CusdecProofs`, `DispatchNoteProofs` | theorems about `Cusdec` and `DispatchNote` |
| `CaseParties` | which OU holds which role on a case, extended by the next four |
| `Profiles` | companies under operators' commands, users created at their first sign-in |
| `Consignments` | creating and reading consignments and starting their flows, on `Profiles` |
| `FileAccess` | stored files and the sealed tokens that stand for them |
| `TaskDesk` | the calls on a task's steps: read, claim, draft, complete, on `CaseParties` and `FileAccess` |
| `Reviews` | a review between NSW and an agency, both sides |
| `NodeAdmin` | force park and resolve, of a flow's node and of a step within a task |
| `Payments` | a payment step, its checkouts and the bank |
| `SlpaEvents` | the ports authority's events and the waits they complete |
| `SlpaOrders` | the calls to the ports authority, from the cargo declaration to the gate passes |
| `SundryOrders` | the sundry orders that add to an invoiced order, on the calls of `SlpaOrders` |
| `FiledDocuments` | the documents that a step renders, or archives from a link |
| `EdgeCalls` | verification and submission through SLC Edge, with ASYCUDA's suppression of repeats |
| `EphytoHub` | ePhyto certificates and the IPPC Hub |
| `Forms` | the server's values in a form, across drafts and a submission |
| `ReadOnlySchemas` | which values of a schema are the server's, and which schemas are refused; on `Forms` |
| `RefIds` | the numbers that a REFID_GENERATOR step draws and places |
| `ValueWrites` | the values that a VALUE_WRITER step copies or joins into its inputs, on the places of `RefIds` |
| `Splits` | the HS code split, the dispatch note split, its collection and the retrieval from Customs |
| `OutsideRecords` | `EdgeCalls`, `SundryOrders`, `EphytoHub` and `FiledDocuments` side by side: what the steps have recorded of the parties outside |
| `ConsignmentsProofs` | theorems about `Consignments` |
| `TaskProofs` | theorems about the tasks that people and outside parties act on: `TaskDesk`, `NodeAdmin`, `Reviews`, `Payments`, `SlpaEvents` |
| `PluginProofs` | theorems about what a step makes of its inputs: `Splits`, `Forms`, `ReadOnlySchemas`, `RefIds`, `ValueWrites` |
| `RecordsProofs` | theorems about `OutsideRecords` and each of its four parts |
| `MCCaseFlows`, `MCCusdec`, `MCDispatchNote`, `MCPortal` | instances for TLC; `MCPortal` has one for each module of the second half of this table |

### CaseFlows

State: `cases` and `flows` are the tables, `holder` the owner's row of
`case_parties`; `pc`, `saw`, `def` are a caller's program counter, the row it
last read and the definition it loaded; `tx[p]` is what `p`'s open `Record`
transaction has written; `run[w]` is the engine's run of workflow ID `w`
together with the stage of its completion activity.

Each SQL statement is an action, so that transactions interleave. PostgreSQL's
row locks are derived, not stored: a flow insert's foreign key check holds its
case FOR KEY SHARE until it commits (`KeyShare`), `MarkCompleted` holds it FOR
UPDATE (`ForUpdate`); inserts of one key wait for each other. These locks are
what keeps a case from being finished while a flow is being added to it, the
claim of the comment at `repository.go:137-143`. A commit is one step, with or
without an answer that reaches the caller (`acked`); `Fail` is any failing call
or a dying process, and rolls back. `serving` is the set of artifact versions
that replicas serve during a deploy.

The payload, the attributes and the name of a case are data nothing depends on,
and are left out. The authorisation and decoding in `client_handler.go` come
before `StartFlow` and are left out. An unstable ID (`stable = FALSE`) is a
fresh uuid, which nobody retries.

### EdgeExchange, Cusdec, DispatchNote

State: `row` is the status of each dispatch's row; `at`, `parked`, `visits` the
workflow's position, the parked step's ID and the number of steps so far (a step
parked again has a new ID); `sends`, `acked` what SLC Edge has sent and had a
2xx for; `held` the callbacks of `callbackRetries`; `worker[h]` a goroutine
processing a callback and what it has read. `waiting` and `answered` are history
variables: for which dispatch a wait was parked, and whose result released it.

Every read and write of a service method is an action, since nothing locks the
row in between. The `n`-th accepted submission has edgeId `n`. Customs' side is
modelled from what the code expects: it decides each dispatch once, the result
precedes what refers to its reference, a declaration's events follow one
another, and SLC Edge repeats a callback until it is answered. The workflow
returns to the form when a document is rejected, in the same run: the submission
carries "the edgeId of this task's previous attempt"
(`cdn/submission_interpreter.go:118`). The workflow's own artifacts are not in
the repository's code and are external in the map.

### Consignments, Profiles, CaseParties

State: `consignment`, `createdBy`, `flows`, `party` are the rows of a case;
`company` and `user` the profiles, `token` the OU in a user's token, which may
differ from the one its record was created with. `request[r]` is an HTTP request:
where it is and what it has read. `editing` is the row that an `otc company edit`
session has read and will save as a whole.

A request signs its user in (`SignIn`, `CreateUser`, `RereadUser`: the three
steps of GetOrCreateUser), then creates a consignment (`FindTrader`,
`EnsureNewCase`, `CreateConsignment`, `StartExport`, `AnswerCreated`) or reads one
and starts a flow (`FindCompany`, `Fetch`, `TraderVars`, `StartUserFlow`).
`ReadCHA` and `AssignCHA` are the two halves of CHA_PERSIST. `RequestFails` may
take the place of any step. The list, the
consignment, its roles and its tasks each have a check (`Listed`, `Owned`,
`CallerRolesOn`, `RolesOf`), compared by `SameAccess`.

### TaskDesk, FileAccess

State: `task` is the task manager's record (step, claim, contents); `call[r]` what
a call has read of it. `tokens` are the tokens issued; `opened`, `wasIn`,
`sender`, `wasParty` are histories. A call arrives (`Arrive`), reads the record
(`Read`), is authorised on what it read (`Admit`), has the files of its payload
resolved (`ResolveFiles`) and only then has its effect (`Apply`, `TakeOver`,
`Claim`, `Release`): each an action, with completions, replaced parties, expiring
tokens and other calls in between. `SendFiles` is the hand-over to a machine
client (`plugins/oga_files.go`).

### Reviews

State: `side[s]`, `round[s]`, `peer[s]`: what each side's task is doing, the
number of its step, which is its callback token, and the token it would answer
on. `Ask` starts a step's call, `Post` is the call served (a dispatch, or a reply
that completes the other's step and hands over the own token), `AnswerLost` the
same with the answer lost, `TimedOut` a call that the caller gives up on, which
may still arrive (`ArrivesLate`). `Decide` is the agency's final answer. `about`
is a history: for which token each step was begun.

### NodeAdmin

State: `node` is the engine's NodeInfo, with its owner, a flow or a task's own
workflow; `taskOf` what each step of the node waits for; `override[a]` an admin's
request. `FindForceParkNode`, `ForcePark`, `CloseTask` are the three calls of a
force park, `FindParkedNode`, `Resolve` the two of a resolution; `TaskEnds`,
`Reports`, `Parks`, `Revisits` are the engine and the task at work in between.

### Payments

State: `fee` is the step (its run, its activity's position, the payee, the
amount, the reference shown), `sessions` the transactions, `mapping` the payees'
identities in the configuration of the moment. `CreateCheckout`, `ShowReference`,
`Suspend` are the activity, `ActivityAgain` runs it again; `Present`, `Pay`,
`Notify` are the bank's; `Remap` is a restart with another configuration. The
amount is a number of tenths of a cent, so that the rounding to two places in
`payment.go`, zero and the column's largest value are real cases.

### EdgeCalls

State: `declaring` is the step with its inputs, answer and output; `messages` what
SLC Edge has taken; `handled`, `registered` what ASYCUDA has seen and acted on.
`Verify`, `Submit`, `NotAssembled` and `SendsError` are what the interpreters make
of a form; `Call` is the exchange, with an answer, a refusal or a lost answer;
`RecordDispatch`, `SaveAnswer` what the plugin records, `CallAgain` the activity run
again. `nswid.For` is the pair of the form and the previous edgeId: two calls have
one identifier exactly when both agree. Where `EdgeExchange` follows the
callbacks of a dispatch, this module follows what is sent.

### SlpaOrders, SundryOrders, SlpaEvents

`SlpaOrders`: `order` is the consignment's steps up to the split, `branch[b]` a
container's own steps, `cms` what the ports authority holds. Every call is served,
refused, or served with its answer lost; `unsure` is the history of removals that
were not answered, where the code cannot know. `SundryOrders`: `sundry` is a flow of
its own, `catalogue` and `sundries` what the CMS offers and has raised; `ListServices`
is the lookup, `FillSundry` the trader on the projected form, `RaiseSundry` the call.
`SlpaEvents`: `sent` are the
events, `wait` the wait of each template, `hook[w]` a webhook call under way
between its lookups (`LookParked`, `LookStates`, `LookHeld`) and its `Complete`.

### FiledDocuments

`paper` is the step with what its inputs name, `filed` what the record says,
`files` storage. `RenderDocument` and `FetchDocument` are the two plugins up to the
document, `StoreDocument` and `FileDocument` what they share, `PaperFails` any failed
call and the activity run again; `LinkExpires` and `NextDocument` come from outside.

### EphytoHub

`ephyto` is the flow with its form, flags and tracking number, `envelopes` what
the Hub has taken. `BuildCertificate` and what it rests on say which certificate
comes of an application and an officer's choice, and when none does; `SubmitToHub`,
`Poll` and `WithdrawFromHub` are the calls, each of which may be reset after the
Hub has acted or answered by a gateway; `Delivery` is the Hub's own progress.

### Forms, ReadOnlySchemas

`Forms` follows a form with a value, a list and a required field through any
drafts and a submission (`Save`): what is accepted becomes what the next one is
compared with. `ReadOnlySchemas` takes a document of schemas that refer to each
other in any way, refuses the ones that `newReadOnlyForm` refuses (`LoadForm`),
and walks into a value (`Descend`); its property compares the check's verdict
with a reference definition of what a browser applies at each place. A schema that
the browser applies may be one that the library drops, the keywords beside a `$ref`,
and `NoReadOnlyIsMissed` says on which documents the two agree (see the end of
this file for the one on which they do not).

### RefIds, ValueWrites, Splits

`RefIds`: `Collect` checks every place of an activity's entries, `Generate` draws
and places one number, `SaveOutput` and `Completes` end it, `GeneratorFails` starts
it again from its inputs; two activities run at once.
`ValueWrites`: `ReadValues` checks every entry and reads every value of a step's
inputs, `WriteField` puts one into the copy, `SaveWritten` records the copy and
`WriterAgain` is the activity run again. A text is a sequence, a template the texts
it joins; a path has at most two fields, and the list is a place of its own.
`Splits`: `SplitHSCodes` with `validateReplaces` and `applyReplaces`; `SplitCDNs`,
the branches' records, `CollectResults`, and `Retrieve`, the count of notes that
Customs lists as live.

## Runs

| Run | Instance | Shows |
|---|---|---|
| `caseflows` | three callers, two of them with one workflow ID, two versions, one fault | the case's state is exact, runs are as recorded, statuses only move forward, the ledger is implemented, a second run needs a stale read |
| `caseflows_retry` | two callers that claim one workflow ID for two cases, and a third | no case is left empty; every retried request is answered and every finished workflow recorded (liveness) |
| `caseflows_second_run` | two callers of one workflow | *violated*: a caller that read STARTING early starts a completed workflow again |
| `cusdec` | one worker, all events, two dispatches, any one fault | no status falls back; a result is recorded only after its review |
| `cusdec_delivery` | one worker, a result, an event and a notice, one fault before the task | acknowledged callbacks are held or applied; every callback lands (liveness) |
| `cusdec_concurrent` | two workers | *violated*: two events at once, and the earlier one's save lands last |
| `cusdec_reanswered` | one failing save | *violated*: a result completes the review of the next dispatch |
| `cusdec_early_event` | no fault | *violated*: an event that is early is recorded and its wait never released |
| `note` | two workers, two dispatches, any one fault or restart | a note only moves forward, its branch is told what it records, one registered note per branch |
| `note_delivery` | two workers, one dispatch, every callback | acknowledged callbacks are held or applied; every callback lands (liveness) |
| `note_redelivered` | one worker, two dispatches, no fault | *violated*: a repeated failure releases the next dispatch's wait |
| `portal` | the components around the cases, each on an instance of its own | the properties of the next table |

The contrast between `cusdec` and `note` is deliberate. Both services check a
status and then save the row unconditionally. A dispatch note's callbacks must
first release one wait, whose step ID lets a single one through, and its status
is safe with any number of workers; a declaration's event is recorded even when
no task is parked, so nothing keeps two events apart, and its status is safe only
one callback at a time.

### The portal run

The components around the cases share no state with each other that their
properties speak of, so they are checked side by side and not as a product: `part`
is chosen in the initial state and says which component a behaviour runs, the
others keep their initial state. The state space is the sum of the instances and
not their product. Where components do interact, the module is one:
`Consignments` has profiles and parties in it, `TaskDesk` parties and files.

| Part | Property | Shows |
|---|---|---|
| `consignments` | `CommittedWhole` | a case's rows are there all at once or not at all, and each user has one record, however first sign-ins interleave |
| | `ColumnsMatchParties` | a consignment's company columns and its parties' OUs never disagree, however operators rename OUs |
| | `SameAccess` | the list, the consignment, its roles and its tasks answer a caller alike |
| `files` | `FilesStayInTheirCase`, `StoredFilesWereTheirs` | a file is opened and stored only by those who hold it or were party to its case |
| `claims` | `ClaimsAreHandedOver` | a claim ends by its holder or by a takeover of that very claim |
| `review` | `AnswersWhatWasAsked`, `OneSideWaits` | a parked step goes on only with an answer to it; nobody waits for an answer that cannot come |
| `admin` | `ForceParkedIsClosed`, `OpenTasksAreAwaited` | a force park answered 204 is final; a task left open behind its node is known to a request |
| `payment` | `PaymentCompletesItsStep` | a step is completed only by the money of its own run, paid to its payee's identity of the moment |
| `slpa` | `AnsweredWasApplied` | an event answered 200 has completed a step of its own wait, or that wait was over |
| `edge` | `OneRegistrationPerSubmission` | Customs acts once on what was submitted once, and a resubmission is never suppressed as a repeat |
| `edge`, `orders`, `sundry`, `ephyto`, `documents` | `RecordsMatchOutside` | what a step has recorded of SLC Edge (`EdgeVerdictsAreTrue`), of the ports authority (`SlpaBooksAgree`, `SundryIsAsOrdered`), of the ePhyto Hub (`HubVerdictsAreTrue`) and of storage (`DocumentsAreCurrent`) is so there |
| `splits` | `SplitsAreWhole` | each selected code's agencies get one workflow (`EveryCodeIsServed`); the boat note has a row for each note that stands (`NotesAgreeWithCustoms`) |
| `form`, `schemas` | `ReadOnlyIsKept` | the server's values stay as they are (`ServerValuesKept`), and no schema hides one (`NoReadOnlyIsMissed`) |
| `numbers`, `writes` | `FilledAsAsked` | every number drawn by a completed step is in one place and no given ID is overwritten (`NumbersLandOnce`); every written field holds what its sources held in the inputs, and nothing else is touched (`ValuesLandAsRead`) |

What is assumed of others, as the code in the repository uses them: the task
manager takes a completion only for the step that waits, in one step; the engine
runs an activity again when it was not recorded; SLC Edge numbers the messages it
takes and ASYCUDA acts on one message of each `nswId`; the CMS and the ePhyto Hub
may have acted although the answer was lost; the registry never draws a number
twice; the payment service settles a transaction once its gateway accepts.

### Bounds

Two callers are enough for each race over one row, a third adds a flow to the
case of the first two: a lock conflict, a duplicate and a reopening all occur.
Two manifest versions distinguish "current" from "recorded". One fault at any
point reaches every partial failure of a single call, together with the retry
that follows. Two dispatches give one a successor; two sends give each callback
a repeat; two workers give each read an intruder. `EveryCallbackLands` for
declarations has one worker, since two workers would need the violated
`StatusNeverFallsBack`; for notes it has two and no fault. `SYMMETRY` in
`DispatchNote.cfg` exchanges workers only, and the run has no liveness.

`portal` has two requests with two companies, so that each read has an intruder, and
one edit and one failure, which may come anywhere; three calls on a task of one
step, two at once; three steps to each side of a review and two losses, so that a
lost answer, its repeat and its late arrival all meet a later step; two admins and
two runs of a node, so that a request meets the step after its own; two runs of a
payment with two payees, two methods, two checkouts, one crash and one change of the
configuration; three events of an order, two at once; three submissions, four
messages and one loss at SLC Edge, so that a repeat, a resubmission and a repeat of
a resubmission occur; an order of two containers with two to pair them with, raised
twice; two sundry orders of two services, one lost answer and eight forms; a step
that files two documents in turn with two failures; three envelopes at the ePhyto
Hub, one reset and seven kinds of certificate; three HS codes with six replacement
rules, up to two containers; a document of three schemas under one another and a
definition, with up to two `$ref`s to any of the four, and paths of three, so that a
schema may refer to itself, to its parent, or to one that refers on; two generators
with one or two entries over two list elements; one or two writes of every kind, so
that each may read what the other writes, to a list of two rows, none or something
else.

`CHECK_DEADLOCK FALSE` is set for `portal`, whose instances are over when their
bounded requests are, and for declarations and notes: a branch that is done,
whose callbacks were all sent, has nothing left to do. `CaseFlows` never stops.

### Fairness

`CaseFlows`: a request that is being served goes on (`WF` of `Step`), a caller
with a stable ID calls again after a failure (the retry that `service.go:110-116`
invites), and Temporal retries the completion activity (`WF` of `Complete`). That
a workflow's tasks are ever done, a deploy, or a fault is never assumed.

`EdgeExchange`: Temporal runs the dispatching step and parks the waits, a worker
goes on, and each callback that SLC Edge has yet to deliver or that is held gets
its turn among the workers again and again (`SF`: a goroutine per held callback,
and SLC Edge's own retries). That the trader submits or Customs decides is not
assumed; hence `EveryCallbackLands` for notes ends in "or the branch is back at
the form".

`portal` checks safety only and assumes no fairness: its components wait for
people and for outside parties, whose progress nothing in the code promises.

### What the liveness runs leave out

- A restart loses the held callbacks, and so does the window of 24 hours. The
  code says so (`retry.go:18-22`); `HeldOrLanded` is false with either.
- A save that fails after the task was completed. For notes the retry finds no
  parked task and stays early until the window passes; the note is then never
  INTEGRATED. For declarations this is `cusdec_reanswered`.
- A dispatch that was not recorded: its callbacks stay early (`api_call.go:49-55`).

## Proofs

`CaseFlowsProofs` proves, for any set of clients, cases, workflows, templates and
any number of versions and faults, from the assumptions that `CaseFlows` names
(`VersionAssumption`, `RequestAssumption`, `NoneAssumption`):

| Theorem | Property |
|---|---|
| `TypeCorrect` | `TypeOK` |
| `FinishedIsExact` | `FinishedExact` |
| `EveryRunAsRecorded` | `RunsAsRecorded` |
| `OkMeansRun` | `AnsweredOkRan` |
| `NoCaseOrphaned` | `NoOrphanCase` |
| `RecordsAreForGood` | `RecordedForGood` |
| `RerunNeedsStaleRead` | `RerunOnlyFromStaleRead` |
| `RefinesLedger` | `ImplementsLedger` |

The inductive invariant `IInv` is the conjunction of eleven named parts.
`FinishedExact` is not inductive: whether a commit keeps it depends on what the
transaction read some statements earlier. `TxOK` says what an open transaction
may have written at each statement, `TxUnique` and `LocksOK` that the locks
exclude each other (no open flow insert on a case that `MarkCompleted` has
locked), `DecidedOK` that the decision to finish the case is still right when it
commits, because the lock has been held since. `RowsOK`, `ReadsOK` and
`StartedOK` tie rows, what callers have read of them and the engine's runs
together; `RunsAsRecorded` and `AnsweredOkRan` rest on them. The proof of the
step has one lemma per action. The refinement maps `OpenFlows` to the ledger's
`open`: `RecordCommit` is `Open`, the first `CommitCompletion` of a flow is
`Complete`, `EnsureCase` is `Ensure`, everything else a stutter.

`DispatchNoteProofs` proves, for any number of workers, dispatches, repeats and
faults, at any sites, from `BoundsAssumption` and `KindsAssumption`:

| Theorem | Property |
|---|---|
| `TypeCorrect` | `TypeOK` |
| `OnlyForward` | `NoteOnlyMovesForward` |
| `SettledReleased` | `SettledNotesReleased` |
| `OneRegistered` | `OneRegisteredNote` |
| `CallbacksHeldOrLanded` | `HeldOrLanded`, when retries are not given up (`"window"`) and the process is not restarted |

None of the properties is inductive. The argument is that of one wait and one
winner. A step that a worker has found, if it is still parked, is on the wait of
the worker's callback (`WorkerOK`), because parked steps have fresh IDs and the
workflow does not move while one is parked (`StepsOK`). A branch therefore has
at most one dispatch whose integration released it (`OneWinner`), and once it has
one, no other result can be released. A worker that is about to save is the only
one to save that thing (`SaveOK`, `SavesUnique`), and `told` says which of the
acknowledgment and the cancellation came through. No lock is needed for this.

`CusdecProofs` proves for declarations:

| Theorem | Property | Assumption |
|---|---|---|
| `TypeCorrect` | `TypeOK` | none |
| `RecordedOnlyAfterReview` | `RecordedAfterReview` | none: any number of workers, any fault |
| `NeverFallsBackAlone` | `StatusNeverFallsBack` | `Alone`: callbacks are processed one at a time |
| `CallbacksHeldOrLanded` | `HeldOrLanded` | `Alone`, no `"window"`, no `"restart"` |
| `ReviewAnswered` | `ReviewAnsweredByItsDispatch` | `Alone`, and no save that is lost (`"update"`, `"restart"`) or dispatch sent twice (`"activity"`) |

The assumptions `Alone` and no lost `"update"` are not conveniences:
`cusdec_concurrent` violates `StatusNeverFallsBack` with two workers, and
`cusdec_reanswered` violates `ReviewAnsweredByItsDispatch` with one failing save.
The code makes neither true. It has no lock per declaration, and the HTTP
handlers and the retries run side by side, so these theorems say how much of the
services' correctness rests on callbacks that do not overlap. `StillNew` is the
heart of the second part: what a lone worker has read of its row is so until it
saves. `ReviewInv` adds that a parked review is of the last dispatch and that
every dispatch before it is recorded or about to be.

The lemmas of `EdgeExchangeProofs` are about one step each of the exchange
(dispatching, delivering, a worker that ends, goes on or completes a step,
forgetting) and are cited by both; the library of `TLAPS` is all they need.

`ConsignmentsProofs`, `TaskProofs`, `PluginProofs` and `RecordsProofs` prove, for any
number of users, companies, cases, tasks, files, calls, forms, schemas, entries,
officers, payees, containers, certificates and documents, and for any bounds:

| Theorem | Property | Specification |
|---|---|---|
| `ConsignmentsProofs!ConsTypeCorrect` | `ConsType` | `ConsSpec` |
| `ConsignmentsProofs!ConsignmentsAreWhole` | `CommittedWhole` | |
| `ConsignmentsProofs!RowsMatchParties` | `ColumnsMatchParties` | |
| `ConsignmentsProofs!AccessIsTheSame` | `SameAccess` | |
| `TaskProofs!DeskTypeCorrect` | `DeskType` | `DeskSpec` |
| `TaskProofs!FilesAreNotPassedOn` | `FilesStayInTheirCase` | |
| `TaskProofs!SubmissionsWereTheirs` | `StoredFilesWereTheirs` | |
| `TaskProofs!ClaimsPassOnOnlyAsHandedOver` | `ClaimsAreHandedOver` | |
| `TaskProofs!AdminTypeCorrect` | `AdminType` | `AdminSpec` |
| `TaskProofs!ForceParkIsFinal` | `ForceParkedIsClosed` | |
| `TaskProofs!NoTaskIsForgotten` | `OpenTasksAreAwaited` | |
| `TaskProofs!ReviewsTypeCorrect` | `ReviewsType` | `ReviewsSpec` |
| `TaskProofs!OneSideAlwaysWaits` | `OneSideWaits` | |
| `TaskProofs!AnswersAreToTheQuestion` | `AnswersWhatWasAsked` | |
| `TaskProofs!PaymentsTypeCorrect` | `PaymentsType` | `PaymentsSpec` |
| `TaskProofs!OwnMoneyCompletes` | `PaymentCompletesItsStep` | |
| `TaskProofs!SlpaTypeCorrect` | `SlpaType` | `SlpaSpec` |
| `TaskProofs!AnsweredMeansApplied` | `AnsweredWasApplied` | |
| `PluginProofs!SplitsTypeCorrect` | `SplitsType` | `SplitsSpec` |
| `PluginProofs!SplitWhole` | `SplitsAreWhole` | |
| `PluginProofs!FormsTypeCorrect` | `FormsType` | `FormsSpec` |
| `PluginProofs!ServerValuesStay` | `ServerValuesKept` | |
| `PluginProofs!SchemasTypeCorrect` | `SchemasType` | `SchemasSpec` |
| `PluginProofs!ReadOnlyIsNotMissed` | `NoReadOnlyIsMissed` | |
| `PluginProofs!ServersPartStays` | `ReadOnlyIsKept` | `ReadOnlySpec` |
| `PluginProofs!RefIdsTypeCorrect` | `RefIdsType` | `RefIdsSpec` |
| `PluginProofs!WriterTypeCorrect` | `WriterType` | `WritesSpec` |
| `PluginProofs!StepsFilledAsAsked` | `FilledAsAsked` | `FilledSpec` |
| `RecordsProofs!CallsTypeCorrect` | `EdgeCallsType` | `EdgeCallsSpec` |
| `RecordsProofs!OneRegistration` | `OneRegistrationPerSubmission` | |
| `RecordsProofs!VerdictsAreTrue` | `EdgeVerdictsAreTrue` | |
| `RecordsProofs!OutsideTypeCorrect` | `SlpaOrdersType`, `SundryType`, `HubType`, `PapersType` | `OutsideSpec` |
| `RecordsProofs!RecordsAreTrue` | `RecordsMatchOutside` | |

`OutsideSpec` starts from every catalogue of the CMS, every kind of client key and
both storing plugins, `SplitsSpec` from every way in which workflows may replace one
another, `FormsSpec` and `SchemasSpec` from every form, every content of a step and
every document of schemas, `RefIdsSpec` and `WritesSpec` from every list of entries,
of any length, over every document in which what lies under a place lies in an object;
`portal` starts from some of them. `ReadOnlySpec` is a form beside the walk through
its schema, `FilledSpec` the generators beside a writer, as in `portal`.

The assumptions are those that the modules name. They say that the bounds are
numbers (a node, a wait and a task have a step, a document a round), that what
stands for "none" is none of the things it stands beside, that there is a payee and
a task, that the configuration maps each payee to an identity or to none, that
clients are not users, that a task has a case, that case numbers and user IDs are
drawn from as many as there are, that the order's rows, a selection and the
workflows of an HS code are lists, that the schemas of a document are finitely many
and have a root, that the elements of a list are numbered from 1, that a number, an
ID, an object and nothing are told apart, that no field of the root is the list
itself, and what forms and certificates consist of. The arguments:

- `Consignments`: a company's handle is unique at every moment (`ProfilesAgree`),
  and what a request carries from one of its writes to the next is still so at the
  next (`RequestKnows`, `SelectionKnows`): the company exists, the handle is one it
  has had, the case is drawn, the row is there. An operator's edit in between
  changes a company's handle but never takes one back, and parties hold the handle
  as it was when they were written; `ColumnsMatchParties` speaks of the handles a
  company has had. `SameAccess` holds because each of its four checks finds the company
  of a party by the party's handle, and two companies never share one.
- `Splits`: a loop's result is a recursive function of a position (`Those` for what a
  filter keeps, `FlattenSeq` for lists put end to end). The lemmas `ThoseIs` and
  `FlattenIs` say what comes out: the elements at the chosen indices, each once and in
  order (`From`), and each element of each list once (`Joins`). They go from position
  to position by the least one at which the statement would fail (`LeastNatural`,
  `UpTo`: the property is given as the set of the numbers that have it). A workflow
  that is left out is then one that another of the list replaces, and the other is
  itself replaced by none (`ReplacesValid`), so it is started (`ServedOnce`). For the
  notes, the number of a branch is that of a note Customs lists for its container,
  whoever cancels or raises notes meanwhile (`NumbersAreListed`), and a container with
  a live note is counted by at least one (`NeverTooMany`).
- `Forms`: the pairing is an injection of the submitted rows into the stored ones, from
  row to row (`Pair`), and two paired rows have the same server's part; a row that found
  none has the part of an empty one. So each part but the empty one comes as often as
  before, less the rows that were removed where the form allows it, and this composes
  over any number of drafts.
- `ReadOnlySchemas`: `Reached` is the least set that holds where it starts and is closed
  under the keywords; it takes no more rounds than there are schemas, since each adds one
  or is the last. Where no schema was refused, what the browser applies at a place and the
  check does not follow reaches no readOnly, neither there nor further down; that is the
  invariant of the walk. The other direction needs no hypothesis: all that the check
  follows, the browser applies.
- `RefIds`: the entries of an activity are apart from one another, since none of two
  paths of one scope is a prefix of the other, so filling one place neither fills nor
  overwrites another that is still to be filled. A step's record holds only numbers that
  its own activity drew, each in one place, and the registry never draws a number twice:
  hence no number is in two records.
- `ValueWrites`: all values are read before the first is written, from inputs that do not
  change; which places are written is fixed then too. The copy is described by the set of
  writes that have landed so far, whatever their order: a place is as some landed write
  left it, or as it was in the inputs, or an object that was made on the way. Two writes
  of one scope do not overlap, and of two scopes only the list itself does.
- `TaskDesk`: what a call knows at each step (`CallKnows`) is about the record that
  it read, not about the record as it is. Authorisation on a stale record is sound
  because the histories only grow: a file in the record read was in a record, a party
  was a party (`RecordsAreRemembered`, `PartiesAreRemembered`), and a token is only
  issued to someone who could read (`TokensWereGranted`). `ClaimsAreHandedOver` rests
  on the check that the task manager makes of the claim when it writes it, and on a
  takeover having read a task that was not completed.
- `SlpaEvents`: a wait that has moved on was moved by an event of its own, and one
  that has ended by a final one (`SlpaInv`), so a call that finds no parked step and
  a finished wait may answer 200.
- `SlpaOrders`: a branch claims a container from the moment its pairing is saved. The
  CMS pairs a container, and a placeholder, only once, so what one branch claims no
  other can have saved; a removal either lets go of the claim or leaves it in doubt
  (`BranchBooks`). `SundryOrders` adds that a form that lacks something is sent
  without lines, which the CMS refuses.
- `EphytoHub`: everything that the flow says rests on one envelope; envelopes are only
  added, a delivered one does not change, and the form is not edited until the Hub has
  judged it (`HubStages`).
- `FiledDocuments`: what is about to be recorded is of this round's inputs, and until
  then the record is the last round's (`PapersInv`), whatever is run again.
- `EdgeCalls`: every message names the form and the previous edgeId that its
  identifier is made of (`MessagesOK`), the messages of one attempt say the same
  (`AttemptsOK`) because the step's inputs do not change while it calls (`StepOK`).
  Two messages with one identifier therefore follow the same message and are of
  the attempt after it. ASYCUDA acts on one message of an identifier
  (`RegisteredOK`), hence on one of an attempt. `AnswerOK` and `WaitingOK` carry
  what the answer says from the exchange to the output.
- `NodeAdmin`: a node only goes on to later steps, so a step that was force parked
  (it has begun, and waits no more) stays so whatever completes, fails or resolves
  in between (`ForcedOK`). No lock is needed between the status that a request
  reads and the park: the park itself is refused for a step that has moved on.
- `Reviews`: a side that calls was begun to answer the token that it calls with,
  and so was every call given up on (`AskedFor`); tokens are step numbers, hence
  fresh. `InTurn` says what both sides are doing while nothing is lost: only NSW
  has begun, one waits for the other, or both are done.
- `Payments`: a checkout of the step's current run carries the step's payee and
  amount, and none is of a later run (`TokensOK`). The rest is the gateway's check
  of the identity at the moment of the notification.

Liveness (`EventuallyAnswered`, `EventuallyCompleted`, `EveryCallbackLands`) is
model-checked only: fairness and ENABLED are out of the prover's reach.

`PortalType` is model-checked as the conjunction that it is; its parts, one for each
component, are the type theorems above. Every other invariant and action property that
a run checks is stated by a theorem.

`PluginProofs` does by hand what an induction theorem would do: the library's take the
property as an operator and cannot be instantiated by the provers. A statement about each
position of a list or round of a closure is given as the set of the numbers that have it
(`UpTo`), or argued at the least one that fails (`LeastNatural`); a recursive function is
first shown to exist.

## Not modelled

- Task extensions and renderers, the catalog and static data: mappings of data
  within one step, and reads.
- The replay engine runs recorded HTTP flows one after the other, for tests.
- Server, telemetry and database wiring, portals, deployments: configuration and
  pure I/O. The workflow artifacts are data; the order of steps that the code
  relies on is external in the map.
- Token verification, encryption and the XML of certificates: the models take a
  sealed token, a signature or a document as what it stands for.
- The fields of the payloads to SLC Edge, the CMS and the ePhyto Hub, as far as
  no property tells them apart; ePhyto replacement certificates.

What the properties leave open, where the code does:

- A resubmission replaces the step's output, so when the answer to a *later*
  attempt is lost, the edgeId of the attempt before it is gone and an unchanged
  form gets an identifier that was used before. `OneRegistrationPerSubmission`
  speaks of submissions that follow an acknowledged one.
- Beside a `$ref`, `refSiblings` refuses a readOnly, but it looks no further than what is
  written there (`readonly.go:372`): a `$ref` beside a `$ref` that points to a readOnly
  is accepted, the library drops it, and the trader's browser shows a value as read-only
  that the check lets a submission change. TLC finds it in four schemas when
  `~RefBesideRef` is taken out of `NoReadOnlyIsMissed`; with it the theorem holds for
  every document.
- What edgeId ASYCUDA's suppression answers with is not in the repository.
- A default in an `allOf` part beside a `$ref` is not refused, and the check
  does not see it; `NoReadOnlyIsMissed` speaks of the defaults of the schemas
  that the check follows.
- A gateway's answer (a 502, say) is not recorded as retryable although the Hub
  has not judged the certificate: an officer sends it again. `HubVerdictsAreTrue`
  has the other direction, that nothing judged is sent again unattended.
- A write at the root may replace the very list whose rows other writes fill: their
  values are then in rows that are no longer in the copy, although the comment of
  `ValueWriterPlugin` says that a field is always written. `ValuesLandAsRead` leaves
  those rows out.
- A step that archives a document records nothing when its input is empty, so one that
  a loop brings back then keeps the file of the round before; `DocumentsAreCurrent`
  says that the record is left as it was.
- A sundry order whose answer was lost may be raised twice; `SundryIsAsOrdered` speaks
  of the one that the trader is told of.
- A removal whose answer was lost leaves the CMS's pairing unknown (`unsure`).

## What is left

In the order of what it would add: the composition of `TaskDesk` with `Reviews`, so that
the agency's officers work their step through the desk; replacement certificates; a
schema's parts beside a `$ref` followed as the browser does. Of what the runs check,
liveness stays with TLC.
