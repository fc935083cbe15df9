---------------------------- MODULE Consignments ----------------------------
(***************************************************************************)
(* internal/consignment and internal/trade's CHA_PERSIST: consignments,    *)
(* who may see them and start flows on them. A request signs its user in,  *)
(* then reads and writes in steps of their own, with operators' edits of   *)
(* companies, other requests and failures in between.                      *)
(*                                                                         *)
(* Creating a consignment writes in three places, one after the other: its *)
(* case, its row with the trader party, and its export flow. Who the       *)
(* trader and the CHA are is read from the case's parties.                 *)
(***************************************************************************)
EXTENDS Profiles, Sequences

CONSTANTS
  Requests,     \* HTTP requests; a request draws its own name as a fresh user ID
  Flows,        \* flows.users: the workflows that a trader or CHA may start
  ExportFlow,   \* trade-export
  StartableBy,  \* the roles each flow is listed for
  TokenRoles,   \* the roles in each subject's token
  MaxFlows,     \* bound on flows per case
  MaxSelections,\* bound on runs of CHA_PERSIST
  MaxFailures   \* bound on calls that fail

VARIABLES
  cased,       \* cases that have a row, whose IDs are numbered in the order drawn
  consignment, \* each case's consignments row
  createdBy,   \* cases.created_by
  flows,       \* the flows started on each case
  request,     \* what each request is doing and has read
  selection,   \* what CHA_PERSIST is doing on behalf of a case
  selections,
  failures

ASSUME CasesAssumption == IsFiniteSet(Cases) /\ Cases = 1 .. Cardinality(Cases)
ASSUME RequestsAssumption == UserIDs = Requests
ASSUME ConsBoundsAssumption == MaxFlows \in Nat /\ MaxSelections \in Nat /\ MaxFailures \in Nat

consignmentVars == <<cased, consignment, createdBy, flows, party>>
workVars == <<request, selection, selections, failures>>
consVars == <<consignmentVars, workVars, profileVars>>

NoRow == [trader |-> NoCompany, cha |-> NoCompany]
NoCase == 0

Stages == {"idle", "sign in", "insert user", "reread user", "trader", "ensure case", "insert",
           "start", "answer", "company", "fetch", "vars", "start flow", "done", "failed"}
NoRequest == [pc |-> "idle", kind |-> "none", subject |-> NoUser, ou |-> NoHandle, id |-> NoUser,
              company |-> NoCompany, handle |-> NoHandle, case |-> NoCase, flow |-> ExportFlow,
              status |-> 0]
RequestState == [pc : Stages, kind : {"none", "create", "get", "flow"}, subject : Subjects \cup {NoUser},
                 ou : Handles \cup {NoHandle}, id : UserIDs \cup {NoUser},
                 company : Companies \cup {NoCompany}, handle : Handles \cup {NoHandle},
                 case : Cases \cup {NoCase}, flow : Flows \cup {ExportFlow},
                 status : {0, 200, 201, 400, 403, 404, 500}]
NoSelection == [company |-> NoCompany, handle |-> NoHandle]

ConsType ==
  /\ PartyType /\ ProfilesType
  /\ cased \subseteq Cases
  /\ consignment \in [Cases -> [trader : Companies \cup {NoCompany}, cha : Companies \cup {NoCompany}]]
  /\ createdBy \in [Cases -> UserIDs \cup {NoUser}]
  /\ flows \in [Cases -> Seq([workflow : Flows \cup {ExportFlow}, for : Companies])]
  /\ request \in [Requests -> RequestState]
  /\ selection \in [Cases -> [company : Companies \cup {NoCompany}, handle : Handles \cup {NoHandle}]]
  /\ selections \in 0 .. MaxSelections
  /\ failures \in 0 .. MaxFailures

----------------------------------------------------------------------------
(* What is read of a consignment.                                          *)

Committed(c) == consignment[c] # NoRow

\* withCase: the companies come from the OUs of the case's parties.
TraderOf(c) == CompanyAt(party[c]["trader"])
CHAOf(c) == CompanyAt(party[c]["cha"])

\* Mutant: the companies are the ones in the consignment's row.
OwnedByColumn(k, held, c) ==
  {r \in held \cap Roles : k # NoCompany /\ k = IF r = "trader" THEN consignment[c].trader ELSE consignment[c].cha}
\* authorize: the roles a caller of company k with token roles held owns c in.
Owned(k, held, c) ==
  {r \in held \cap Roles : k # NoCompany /\ k = IF r = "trader" THEN TraderOf(c) ELSE CHAOf(c)}

\* ListConsignments: the filter has the caller's company for each role the caller holds.
Listed(k, held) ==
  {c \in Cases : Committed(c) /\ (\/ "trader" \in held /\ TraderOf(c) = k
                                  \/ "cha" \in held /\ CHAOf(c) = k)}

CallerRolesOn(k, held, c) ==
  {r \in held : r = "trader" /\ TraderOf(c) = k} \cup {r \in held : r = "cha" /\ CHAOf(c) = k}

Startable(owned) == {f \in Flows : StartableBy[f] \cap owned # {}}

----------------------------------------------------------------------------
(* Requests.                                                               *)

Go(r, pc) == request' = [request EXCEPT ![r].pc = pc]
Respond(r, status) == request' = [request EXCEPT ![r].pc = "done", ![r].status = status]
Signed(r, id) ==
  request' = [request EXCEPT ![r].id = id,
                             ![r].pc = IF request[r].kind = "create" THEN "trader" ELSE "company"]
Held(r) == TokenRoles[request[r].subject]
Quiet == UNCHANGED <<consignmentVars, selection, selections, failures, profileVars>>

RequestArrives(r, kind, s, c, f) ==
  /\ request[r] = NoRequest
  /\ kind = "create" => c = NoCase
  /\ kind # "flow" => f = ExportFlow
  /\ request' = [request EXCEPT ![r] = [NoRequest EXCEPT
       !.pc = "sign in", !.kind = kind, !.subject = s, !.ou = token[s], !.case = c, !.flow = f]]
  /\ Quiet

\* GetOrCreateUser: look up, else insert, else the row that another request has inserted.
SignIn(r) ==
  LET row == user[request[r].subject]
  IN /\ request[r].pc = "sign in"
     /\ IF row.id # NoUser THEN Signed(r, row.id) ELSE Go(r, "insert user")
     /\ Quiet

CreateUser(r) ==
  LET s == request[r].subject
  IN /\ request[r].pc = "insert user"
     /\ InsertUser(s, r, request[r].ou)
     /\ IF user[s].id = NoUser THEN Signed(r, r) ELSE Go(r, "reread user")
     /\ UNCHANGED <<consignmentVars, selection, selections, failures, companyVars, token, moves>>

RereadUser(r) ==
  /\ request[r].pc = "reread user"
  /\ Signed(r, user[request[r].subject].id)
  /\ Quiet

\* HandleCreateConsignment needs the trader role; the company is that of the user's record.
FindTrader(r) ==
  LET ou == user[request[r].subject].ou
      k == CompanyAt(ou)
  IN /\ request[r].pc = "trader"
     /\ CASE "trader" \notin Held(r) -> Respond(r, 403)
          [] "trader" \in Held(r) /\ k = NoCompany -> Respond(r, 500)
          [] OTHER -> request' = [request EXCEPT ![r].pc = "ensure case", ![r].company = k, ![r].handle = ou]
     /\ Quiet

EnsureNewCase(r) ==
  LET c == Cardinality(cased) + 1
  IN /\ request[r].pc = "ensure case"
     /\ c \in Cases
     /\ cased' = cased \cup {c}
     /\ request' = [request EXCEPT ![r].pc = "insert", ![r].case = c]
     /\ UNCHANGED <<consignment, createdBy, flows, party, selection, selections, failures, profileVars>>

\* Mutant: the party and the creator are left to the flow's start.
CreateRowOnly(r) ==
  /\ request[r].pc = "insert"
  /\ consignment' = [consignment EXCEPT ![request[r].case].trader = request[r].company]
  /\ Go(r, "start")
  /\ UNCHANGED <<cased, createdBy, flows, party, selection, selections, failures, profileVars>>
\* One transaction.
CreateConsignment(r) ==
  LET c == request[r].case
  IN /\ request[r].pc = "insert"
     /\ consignment' = [consignment EXCEPT ![c].trader = request[r].company]
     /\ Assign(c, "trader", request[r].handle)
     /\ createdBy' = [createdBy EXCEPT ![c] = request[r].id]
     /\ Go(r, "start")
     /\ UNCHANGED <<cased, flows, selection, selections, failures, profileVars>>

\* Each start draws a workflow ID of its own, so none is ever taken for a repeat.
StartFlow(c, f, k) == flows' = [flows EXCEPT ![c] = Append(@, [workflow |-> f, for |-> k])]

StartExport(r) ==
  /\ request[r].pc = "start"
  /\ StartFlow(request[r].case, ExportFlow, request[r].company)
  /\ Go(r, "answer")
  /\ UNCHANGED <<cased, consignment, createdBy, party, selection, selections, failures, profileVars>>

\* The reloaded consignment is answered with the flows that its trader may start.
AnswerCreated(r) ==
  /\ request[r].pc = "answer"
  /\ Respond(r, 201)
  /\ Quiet

\* The caller's company is that of the token.
FindCompany(r) ==
  LET k == CompanyAt(request[r].ou)
  IN /\ request[r].pc = "company"
     /\ IF k = NoCompany THEN Respond(r, 403)
        ELSE request' = [request EXCEPT ![r].pc = "fetch", ![r].company = k]
     /\ Quiet

\* The row is read, and the caller authorized on what was read of it.
Fetch(r) ==
  LET c == request[r].case
      owned == Owned(request[r].company, Held(r), c)
  IN /\ request[r].pc = "fetch"
     /\ CASE ~Committed(c) \/ owned = {} -> Respond(r, 404)
          [] Committed(c) /\ owned # {} /\ request[r].kind = "get" -> Respond(r, 200)
          [] Committed(c) /\ owned # {} /\ request[r].kind = "flow" /\ request[r].flow \notin Startable(owned)
               -> Respond(r, 400)
          [] OTHER -> request' = [request EXCEPT ![r].pc = "vars", ![r].company = TraderOf(c)]
     /\ Quiet

TraderVars(r) ==
  /\ request[r].pc = "vars"
  /\ IF Exists(request[r].company) THEN Go(r, "start flow") ELSE Respond(r, 500)
  /\ Quiet

StartUserFlow(r) ==
  /\ request[r].pc = "start flow"
  /\ Len(flows[request[r].case]) < MaxFlows
  /\ StartFlow(request[r].case, request[r].flow, request[r].company)
  /\ Respond(r, 201)
  /\ UNCHANGED <<cased, consignment, createdBy, party, selection, selections, failures, profileVars>>

\* A call fails, its write not done, and the request answers 500; nothing written is undone.
RequestFails(r) ==
  /\ request[r].pc \notin {"idle", "done", "failed"}
  /\ failures < MaxFailures
  /\ failures' = failures + 1
  /\ request' = [request EXCEPT ![r].pc = "failed", ![r].status = 500]
  /\ UNCHANGED <<consignmentVars, selection, selections, profileVars>>

----------------------------------------------------------------------------
(* CHA_PERSIST, an activity that the workflow runs after the trader has    *)
(* selected a CHA company, and again when it selects anew.                 *)

ReadCHA(c, k) ==
  /\ flows[c] # <<>>
  /\ selection[c] = NoSelection
  /\ selections < MaxSelections
  /\ Exists(k) /\ company[k].hasCHA
  /\ selection' = [selection EXCEPT ![c] = [company |-> k, handle |-> company[k].handle]]
  /\ selections' = selections + 1
  /\ UNCHANGED <<consignmentVars, request, failures, profileVars>>

\* Mutant: the row is written without its party.
AssignCHAColumn(c) ==
  /\ selection[c] # NoSelection
  /\ consignment' = IF Committed(c) THEN [consignment EXCEPT ![c].cha = selection[c].company] ELSE consignment
  /\ selection' = [selection EXCEPT ![c] = NoSelection]
  /\ UNCHANGED <<cased, createdBy, flows, party, request, selections, failures, profileVars>>
\* assignCHA: one transaction; a case without a consignment is left alone.
AssignCHA(c) ==
  /\ selection[c] # NoSelection
  /\ IF Committed(c)
       THEN /\ consignment' = [consignment EXCEPT ![c].cha = selection[c].company]
            /\ Assign(c, "cha", selection[c].handle)
       ELSE UNCHANGED <<consignment, party>>
  /\ selection' = [selection EXCEPT ![c] = NoSelection]
  /\ UNCHANGED <<cased, createdBy, flows, request, selections, failures, profileVars>>

\* The activity fails; the workflow engine runs it again, from the start.
SelectionFails(c) ==
  /\ selection[c] # NoSelection
  /\ failures < MaxFailures
  /\ failures' = failures + 1
  /\ selection' = [selection EXCEPT ![c] = NoSelection]
  /\ UNCHANGED <<consignmentVars, request, selections, profileVars>>

----------------------------------------------------------------------------
\* parties: the rows of cases that there are without a consignment.
ConsInit(profiles, ous, parties) ==
  /\ ProfilesInit(profiles, ous)
  /\ party = parties
  /\ cased = {}
  /\ consignment = [c \in Cases |-> NoRow]
  /\ createdBy = [c \in Cases |-> NoUser]
  /\ flows = [c \in Cases |-> <<>>]
  /\ request = [r \in Requests |-> NoRequest]
  /\ selection = [c \in Cases |-> NoSelection]
  /\ selections = 0
  /\ failures = 0

RequestNext(r) ==
  \/ \E kind \in {"create", "get", "flow"}, s \in Subjects, c \in cased \cup {NoCase}, f \in Flows \cup {ExportFlow} :
        (kind = "create" \/ c # NoCase) /\ RequestArrives(r, kind, s, c, f)
  \/ SignIn(r) \/ CreateUser(r) \/ RereadUser(r)
  \/ FindTrader(r) \/ EnsureNewCase(r) \/ CreateConsignment(r) \/ StartExport(r) \/ AnswerCreated(r)
  \/ FindCompany(r) \/ Fetch(r) \/ TraderVars(r) \/ StartUserFlow(r)
  \/ RequestFails(r)

ConsNext ==
  \/ \E r \in Requests : RequestNext(r)
  \/ \E c \in Cases : (\E k \in Companies : ReadCHA(c, k)) \/ AssignCHA(c) \/ SelectionFails(c)
  \/ ProfilesNext /\ UNCHANGED <<consignmentVars, workVars>>

\* Cases that requests create, over companies whose OU handles are unique.
ConsSpec ==
  /\ \E profiles \in [Companies -> CompanyRows], ous \in [Subjects -> Handles] :
       /\ \A k, l \in Companies : profiles[k].handle = profiles[l].handle => profiles[k].handle = NoHandle \/ k = l
       /\ ConsInit(profiles, ous, NoParties)
  /\ [][ConsNext]_consVars

----------------------------------------------------------------------------
(* Properties.                                                             *)

\* A case has a consignment, a trader party and a creator all at once or not at all
\* (createConsignment is one transaction), no flow runs on a case without them, and the creator
\* is the one record of its user: however the first sign-ins of a user interleave
\* (GetOrCreateUser), no request works under an ID that has no record.
CommittedWhole ==
  /\ \A c \in cased :
       /\ Committed(c) <=> party[c]["trader"] # NoHandle
       /\ Committed(c) <=> \E s \in Subjects : createdBy[c] \in {user[s].id} \ {NoUser}
       /\ createdBy[c] # NoUser => Committed(c)
       /\ flows[c] # <<>> => Committed(c)
  /\ \A c \in Cases \ cased : ~Committed(c) /\ createdBy[c] = NoUser /\ flows[c] = <<>>
  /\ \A r \in Requests : request[r].id # NoUser => request[r].id = user[request[r].subject].id

\* The rows' companies and the parties' OUs are written together: each party's OU is one that
\* the company in the row has had, however operators rename OUs between a read and the write.
ColumnsMatchParties ==
  \A c \in cased :
    /\ Committed(c) => party[c]["trader"] \in named[consignment[c].trader]
    /\ consignment[c].cha = NoCompany <=> party[c]["cha"] = NoHandle
    /\ consignment[c].cha # NoCompany => party[c]["cha"] \in named[consignment[c].cha]

\* The list, a single consignment, the roles shown on it and its tasks are each scoped by a
\* check of their own; a caller with a company gets the same answer from all of them.
SameAccess ==
  \A s \in Subjects, c \in Cases :
    LET k == CompanyAt(token[s])
        held == TokenRoles[s]
    IN k # NoCompany /\ Committed(c) =>
         /\ Owned(k, held, c) = Eligible(held, RolesOf(c, token[s]), Roles)
         /\ Owned(k, held, c) = CallerRolesOn(k, held, c)
         /\ c \in Listed(k, held) <=> Owned(k, held, c) # {}
============================================================================
