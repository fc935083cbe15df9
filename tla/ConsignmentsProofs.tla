-------------------------- MODULE ConsignmentsProofs --------------------------
(***************************************************************************)
(* However requests, operators' edits, failures and CHA_PERSIST overlap: a *)
(* consignment is whole with its trader and creator or is not there, its   *)
(* row and its parties name the same companies, and every way of asking    *)
(* for it gives the same answer.                                           *)
(***************************************************************************)
EXTENDS Consignments, FiniteSetTheorems, TLAPS

\* The handles are unique, the present one of a company is among those it has had, and an edit
\* session shows a company that there is.
ProfilesAgree ==
  /\ \A k, l \in Companies : company[k].handle = company[l].handle => company[k].handle = NoHandle \/ k = l
  /\ \A k \in Companies : company[k].handle # NoHandle => company[k].handle \in named[k]
  /\ editing.company # NoCompany => Exists(editing.company) /\ editing.seen.handle # NoHandle

\* Cases are numbered as they are drawn, and one not drawn has nothing.
CasesAreDrawn ==
  /\ cased = 1 .. Cardinality(cased)
  /\ \A c \in Cases \ cased : party[c] = NoParties[c]

Working == Stages \ {"idle", "done", "failed"}

\* What a request has found out by the step it is at.
RequestKnows(r) ==
  LET q == request[r]
  IN /\ q.pc \in Working => q.subject \in Subjects
     /\ q.pc \in Working => q.case = NoCase \/ q.case \in cased
     /\ q.pc = "reread user" => user[q.subject].id # NoUser
     /\ q.pc \in Working \ {"sign in", "insert user", "reread user"} => q.id # NoUser
     /\ q.pc \in {"ensure case", "insert"} => q.company \in Companies /\ q.handle \in named[q.company]
     /\ q.pc \in {"insert", "start"} => q.case \in cased /\ q.company \in Companies
     /\ q.pc = "start" => Committed(q.case)
     /\ q.kind \in {"get", "flow"} /\ q.pc \in Working => q.case \in cased
     /\ q.kind = "create" => q.pc \notin {"company", "fetch", "vars", "start flow"}
     /\ q.pc \in {"vars", "start flow"} => Committed(q.case)
     /\ q.pc = "start flow" => q.company \in Companies
     /\ q.pc \in Working => q.kind \in {"create", "get", "flow"}
     /\ q.id # NoUser => q.subject \in Subjects /\ q.id = user[q.subject].id

SelectionKnows(c) ==
  selection[c] # NoSelection =>
    c \in cased /\ selection[c].company \in Companies /\ selection[c].handle \in named[selection[c].company]

ConsInv ==
  /\ ConsType
  /\ ProfilesAgree
  /\ CasesAreDrawn
  /\ \A r \in Requests : RequestKnows(r)
  /\ \A c \in Cases : SelectionKnows(c)
  /\ CommittedWhole
  /\ ColumnsMatchParties
  /\ \A c \in cased : Committed(c) => consignment[c].trader # NoCompany

----------------------------------------------------------------------------
(* The operators of the model.                                             *)

Statuses == {0, 200, 201, 400, 403, 404, 500}

LEMMA RequestFields ==
  ASSUME NEW x \in RequestState
  PROVE  /\ \A pc \in Stages : [x EXCEPT !.pc = pc] \in RequestState
         /\ \A kind \in {"none", "create", "get", "flow"} : [x EXCEPT !.kind = kind] \in RequestState
         /\ \A s \in Subjects : [x EXCEPT !.subject = s] \in RequestState
         /\ \A ou \in Handles : [x EXCEPT !.ou = ou] \in RequestState
         /\ \A id \in UserIDs \cup {NoUser} : [x EXCEPT !.id = id] \in RequestState
         /\ \A k \in Companies \cup {NoCompany} : [x EXCEPT !.company = k] \in RequestState
         /\ \A h \in Handles \cup {NoHandle} : [x EXCEPT !.handle = h] \in RequestState
         /\ \A c \in Cases \cup {NoCase} : [x EXCEPT !.case = c] \in RequestState
         /\ \A f \in Flows \cup {ExportFlow} : [x EXCEPT !.flow = f] \in RequestState
         /\ \A status \in Statuses : [x EXCEPT !.status = status] \in RequestState
<1>1. /\ \A pc \in Stages : [x EXCEPT !.pc = pc] \in RequestState
      /\ \A kind \in {"none", "create", "get", "flow"} : [x EXCEPT !.kind = kind] \in RequestState
      /\ \A s \in Subjects : [x EXCEPT !.subject = s] \in RequestState
  BY DEF RequestState
<1>2. /\ \A ou \in Handles : [x EXCEPT !.ou = ou] \in RequestState
      /\ \A id \in UserIDs \cup {NoUser} : [x EXCEPT !.id = id] \in RequestState
      /\ \A k \in Companies \cup {NoCompany} : [x EXCEPT !.company = k] \in RequestState
  BY DEF RequestState
<1>3. /\ \A h \in Handles \cup {NoHandle} : [x EXCEPT !.handle = h] \in RequestState
      /\ \A c \in Cases \cup {NoCase} : [x EXCEPT !.case = c] \in RequestState
      /\ \A f \in Flows \cup {ExportFlow} : [x EXCEPT !.flow = f] \in RequestState
      /\ \A status \in Statuses : [x EXCEPT !.status = status] \in RequestState
  BY DEF RequestState, Statuses
<1> QED
  BY <1>1, <1>2, <1>3

\* The two fields every request changes, alone.
LEMMA StatusField ==
  ASSUME NEW x \in RequestState, NEW status \in Statuses
  PROVE  [x EXCEPT !.status = status] \in RequestState
BY DEF RequestState, Statuses

LEMMA StageField ==
  ASSUME NEW x \in RequestState, NEW pc \in Stages
  PROVE  [x EXCEPT !.pc = pc] \in RequestState
BY DEF RequestState

LEMMA RequestMoves ==
  ASSUME ConsType, NEW r \in Requests, NEW x \in RequestState, request' = [request EXCEPT ![r] = x]
  PROVE  request' \in [Requests -> RequestState] /\ request'[r] = x /\ \A q \in Requests \ {r} : request'[q] = request[q]
  BY DEF ConsType

\* A request goes on and keeps what it has read.
LEMMA GoDoes ==
  ASSUME ConsType, NEW r \in Requests, NEW pc \in Stages, Go(r, pc)
  PROVE  /\ request' \in [Requests -> RequestState] /\ \A q \in Requests \ {r} : request'[q] = request[q]
         /\ request'[r].pc = pc /\ request'[r].kind = request[r].kind /\ request'[r].subject = request[r].subject
         /\ request'[r].id = request[r].id /\ request'[r].company = request[r].company
         /\ request'[r].handle = request[r].handle /\ request'[r].case = request[r].case
<1> DEFINE x == [request[r] EXCEPT !.pc = pc]
<1>1. request \in [Requests -> RequestState] /\ request[r] \in RequestState
  BY DEF ConsType
<1>2. x \in RequestState
  BY <1>1, RequestFields
<1>3. request' = [request EXCEPT ![r] = x]
  BY <1>1 DEF Go
<1> QED
  BY <1>1, <1>2, <1>3 DEF RequestState

LEMMA RespondDoes ==
  ASSUME ConsType, NEW r \in Requests, NEW status \in Statuses, Respond(r, status)
  PROVE  /\ request' \in [Requests -> RequestState] /\ \A q \in Requests \ {r} : request'[q] = request[q]
         /\ request'[r].pc = "done" /\ request'[r].kind = request[r].kind
         /\ request'[r].subject = request[r].subject /\ request'[r].id = request[r].id
<1> DEFINE x == [[request[r] EXCEPT !.pc = "done"] EXCEPT !.status = status]
<1>1. request \in [Requests -> RequestState] /\ request[r] \in RequestState
  BY DEF ConsType
<1>2. [request[r] EXCEPT !.pc = "done"] \in RequestState
  BY <1>1, RequestFields DEF Stages
<1>3. x \in RequestState
  BY <1>2, RequestFields
<1>4. x.pc = "done" /\ x.kind = request[r].kind /\ x.subject = request[r].subject /\ x.id = request[r].id
  BY <1>1 DEF RequestState
<1>5. request' = [request EXCEPT ![r] = x]
  BY <1>1 DEF Respond
<1> HIDE DEF x
<1> QED
  BY <1>3, <1>4, <1>5, RequestMoves

LEMMA SignedDoes ==
  ASSUME ConsType, NEW r \in Requests, NEW id \in UserIDs, Signed(r, id)
  PROVE  /\ request' \in [Requests -> RequestState] /\ \A q \in Requests \ {r} : request'[q] = request[q]
         /\ request'[r].pc = IF request[r].kind = "create" THEN "trader" ELSE "company"
         /\ request'[r].kind = request[r].kind /\ request'[r].subject = request[r].subject
         /\ request'[r].id = id /\ request'[r].case = request[r].case
<1> DEFINE pc == IF request[r].kind = "create" THEN "trader" ELSE "company"
           x == [[request[r] EXCEPT !.id = id] EXCEPT !.pc = pc]
<1>1. request \in [Requests -> RequestState] /\ request[r] \in RequestState
  BY DEF ConsType
<1>2. [request[r] EXCEPT !.id = id] \in RequestState
  BY <1>1, RequestFields
<1>3. x \in RequestState
  BY <1>2, RequestFields DEF Stages
<1>4. x.pc = pc /\ x.kind = request[r].kind /\ x.subject = request[r].subject /\ x.id = id /\ x.case = request[r].case
  BY <1>1 DEF RequestState
<1>5. request' = [request EXCEPT ![r] = x]
  BY <1>1 DEF Signed
<1> HIDE DEF x
<1> QED
  BY <1>3, <1>4, <1>5, RequestMoves

LEMMA CompanyAtIs ==
  ASSUME ConsType, ProfilesAgree, NEW h
  PROVE  /\ CompanyAt(h) \in Companies \cup {NoCompany}
         /\ CompanyAt(h) # NoCompany =>
              h # NoHandle /\ CompanyAt(h) \in Companies /\ company[CompanyAt(h)].handle = h /\ h \in named[CompanyAt(h)]
         /\ \A k \in Companies : h # NoHandle /\ company[k].handle = h => CompanyAt(h) = k
<1>1. CASE h # NoHandle /\ \E k \in Companies : company[k].handle = h
  <2>1. CompanyAt(h) \in Companies /\ company[CompanyAt(h)].handle = h
    BY <1>1 DEF CompanyAt
  <2> QED
    BY <1>1, <2>1, ProfilesAssumption DEF ProfilesAgree
<1>2. CASE ~(h # NoHandle /\ \E k \in Companies : company[k].handle = h)
  BY <1>2 DEF CompanyAt
<1> QED
  BY <1>1, <1>2

LEMMA NoRowIs ==
  ASSUME ConsType, NEW c \in Cases
  PROVE  Committed(c) <=> consignment[c].trader # NoCompany \/ consignment[c].cha # NoCompany
  BY DEF ConsType, Committed, NoRow

\* The next case is one that has not been drawn.
LEMMA NextCase ==
  ASSUME ConsType, CasesAreDrawn
  PROVE  LET c == Cardinality(cased) + 1
         IN /\ Cardinality(cased) \in Nat /\ c \notin cased
            /\ cased \cup {c} = 1 .. Cardinality(cased \cup {c})
<1>1. IsFiniteSet(cased)
  BY CasesAssumption, FS_Subset DEF ConsType
<1>2. Cardinality(cased) \in Nat
  BY <1>1, FS_CardinalityType
<1>3. Cardinality(cased) + 1 \notin cased
  BY <1>2 DEF CasesAreDrawn
<1>4. Cardinality(cased \cup {Cardinality(cased) + 1}) = Cardinality(cased) + 1
  BY <1>1, <1>3, FS_AddElement
<1>5. cased \cup {Cardinality(cased) + 1} = 1 .. Cardinality(cased) + 1
  BY <1>2 DEF CasesAreDrawn
<1> QED
  BY <1>2, <1>3, <1>4, <1>5

----------------------------------------------------------------------------
(* What has been recorded stays so.                                        *)

Stays ==
  /\ cased \subseteq cased'
  /\ \A k \in Companies : named[k] \subseteq named'[k]
  /\ \A s \in Subjects : user[s].id # NoUser => user'[s] = user[s]
  /\ \A c \in cased : Committed(c) => Committed(c)'

LEMMA RequestKeeps ==
  ASSUME ConsType, Stays, NEW r \in Requests, request'[r] = request[r], RequestKnows(r)
  PROVE  RequestKnows(r)'
<1> DEFINE q == request[r]
<1>1. q.pc \in {"start", "vars", "start flow"} => q.case \in cased
  BY CasesAssumption DEF RequestKnows, Working, Stages, Committed, ConsType, RequestState
<1>2. q.pc \in {"start", "vars", "start flow"} => Committed(q.case)'
  BY <1>1 DEF RequestKnows, Stays
<1>3. q.pc = "reread user" => user'[q.subject].id # NoUser
  BY DEF RequestKnows, Stays, Working, Stages
<1>4. q.id # NoUser => q.subject \in Subjects /\ q.id = user'[q.subject].id
  BY DEF RequestKnows, Stays
<1>5. q.pc \in {"ensure case", "insert"} => q.company \in Companies /\ q.handle \in named'[q.company]
  BY DEF RequestKnows, Stays
<1> QED
  BY <1>2, <1>3, <1>4, <1>5 DEF RequestKnows, Stays

LEMMA SelectionKeeps ==
  ASSUME ConsType, Stays, NEW c \in Cases, selection'[c] = selection[c], SelectionKnows(c)
  PROVE  SelectionKnows(c)'
  BY DEF SelectionKnows, Stays

\* While the cases' rows stay as they are, so does what is said of them.
LEMMA CasesStay ==
  ASSUME ConsInv, Stays, UNCHANGED consignmentVars, \A r \in Requests : RequestKnows(r)'
  PROVE  /\ CasesAreDrawn' /\ CommittedWhole' /\ ColumnsMatchParties'
         /\ \A c \in cased' : Committed(c)' => consignment'[c].trader # NoCompany
<1>1. UNCHANGED <<cased, consignment, createdBy, flows, party>>
  BY DEF consignmentVars
<1>2. cased \subseteq Cases
  BY DEF ConsInv, ConsType
<1>3. \A c \in Cases : Committed(c)' <=> Committed(c)
  BY <1>1 DEF Committed
<1>4. CommittedWhole'
  <2>1. ASSUME NEW c \in cased
        PROVE  /\ Committed(c)' <=> party'[c]["trader"] # NoHandle
               /\ createdBy'[c] # NoUser => Committed(c)'
               /\ flows'[c] # <<>> => Committed(c)'
    BY <1>1, <1>2, <1>3, <2>1 DEF ConsInv, CommittedWhole
  <2>2. ASSUME NEW c \in cased
        PROVE  Committed(c)' <=> \E s \in Subjects : createdBy'[c] \in {user'[s].id} \ {NoUser}
    <3>1. CASE Committed(c)
      <4>1. PICK s \in Subjects : createdBy[c] \in {user[s].id} \ {NoUser}
        BY <2>2, <3>1 DEF ConsInv, CommittedWhole
      <4>2. user'[s] = user[s]
        BY <4>1 DEF Stays
      <4> QED
        BY <1>1, <1>2, <1>3, <2>2, <3>1, <4>1, <4>2
    <3>2. CASE ~Committed(c)
      <4>1. createdBy[c] = NoUser
        BY <2>2, <3>2 DEF ConsInv, CommittedWhole
      <4> QED
        BY <1>1, <1>2, <1>3, <2>2, <3>2, <4>1
    <3> QED
      BY <3>1, <3>2
  <2>3. \A c \in Cases \ cased' : ~Committed(c)' /\ createdBy'[c] = NoUser /\ flows'[c] = <<>>
    BY <1>1, <1>3 DEF ConsInv, CommittedWhole
  <2>4. \A r \in Requests : request'[r].id # NoUser => request'[r].id = user'[request'[r].subject].id
    BY DEF RequestKnows
  <2> QED
    BY <1>1, <2>1, <2>2, <2>3, <2>4 DEF CommittedWhole
<1>5. ColumnsMatchParties'
  <2> SUFFICES ASSUME NEW c \in cased
               PROVE  /\ Committed(c)' => party[c]["trader"] \in named'[consignment[c].trader]
                      /\ consignment[c].cha = NoCompany <=> party[c]["cha"] = NoHandle
                      /\ consignment[c].cha # NoCompany => party[c]["cha"] \in named'[consignment[c].cha]
    BY <1>1 DEF ColumnsMatchParties
  <2>1. /\ Committed(c) => party[c]["trader"] \in named[consignment[c].trader] /\ consignment[c].trader \in Companies
        /\ consignment[c].cha # NoCompany => party[c]["cha"] \in named[consignment[c].cha] /\ consignment[c].cha \in Companies
        /\ consignment[c].cha = NoCompany <=> party[c]["cha"] = NoHandle
    BY <1>2 DEF ConsInv, ConsType, ColumnsMatchParties
  <2> QED
    BY <1>2, <1>3, <2>1 DEF Stays
<1>6. CasesAreDrawn' /\ \A c \in cased' : Committed(c)' => consignment'[c].trader # NoCompany
  BY <1>1, <1>2, <1>3 DEF ConsInv, CasesAreDrawn
<1> QED
  BY <1>4, <1>5, <1>6

\* A step of a request that only reads.
LEMMA QuietKeeps ==
  ASSUME ConsInv, NEW r \in Requests, request' \in [Requests -> RequestState],
         \A q \in Requests \ {r} : request'[q] = request[q],
         RequestKnows(r)',
         UNCHANGED <<consignmentVars, selection, selections, profileVars>>, failures' \in 0 .. MaxFailures
  PROVE  ConsInv'
<1>1. UNCHANGED <<cased, consignment, createdBy, flows, party, selection, selections, company, named, editing, edits,
                  user, token, moves>>
  BY DEF consignmentVars, profileVars, companyVars, userVars
<1>2. Stays
  BY <1>1 DEF Stays, Committed
<1>3. ConsType'
  BY <1>1 DEF ConsInv, ConsType, PartyType, ProfilesType
<1>4. ProfilesAgree'
  BY <1>1 DEF ConsInv, ProfilesAgree, Exists
<1>5. \A q \in Requests : RequestKnows(q)'
  BY <1>2, RequestKeeps DEF ConsInv
<1>6. \A c \in Cases : SelectionKnows(c)'
  BY <1>1, <1>2, SelectionKeeps DEF ConsInv
<1> QED
  BY <1>2, <1>3, <1>4, <1>5, <1>6, CasesStay DEF ConsInv

LEMMA DoneKnows ==
  ASSUME ConsInv, NEW r \in Requests, request'[r].pc \in {"done", "failed"},
         request'[r].id = request[r].id, request'[r].subject = request[r].subject, UNCHANGED user
  PROVE  RequestKnows(r)'
<1>1. request'[r].id # NoUser => request'[r].subject \in Subjects /\ request'[r].id = user'[request'[r].subject].id
  BY DEF ConsInv, RequestKnows
<1> QED
  BY <1>1 DEF RequestKnows, Working, Stages

LEMMA RespondKeeps ==
  ASSUME ConsInv, NEW r \in Requests, NEW status \in Statuses, Respond(r, status), Quiet
  PROVE  ConsInv'
<1>1. /\ request' \in [Requests -> RequestState] /\ \A q \in Requests \ {r} : request'[q] = request[q]
      /\ request'[r].pc = "done" /\ request'[r].subject = request[r].subject /\ request'[r].id = request[r].id
  BY RespondDoes DEF ConsInv
<1>2. UNCHANGED user /\ failures' \in 0 .. MaxFailures /\ UNCHANGED <<consignmentVars, selection, selections, profileVars>>
  BY DEF Quiet, profileVars, userVars, ConsInv, ConsType
<1>3. RequestKnows(r)'
  BY <1>1, <1>2, DoneKnows
<1> QED
  BY <1>1, <1>2, <1>3, QuietKeeps

\* What every step of a request that is under way can count on.
LEMMA AtWork ==
  ASSUME ConsInv, NEW r \in Requests, request[r].pc \in Working
  PROVE  /\ request[r] \in RequestState /\ request[r].subject \in Subjects
         /\ request[r].kind \in {"create", "get", "flow"}
         /\ request[r].case = NoCase \/ request[r].case \in cased
         /\ request[r].id # NoUser => request[r].id = user[request[r].subject].id
         /\ RequestKnows(r)
  BY DEF ConsInv, ConsType, RequestKnows

LEMMA SignInKeeps ==
  ASSUME ConsInv, NEW r \in Requests, SignIn(r) \/ RereadUser(r)
  PROVE  ConsInv'
<1> DEFINE q == request[r]
<1>1. q.pc \in {"sign in", "reread user"} /\ Quiet
  BY DEF SignIn, RereadUser
<1>2. /\ q \in RequestState /\ q.subject \in Subjects /\ q.kind \in {"create", "get", "flow"}
      /\ q.case = NoCase \/ q.case \in cased
      /\ q.kind \in {"get", "flow"} => q.case \in cased
      /\ q.pc = "reread user" => user[q.subject].id # NoUser
      /\ user[q.subject].id \in UserIDs \cup {NoUser}
      /\ q.id # NoUser => q.id = user[q.subject].id
  BY <1>1, AtWork DEF Working, Stages, RequestKnows, ConsInv, ConsType, ProfilesType
<1>3. UNCHANGED <<user, cased>> /\ failures' \in 0 .. MaxFailures
      /\ UNCHANGED <<consignmentVars, selection, selections, profileVars>>
  BY <1>1 DEF Quiet, profileVars, userVars, ConsInv, ConsType, consignmentVars
<1>4. CASE user[q.subject].id # NoUser /\ Signed(r, user[q.subject].id)
  <2>1. /\ request' \in [Requests -> RequestState] /\ \A p \in Requests \ {r} : request'[p] = request[p]
        /\ request'[r].pc = (IF q.kind = "create" THEN "trader" ELSE "company")
        /\ request'[r].kind = q.kind /\ request'[r].subject = q.subject
        /\ request'[r].id = user[q.subject].id /\ request'[r].case = q.case
    BY <1>2, <1>4, SignedDoes DEF ConsInv
  <2>2. RequestKnows(r)'
    BY <1>2, <1>3, <1>4, <2>1 DEF RequestKnows, Working, Stages
  <2> QED
    BY <1>3, <2>1, <2>2, QuietKeeps
<1>5. CASE Go(r, "insert user")
  <2>1. /\ request' \in [Requests -> RequestState] /\ \A p \in Requests \ {r} : request'[p] = request[p]
        /\ request'[r].pc = "insert user" /\ request'[r].kind = q.kind /\ request'[r].subject = q.subject
        /\ request'[r].id = q.id /\ request'[r].case = q.case
    BY <1>5, GoDoes DEF ConsInv, Stages
  <2>2. RequestKnows(r)'
    BY <1>2, <1>3, <2>1 DEF RequestKnows, Working, Stages
  <2> QED
    BY <1>3, <2>1, <2>2, QuietKeeps
<1> QED
  BY <1>1, <1>2, <1>4, <1>5 DEF SignIn, RereadUser

LEMMA ArrivesKeeps ==
  ASSUME ConsInv, NEW r \in Requests, NEW kind \in {"create", "get", "flow"}, NEW s \in Subjects,
         NEW c \in cased \cup {NoCase}, NEW f \in Flows \cup {ExportFlow},
         kind = "create" \/ c # NoCase, RequestArrives(r, kind, s, c, f)
  PROVE  ConsInv'
<1> DEFINE a == [[NoRequest EXCEPT !.pc = "sign in"] EXCEPT !.kind = kind]
           bs == [a EXCEPT !.subject = s]
           b == [bs EXCEPT !.ou = token[s]]
           xc == [b EXCEPT !.case = c]
           x == [xc EXCEPT !.flow = f]
<1>1. token[s] \in Handles /\ c \in Cases \cup {NoCase} /\ request \in [Requests -> RequestState]
  BY DEF ConsInv, ConsType, ProfilesType
<1>2. a \in RequestState /\ a.pc = "sign in" /\ a.kind = kind /\ a.id = NoUser
  <2>1. NoRequest \in RequestState /\ NoRequest.id = NoUser
    BY DEF NoRequest, RequestState, Stages
  <2>2. [NoRequest EXCEPT !.pc = "sign in"] \in RequestState
    BY <2>1, RequestFields DEF Stages
  <2>3. a \in RequestState
    BY <2>2, RequestFields
  <2>4. a.pc = "sign in" /\ a.kind = kind /\ a.id = NoUser
    BY <2>1 DEF RequestState
  <2> QED
    BY <2>3, <2>4
<1>3. request' = [request EXCEPT ![r] = x]
  BY DEF RequestArrives
<1> HIDE DEF a
<1>4. b \in RequestState /\ b.pc = "sign in" /\ b.kind = kind /\ b.id = NoUser /\ b.subject = s
  <2>1. bs \in RequestState /\ bs.subject = s
    <3>1. bs \in RequestState
      BY <1>2, RequestFields
    <3>2. bs.subject = s
      BY <1>2 DEF RequestState
    <3> QED
      BY <3>1, <3>2
  <2>2. bs.pc = a.pc /\ bs.kind = a.kind /\ bs.id = a.id
    <3>1. a \in RequestState
      BY <1>2
    <3> QED
      BY <3>1 DEF RequestState
  <2> HIDE DEF bs
  <2>3. b \in RequestState
    BY <1>1, <2>1, RequestFields
  <2>4. b.pc = bs.pc /\ b.kind = bs.kind /\ b.id = bs.id /\ b.subject = bs.subject
    BY <2>1 DEF RequestState
  <2> QED
    BY <1>2, <2>1, <2>2, <2>3, <2>4
<1> HIDE DEF b
<1>5. x \in RequestState /\ x.pc = "sign in" /\ x.kind = kind /\ x.id = NoUser /\ x.subject = s /\ x.case = c
  <2>1. xc \in RequestState /\ xc.case = c
    <3>1. xc \in RequestState
      BY <1>1, <1>4, RequestFields
    <3>2. xc.case = c
      BY <1>4 DEF RequestState
    <3> QED
      BY <3>1, <3>2
  <2>2. xc.pc = b.pc /\ xc.kind = b.kind /\ xc.id = b.id /\ xc.subject = b.subject
    <3>1. b \in RequestState
      BY <1>4
    <3> QED
      BY <3>1 DEF RequestState
  <2> HIDE DEF xc
  <2>3. x \in RequestState
    BY <2>1, RequestFields
  <2>4. x.pc = xc.pc /\ x.kind = xc.kind /\ x.id = xc.id /\ x.subject = xc.subject /\ x.case = xc.case
    BY <2>1 DEF RequestState
  <2> QED
    BY <1>4, <2>1, <2>2, <2>3, <2>4
<1> HIDE DEF x
<1>6. /\ request' \in [Requests -> RequestState] /\ request'[r] = x
      /\ \A q \in Requests \ {r} : request'[q] = request[q]
  BY <1>1, <1>3, <1>5
<1>7. /\ UNCHANGED <<consignmentVars, selection, selections, profileVars>> /\ UNCHANGED cased
      /\ failures' \in 0 .. MaxFailures
  BY DEF RequestArrives, Quiet, ConsInv, ConsType, consignmentVars
<1>8. RequestKnows(r)'
  BY <1>5, <1>6, <1>7 DEF RequestKnows, Working, Stages
<1> QED
  BY <1>6, <1>7, <1>8, QuietKeeps

LEMMA CreateUserKeeps ==
  ASSUME ConsInv, NEW r \in Requests, CreateUser(r)
  PROVE  ConsInv'
<1> DEFINE q == request[r]
           s == q.subject
<1>1. /\ q.pc = "insert user" /\ InsertUser(s, r, q.ou)
      /\ IF user[s].id = NoUser THEN Signed(r, r) ELSE Go(r, "reread user")
      /\ UNCHANGED <<consignmentVars, selection, selections, failures, companyVars, token, moves>>
  BY DEF CreateUser
<1>2. /\ q \in RequestState /\ s \in Subjects /\ q.kind \in {"create", "get", "flow"}
      /\ q.case = NoCase \/ q.case \in cased
      /\ q.kind \in {"get", "flow"} => q.case \in cased
      /\ q.id # NoUser => q.id = user[s].id
      /\ q.ou \in Handles \cup {NoHandle}
  <2>1. /\ q \in RequestState /\ s \in Subjects /\ q.kind \in {"create", "get", "flow"}
        /\ q.case = NoCase \/ q.case \in cased
        /\ q.id # NoUser => q.id = user[s].id
        /\ RequestKnows(r)
    BY <1>1, AtWork DEF Working, Stages
  <2>2. q.kind \in {"get", "flow"} => q.case \in cased
    BY <1>1, <2>1 DEF RequestKnows, Working, Stages
  <2>3. q.ou \in Handles \cup {NoHandle}
    BY <2>1 DEF RequestState
  <2> QED
    BY <2>1, <2>2, <2>3
<1>3. user \in [Subjects -> [id : UserIDs \cup {NoUser}, ou : Handles \cup {NoHandle}]] /\ r \in UserIDs
  BY RequestsAssumption DEF ConsInv, ConsType, ProfilesType
<1>4. /\ user' \in [Subjects -> [id : UserIDs \cup {NoUser}, ou : Handles \cup {NoHandle}]]
      /\ user'[s].id # NoUser
      /\ \A t \in Subjects : user[t].id # NoUser => user'[t] = user[t]
      /\ user[s].id = NoUser => user'[s].id = r
  BY <1>1, <1>2, <1>3, ProfilesAssumption DEF InsertUser
<1>5. /\ request' \in [Requests -> RequestState] /\ \A p \in Requests \ {r} : request'[p] = request[p]
      /\ RequestKnows(r)'
  <2>1. UNCHANGED cased
    BY <1>1 DEF consignmentVars
  <2>2. CASE user[s].id = NoUser
    <3>1. /\ request' \in [Requests -> RequestState] /\ \A p \in Requests \ {r} : request'[p] = request[p]
          /\ request'[r].pc = (IF q.kind = "create" THEN "trader" ELSE "company")
          /\ request'[r].kind = q.kind /\ request'[r].subject = s
          /\ request'[r].id = r /\ request'[r].case = q.case
      BY <1>1, <1>3, <2>2, SignedDoes DEF ConsInv
    <3>2. RequestKnows(r)'
      BY <1>2, <1>4, <2>1, <2>2, <3>1 DEF RequestKnows, Working, Stages
    <3> QED
      BY <3>1, <3>2
  <2>3. CASE user[s].id # NoUser
    <3>1. /\ request' \in [Requests -> RequestState] /\ \A p \in Requests \ {r} : request'[p] = request[p]
          /\ request'[r].pc = "reread user" /\ request'[r].kind = q.kind /\ request'[r].subject = s
          /\ request'[r].id = q.id /\ request'[r].case = q.case
      BY <1>1, <2>3, GoDoes DEF ConsInv, Stages
    <3>2. RequestKnows(r)'
      BY <1>2, <1>4, <2>1, <2>3, <3>1 DEF RequestKnows, Working, Stages
    <3> QED
      BY <3>1, <3>2
  <2> QED
    BY <2>2, <2>3
<1>6. UNCHANGED <<cased, consignment, createdBy, flows, party, selection, selections, failures, company, named, editing,
                  edits, token, moves>>
  BY <1>1 DEF consignmentVars, companyVars
<1>7. Stays
  BY <1>4, <1>6 DEF Stays, Committed
<1>8. ConsType'
  BY <1>4, <1>5, <1>6 DEF ConsInv, ConsType, PartyType, ProfilesType
<1>9. ProfilesAgree'
  BY <1>6 DEF ConsInv, ProfilesAgree, Exists
<1>10. \A p \in Requests : RequestKnows(p)'
  BY <1>5, <1>7, RequestKeeps DEF ConsInv
<1>11. \A c \in Cases : SelectionKnows(c)'
  BY <1>6, <1>7, SelectionKeeps DEF ConsInv
<1> QED
  BY <1>1, <1>7, <1>8, <1>9, <1>10, <1>11, CasesStay DEF ConsInv

\* Reads the company of the user's record, or of its token.
LEMMA FindKeeps ==
  ASSUME ConsInv, NEW r \in Requests, FindTrader(r) \/ FindCompany(r)
  PROVE  ConsInv'
<1> DEFINE q == request[r]
<1>1. q.pc \in {"trader", "company"} /\ Quiet
  BY DEF FindTrader, FindCompany
<1>2. /\ q \in RequestState /\ q.subject \in Subjects /\ q.kind \in {"create", "get", "flow"}
      /\ q.case = NoCase \/ q.case \in cased
      /\ q.kind \in {"get", "flow"} => q.case \in cased
      /\ q.id # NoUser /\ q.id = user[q.subject].id
      /\ q.pc = "company" => q.kind # "create"
      /\ user[q.subject].ou \in Handles \cup {NoHandle}
  BY <1>1, AtWork DEF Working, Stages, RequestKnows, ConsInv, ConsType, ProfilesType
<1>3. /\ UNCHANGED <<user, cased, named>> /\ failures' \in 0 .. MaxFailures
      /\ UNCHANGED <<consignmentVars, selection, selections, profileVars>>
  BY <1>1 DEF Quiet, profileVars, companyVars, userVars, ConsInv, ConsType, consignmentVars
<1>4. CASE \E status \in Statuses : Respond(r, status)
  BY <1>1, <1>4, RespondKeeps
<1>5. ASSUME NEW ou \in Handles \cup {NoHandle}, CompanyAt(ou) # NoCompany, q.pc = "trader",
             request' = [request EXCEPT ![r].pc = "ensure case", ![r].company = CompanyAt(ou), ![r].handle = ou]
      PROVE  ConsInv'
  <2> DEFINE k == CompanyAt(ou)
             x == [[[q EXCEPT !.pc = "ensure case"] EXCEPT !.company = k] EXCEPT !.handle = ou]
  <2>1. k \in Companies /\ ou \in named[k]
    BY <1>5, CompanyAtIs DEF ConsInv
  <2>2. request' = [request EXCEPT ![r] = x]
    BY <1>5 DEF ConsInv, ConsType
  <2> HIDE DEF k
  <2>3. [q EXCEPT !.pc = "ensure case"] \in RequestState
    BY <1>2, RequestFields DEF Stages
  <2>4. [[q EXCEPT !.pc = "ensure case"] EXCEPT !.company = k] \in RequestState
    BY <2>1, <2>3, RequestFields
  <2>5. x \in RequestState
    BY <2>4, RequestFields
  <2>6. /\ x.pc = "ensure case" /\ x.kind = q.kind /\ x.subject = q.subject /\ x.id = q.id /\ x.case = q.case
        /\ x.company = k /\ x.handle = ou
    BY <1>2 DEF RequestState
  <2> HIDE DEF x
  <2>7. /\ request' \in [Requests -> RequestState] /\ request'[r] = x
        /\ \A p \in Requests \ {r} : request'[p] = request[p]
    BY <2>2, <2>5, RequestMoves DEF ConsInv
  <2>8. RequestKnows(r)'
    BY <1>2, <1>3, <2>1, <2>6, <2>7 DEF RequestKnows, Working, Stages
  <2> QED
    BY <1>3, <2>7, <2>8, QuietKeeps
<1>6. ASSUME NEW k \in Companies, q.pc = "company", request' = [request EXCEPT ![r].pc = "fetch", ![r].company = k]
      PROVE  ConsInv'
  <2> DEFINE x == [[q EXCEPT !.pc = "fetch"] EXCEPT !.company = k]
  <2>1. request' = [request EXCEPT ![r] = x]
    BY <1>6 DEF ConsInv, ConsType
  <2>2. [q EXCEPT !.pc = "fetch"] \in RequestState
    BY <1>2, RequestFields DEF Stages
  <2>3. x \in RequestState
    BY <2>2, RequestFields
  <2>4. x.pc = "fetch" /\ x.kind = q.kind /\ x.subject = q.subject /\ x.id = q.id /\ x.case = q.case
    BY <1>2 DEF RequestState
  <2> HIDE DEF x
  <2>5. /\ request' \in [Requests -> RequestState] /\ request'[r] = x
        /\ \A p \in Requests \ {r} : request'[p] = request[p]
    BY <2>1, <2>3, RequestMoves DEF ConsInv
  <2>6. RequestKnows(r)'
    BY <1>2, <1>3, <1>6, <2>4, <2>5 DEF RequestKnows, Working, Stages
  <2> QED
    BY <1>3, <2>5, <2>6, QuietKeeps
<1>7. CASE FindTrader(r)
  <2>1. /\ q.pc = "trader"
        /\ \/ \E status \in Statuses : Respond(r, status)
           \/ /\ CompanyAt(user[q.subject].ou) # NoCompany
              /\ request' = [request EXCEPT ![r].pc = "ensure case", ![r].company = CompanyAt(user[q.subject].ou),
                                            ![r].handle = user[q.subject].ou]
    <3>1. CASE "trader" \notin Held(r)
      <4>1. q.pc = "trader" /\ Respond(r, 403)
        BY <1>7, <3>1 DEF FindTrader
      <4>2. 403 \in Statuses
        BY DEF Statuses
      <4>3. \E status \in Statuses : Respond(r, status)
        BY <4>1, <4>2
      <4> QED
        BY <4>1, <4>3
    <3>2. CASE "trader" \in Held(r) /\ CompanyAt(user[q.subject].ou) = NoCompany
      BY <1>7, <3>2 DEF FindTrader, Statuses
    <3>3. CASE "trader" \in Held(r) /\ CompanyAt(user[q.subject].ou) # NoCompany
      BY <1>7, <3>3 DEF FindTrader
    <3> QED
      BY <3>1, <3>2, <3>3
  <2> QED
    BY <1>2, <1>4, <1>5, <2>1
<1>8. CASE FindCompany(r)
  <2>1. /\ q.pc = "company"
        /\ \/ \E status \in Statuses : Respond(r, status)
           \/ /\ CompanyAt(q.ou) # NoCompany
              /\ request' = [request EXCEPT ![r].pc = "fetch", ![r].company = CompanyAt(q.ou)]
    BY <1>8 DEF FindCompany, Statuses
  <2>2. CompanyAt(q.ou) # NoCompany => CompanyAt(q.ou) \in Companies
    BY CompanyAtIs DEF ConsInv
  <2> QED
    BY <1>4, <1>6, <2>1, <2>2
<1> QED
  BY <1>7, <1>8

LEMMA EnsureCaseKeeps ==
  ASSUME ConsInv, NEW r \in Requests, EnsureNewCase(r)
  PROVE  ConsInv'
<1> DEFINE q == request[r]
           c == Cardinality(cased) + 1
           x == [[q EXCEPT !.pc = "insert"] EXCEPT !.case = c]
<1>1. /\ q.pc = "ensure case" /\ c \in Cases /\ cased' = cased \cup {c}
      /\ request' = [request EXCEPT ![r].pc = "insert", ![r].case = c]
      /\ UNCHANGED <<consignment, createdBy, flows, party, selection, selections, failures, profileVars>>
  BY DEF EnsureNewCase
<1>2. /\ q \in RequestState /\ q.subject \in Subjects /\ q.kind \in {"create", "get", "flow"}
      /\ q.id # NoUser /\ q.id = user[q.subject].id
      /\ q.company \in Companies /\ q.handle \in named[q.company]
      /\ q.kind \in {"get", "flow"} => q.case \in cased
  <2>1. RequestKnows(r) /\ q \in RequestState /\ q.subject \in Subjects /\ q.kind \in {"create", "get", "flow"}
    BY <1>1, AtWork DEF Working, Stages
  <2> QED
    BY <1>1, <2>1 DEF RequestKnows, Working, Stages
<1>3. c \notin cased /\ cased' = 1 .. Cardinality(cased')
  BY <1>1, NextCase DEF ConsInv
<1>4. request' = [request EXCEPT ![r] = x]
  BY <1>1 DEF ConsInv, ConsType
<1> HIDE DEF c
<1>5. x \in RequestState
  <2>1. [q EXCEPT !.pc = "insert"] \in RequestState
    BY <1>2, RequestFields DEF Stages
  <2> QED
    BY <1>1, <2>1, RequestFields
<1>6. /\ x.pc = "insert" /\ x.kind = q.kind /\ x.subject = q.subject /\ x.id = q.id /\ x.case = c
      /\ x.company = q.company /\ x.handle = q.handle
  BY <1>2 DEF RequestState
<1> HIDE DEF x
<1>7. /\ request' \in [Requests -> RequestState] /\ request'[r] = x /\ \A p \in Requests \ {r} : request'[p] = request[p]
  BY <1>4, <1>5, RequestMoves DEF ConsInv
<1>8. UNCHANGED <<consignment, createdBy, flows, party, selection, selections, failures, company, named, editing,
                  edits, user, token, moves>>
  BY <1>1 DEF profileVars, companyVars, userVars
<1>9. RequestKnows(r)'
  <2>1. /\ request'[r].pc = "insert" /\ request'[r].subject = q.subject /\ request'[r].case = c /\ c \in cased'
        /\ request'[r].id = q.id /\ request'[r].company = q.company /\ request'[r].handle = q.handle
    BY <1>1, <1>6, <1>7
  <2>2. request'[r].kind \in {"create", "get", "flow"}
    BY <1>2, <1>6, <1>7
  <2>3. named' = named /\ user' = user
    BY <1>8
  <2> QED
    BY <1>2, <2>1, <2>2, <2>3 DEF RequestKnows, Working, Stages
<1>10. Stays
  BY <1>1, <1>8 DEF Stays, Committed
<1>11. \A p \in Requests : RequestKnows(p)'
  BY <1>7, <1>9, <1>10, RequestKeeps DEF ConsInv
<1>12. \A d \in Cases : SelectionKnows(d)'
  BY <1>8, <1>10, SelectionKeeps DEF ConsInv
<1>13. ConsType' /\ ProfilesAgree'
  BY <1>1, <1>7, <1>8 DEF ConsInv, ConsType, PartyType, ProfilesType, ProfilesAgree, Exists
<1>14. CasesAreDrawn'
  BY <1>1, <1>3, <1>8 DEF ConsInv, CasesAreDrawn
<1>15. party[c]["trader"] = NoHandle /\ party[c]["cha"] = NoHandle
  <2>1. party[c] = NoParties[c]
    BY <1>1, <1>3 DEF ConsInv, CasesAreDrawn
  <2>2. NoParties[c] = [role \in Roles |-> NoHandle]
    BY <1>1 DEF NoParties
  <2> QED
    BY <2>1, <2>2 DEF Roles
<1>16. ~Committed(c) /\ createdBy[c] = NoUser /\ flows[c] = <<>> /\ consignment[c].cha = NoCompany
  <2>1. ~Committed(c) /\ createdBy[c] = NoUser /\ flows[c] = <<>>
    BY <1>1, <1>3 DEF ConsInv, CommittedWhole
  <2> QED
    BY <2>1 DEF Committed, NoRow
<1>17. CommittedWhole'
  <2>1. \A p \in Requests : request'[p].id # NoUser => request'[p].id = user'[request'[p].subject].id
    BY <1>11 DEF RequestKnows
  <2>2. \A d \in cased \cup {c} :
          /\ Committed(d) <=> party[d]["trader"] # NoHandle
          /\ Committed(d) <=> \E s \in Subjects : createdBy[d] \in {user[s].id} \ {NoUser}
          /\ createdBy[d] # NoUser => Committed(d)
          /\ flows[d] # <<>> => Committed(d)
    BY <1>15, <1>16 DEF ConsInv, CommittedWhole
  <2>3. \A d \in Cases \ (cased \cup {c}) : ~Committed(d) /\ createdBy[d] = NoUser /\ flows[d] = <<>>
    BY DEF ConsInv, CommittedWhole
  <2> QED
    BY <1>1, <1>8, <2>1, <2>2, <2>3 DEF CommittedWhole, Committed
<1>18. ColumnsMatchParties' /\ \A d \in cased' : Committed(d)' => consignment'[d].trader # NoCompany
  BY <1>1, <1>8, <1>15, <1>16 DEF ConsInv, ColumnsMatchParties, Committed
<1> QED
  BY <1>11, <1>12, <1>13, <1>14, <1>17, <1>18 DEF ConsInv

LEMMA CreateKeeps ==
  ASSUME ConsInv, NEW r \in Requests, CreateConsignment(r)
  PROVE  ConsInv'
<1> DEFINE q == request[r]
           c == q.case
           k == q.company
<1>1. /\ q.pc = "insert" /\ Go(r, "start")
      /\ consignment' = [consignment EXCEPT ![c].trader = k]
      /\ party' = [party EXCEPT ![c]["trader"] = q.handle]
      /\ createdBy' = [createdBy EXCEPT ![c] = q.id]
      /\ UNCHANGED <<cased, flows, selection, selections, failures, profileVars>>
  BY DEF CreateConsignment, Assign
<1>2. /\ q \in RequestState /\ q.subject \in Subjects /\ q.kind \in {"create", "get", "flow"}
      /\ q.id # NoUser /\ q.id = user[q.subject].id
      /\ k \in Companies /\ q.handle \in named[k] /\ c \in cased
  <2>1. RequestKnows(r) /\ q \in RequestState /\ q.subject \in Subjects /\ q.kind \in {"create", "get", "flow"}
    BY <1>1, AtWork DEF Working, Stages
  <2> QED
    BY <1>1, <2>1 DEF RequestKnows, Working, Stages
<1>3. /\ consignment \in [Cases -> [trader : Companies \cup {NoCompany}, cha : Companies \cup {NoCompany}]]
      /\ party \in [Cases -> [Roles -> Handles \cup {NoHandle}]] /\ createdBy \in [Cases -> UserIDs \cup {NoUser}]
      /\ named \in [Companies -> SUBSET Handles] /\ c \in Cases /\ q.id \in UserIDs /\ q.handle \in Handles
      /\ user \in [Subjects -> [id : UserIDs \cup {NoUser}, ou : Handles \cup {NoHandle}]]
  BY <1>2 DEF ConsInv, ConsType, PartyType, ProfilesType
<1>4. UNCHANGED <<cased, flows, selection, selections, failures, company, named, editing, edits, user, token, moves>>
  BY <1>1 DEF profileVars, companyVars, userVars
<1>5. /\ consignment' \in [Cases -> [trader : Companies \cup {NoCompany}, cha : Companies \cup {NoCompany}]]
      /\ consignment'[c].trader = k /\ consignment'[c].cha = consignment[c].cha
      /\ \A d \in Cases \ {c} : consignment'[d] = consignment[d]
  BY <1>1, <1>2, <1>3
<1>6. /\ party' \in [Cases -> [Roles -> Handles \cup {NoHandle}]]
      /\ party'[c]["trader"] = q.handle /\ party'[c]["cha"] = party[c]["cha"]
      /\ \A d \in Cases \ {c} : party'[d] = party[d]
  BY <1>1, <1>3 DEF Roles
<1>7. /\ createdBy' \in [Cases -> UserIDs \cup {NoUser}] /\ createdBy'[c] = q.id
      /\ \A d \in Cases \ {c} : createdBy'[d] = createdBy[d]
  BY <1>1, <1>2, <1>3
<1>8. consignment'[c] # NoRow /\ \A d \in Cases : Committed(d)' <=> d = c \/ Committed(d)
  <2>1. consignment'[c] # NoRow
    BY <1>2, <1>3, <1>5, ProfilesAssumption DEF NoRow
  <2> QED
    BY <1>5, <2>1 DEF Committed
<1>9. Stays
  <2>1. cased \subseteq Cases
    BY DEF ConsInv, ConsType
  <2> QED
    BY <1>4, <1>8, <2>1 DEF Stays
<1>10. /\ request' \in [Requests -> RequestState] /\ \A p \in Requests \ {r} : request'[p] = request[p]
       /\ request'[r].pc = "start" /\ request'[r].kind = q.kind /\ request'[r].subject = q.subject
       /\ request'[r].id = q.id /\ request'[r].company = k /\ request'[r].case = c
  BY <1>1, GoDoes DEF ConsInv, Stages
<1>11. RequestKnows(r)'
  <2>1. consignment'[request'[r].case] # NoRow
    BY <1>8, <1>10
  <2>2. request'[r].case \in cased' /\ request'[r].kind \in {"create", "get", "flow"}
    BY <1>2, <1>4, <1>10
  <2>3. user' = user /\ named' = named
    BY <1>4
  <2> QED
    BY <1>2, <1>10, <2>1, <2>2, <2>3 DEF RequestKnows, Committed, Working, Stages
<1>12. \A p \in Requests : RequestKnows(p)'
  BY <1>9, <1>10, <1>11, RequestKeeps DEF ConsInv
<1>13. \A d \in Cases : SelectionKnows(d)'
  BY <1>4, <1>9, SelectionKeeps DEF ConsInv
<1>14. ConsType'
  BY <1>4, <1>5, <1>6, <1>7, <1>10 DEF ConsInv, ConsType, PartyType, ProfilesType
<1>15. ProfilesAgree'
  BY <1>4 DEF ConsInv, ProfilesAgree, Exists
<1>16. CasesAreDrawn'
  BY <1>2, <1>3, <1>4, <1>6 DEF ConsInv, CasesAreDrawn
<1>17. CommittedWhole'
  <2>1. \A p \in Requests : request'[p].id # NoUser => request'[p].id = user'[request'[p].subject].id
    BY <1>12 DEF RequestKnows
  <2>2. ASSUME NEW d \in cased'
        PROVE  /\ Committed(d)' <=> party'[d]["trader"] # NoHandle
               /\ Committed(d)' <=> \E s \in Subjects : createdBy'[d] \in {user'[s].id} \ {NoUser}
               /\ createdBy'[d] # NoUser => Committed(d)'
               /\ flows'[d] # <<>> => Committed(d)'
    <3>1. CASE d = c
      <4>1. \E s \in Subjects : createdBy'[d] \in {user'[s].id} \ {NoUser}
        BY <1>2, <1>4, <1>7, <3>1
      <4>2. Committed(d)'
        BY <1>3, <1>8, <3>1
      <4> QED
        BY <1>3, <1>6, <3>1, <4>1, <4>2, PartiesAssumption
    <3>2. CASE d # c
      <4>1. d \in cased /\ d \in Cases
        BY <1>4 DEF ConsInv, ConsType
      <4>2. /\ Committed(d) <=> party[d]["trader"] # NoHandle
            /\ Committed(d) <=> \E s \in Subjects : createdBy[d] \in {user[s].id} \ {NoUser}
            /\ createdBy[d] # NoUser => Committed(d)
            /\ flows[d] # <<>> => Committed(d)
        BY <4>1 DEF ConsInv, CommittedWhole
      <4> QED
        BY <1>4, <1>6, <1>7, <1>8, <3>2, <4>1, <4>2
    <3> QED
      BY <3>1, <3>2
  <2>3. \A d \in Cases \ cased' : ~Committed(d)' /\ createdBy'[d] = NoUser /\ flows'[d] = <<>>
    BY <1>2, <1>4, <1>7, <1>8 DEF ConsInv, CommittedWhole
  <2> QED
    BY <2>1, <2>2, <2>3 DEF CommittedWhole
<1>18. ColumnsMatchParties'
  <2> SUFFICES ASSUME NEW d \in cased
               PROVE  /\ Committed(d)' => party'[d]["trader"] \in named[consignment'[d].trader]
                      /\ consignment'[d].cha = NoCompany <=> party'[d]["cha"] = NoHandle
                      /\ consignment'[d].cha # NoCompany => party'[d]["cha"] \in named[consignment'[d].cha]
    BY <1>4 DEF ColumnsMatchParties
  <2>1. d \in Cases
    BY DEF ConsInv, ConsType
  <2>2. consignment'[d].cha = consignment[d].cha /\ party'[d]["cha"] = party[d]["cha"]
    BY <1>5, <1>6, <2>1
  <2>3. Committed(d)' => party'[d]["trader"] \in named[consignment'[d].trader]
    BY <1>2, <1>5, <1>6, <1>8, <2>1 DEF ConsInv, ColumnsMatchParties
  <2> QED
    BY <2>2, <2>3 DEF ConsInv, ColumnsMatchParties
<1>19. \A d \in cased' : Committed(d)' => consignment'[d].trader # NoCompany
  BY <1>2, <1>4, <1>5, <1>8, ProfilesAssumption DEF ConsInv, ConsType
<1> QED
  BY <1>12, <1>13, <1>14, <1>15, <1>16, <1>17, <1>18, <1>19 DEF ConsInv

\* A flow is started on a consignment that is there, by StartExport or StartUserFlow.
LEMMA StartKeeps ==
  ASSUME ConsInv, NEW r \in Requests, NEW f \in Flows \cup {ExportFlow},
         request[r].case \in cased, Committed(request[r].case), request[r].company \in Companies,
         StartFlow(request[r].case, f, request[r].company),
         request' \in [Requests -> RequestState], \A q \in Requests \ {r} : request'[q] = request[q],
         RequestKnows(r)',
         UNCHANGED <<cased, consignment, createdBy, party, selection, selections, failures, profileVars>>
  PROVE  ConsInv'
<1> DEFINE c == request[r].case
           flow == [workflow |-> f, for |-> request[r].company]
<1>1. /\ flows \in [Cases -> Seq([workflow : Flows \cup {ExportFlow}, for : Companies])] /\ c \in Cases
      /\ flows' = [flows EXCEPT ![c] = Append(flows[c], flow)]
  BY DEF ConsInv, ConsType, StartFlow
<1>2. /\ flows' \in [Cases -> Seq([workflow : Flows \cup {ExportFlow}, for : Companies])]
      /\ \A d \in Cases \ {c} : flows'[d] = flows[d]
  <2>1. flow \in [workflow : Flows \cup {ExportFlow}, for : Companies]
    OBVIOUS
  <2> HIDE DEF flow
  <2> DEFINE FlowRows == [workflow : Flows \cup {ExportFlow}, for : Companies]
             fs == Append(flows[c], flow)
  <2>2. fs \in Seq([workflow : Flows \cup {ExportFlow}, for : Companies])
    <3>1. flows[c] \in Seq(FlowRows) /\ flow \in FlowRows
      BY <1>1, <2>1
    <3> HIDE DEF FlowRows
    <3>2. fs \in Seq(FlowRows)
      BY <3>1
    <3> QED
      BY <3>2 DEF FlowRows
  <2>3. flows' = [flows EXCEPT ![c] = fs]
    BY <1>1
  <2> HIDE DEF fs
  <2> QED
    BY <1>1, <2>2, <2>3
<1>3. UNCHANGED <<cased, consignment, createdBy, party, selection, selections, failures, company, named, editing,
                  edits, user, token, moves>>
  BY DEF profileVars, companyVars, userVars
<1>4. Stays
  BY <1>3 DEF Stays, Committed
<1>5. ConsType' /\ ProfilesAgree' /\ CasesAreDrawn'
  BY <1>2, <1>3 DEF ConsInv, ConsType, PartyType, ProfilesType, ProfilesAgree, Exists, CasesAreDrawn
<1>6. \A q \in Requests : RequestKnows(q)'
  BY <1>4, RequestKeeps DEF ConsInv
<1>7. \A d \in Cases : SelectionKnows(d)'
  BY <1>3, <1>4, SelectionKeeps DEF ConsInv
<1>8. CommittedWhole'
  <2>1. \A p \in Requests : request'[p].id # NoUser => request'[p].id = user'[request'[p].subject].id
    BY <1>6 DEF RequestKnows
  <2>2. \A d \in cased :
          /\ Committed(d) <=> party[d]["trader"] # NoHandle
          /\ Committed(d) <=> \E s \in Subjects : createdBy[d] \in {user[s].id} \ {NoUser}
          /\ createdBy[d] # NoUser => Committed(d)
    BY DEF ConsInv, CommittedWhole
  <2>3. \A d \in cased : flows'[d] # <<>> => Committed(d)
    BY <1>2 DEF ConsInv, ConsType, CommittedWhole
  <2>4. \A d \in Cases \ cased : ~Committed(d) /\ createdBy[d] = NoUser /\ flows'[d] = <<>>
    BY <1>2 DEF ConsInv, CommittedWhole
  <2>5. \A d : Committed(d)' <=> Committed(d)
    BY <1>3 DEF Committed
  <2> QED
    BY <1>3, <2>1, <2>2, <2>3, <2>4, <2>5 DEF CommittedWhole
<1>9. ColumnsMatchParties' /\ \A d \in cased' : Committed(d)' => consignment'[d].trader # NoCompany
  BY <1>3 DEF ConsInv, ColumnsMatchParties, Committed
<1> QED
  BY <1>5, <1>6, <1>7, <1>8, <1>9 DEF ConsInv

LEMMA StartExportKeeps ==
  ASSUME ConsInv, NEW r \in Requests, StartExport(r)
  PROVE  ConsInv'
<1> DEFINE q == request[r]
<1>1. /\ q.pc = "start" /\ StartFlow(q.case, ExportFlow, q.company) /\ Go(r, "answer")
      /\ UNCHANGED <<cased, consignment, createdBy, party, selection, selections, failures, profileVars>>
  BY DEF StartExport
<1>2. RequestKnows(r) /\ q.subject \in Subjects /\ q.kind \in {"create", "get", "flow"}
  BY <1>1, AtWork DEF Working, Stages
<1>3. /\ q.case \in cased /\ q.company \in Companies /\ Committed(q.case)
      /\ q.id # NoUser /\ q.id = user[q.subject].id
  BY <1>1, <1>2 DEF RequestKnows, Working, Stages
<1>4. /\ request' \in [Requests -> RequestState] /\ \A p \in Requests \ {r} : request'[p] = request[p]
      /\ request'[r].pc = "answer" /\ request'[r].kind = q.kind /\ request'[r].subject = q.subject
      /\ request'[r].id = q.id /\ request'[r].case = q.case
  BY <1>1, GoDoes DEF ConsInv, Stages
<1>5. UNCHANGED <<cased, user>>
  BY <1>1 DEF profileVars, userVars
<1>6. RequestKnows(r)'
  BY <1>2, <1>3, <1>4, <1>5 DEF RequestKnows, Working, Stages
<1> QED
  BY <1>1, <1>3, <1>4, <1>6, StartKeeps

LEMMA StartUserFlowKeeps ==
  ASSUME ConsInv, NEW r \in Requests, StartUserFlow(r)
  PROVE  ConsInv'
<1> DEFINE q == request[r]
<1>1. /\ q.pc = "start flow" /\ StartFlow(q.case, q.flow, q.company) /\ Respond(r, 201)
      /\ UNCHANGED <<cased, consignment, createdBy, party, selection, selections, failures, profileVars>>
  BY DEF StartUserFlow
<1>2. RequestKnows(r) /\ q \in RequestState /\ q.kind \in {"create", "get", "flow"}
  BY <1>1, AtWork DEF Working, Stages
<1>3. q.kind # "create" /\ q.case \in cased /\ q.company \in Companies /\ Committed(q.case)
  BY <1>1, <1>2 DEF RequestKnows, Working, Stages
<1>4. q.flow \in Flows \cup {ExportFlow}
  BY <1>2 DEF RequestState
<1>5. /\ request' \in [Requests -> RequestState] /\ \A p \in Requests \ {r} : request'[p] = request[p]
      /\ request'[r].pc = "done" /\ request'[r].subject = q.subject /\ request'[r].id = q.id
  <2>1. 201 \in Statuses
    BY DEF Statuses
  <2>2. ConsType
    BY DEF ConsInv
  <2> QED
    BY <1>1, <2>1, <2>2, RespondDoes
<1>6. UNCHANGED user
  BY <1>1 DEF profileVars, userVars
<1>7. RequestKnows(r)'
  BY <1>5, <1>6, DoneKnows
<1> QED
  BY <1>1, <1>3, <1>4, <1>5, <1>7, StartKeeps

LEMMA AnswerCreatedKeeps ==
  ASSUME ConsInv, NEW r \in Requests, AnswerCreated(r)
  PROVE  ConsInv'
<1>1. 201 \in Statuses
  BY DEF Statuses
<1> QED
  BY <1>1, RespondKeeps DEF AnswerCreated

LEMMA FetchKeeps ==
  ASSUME ConsInv, NEW r \in Requests, Fetch(r)
  PROVE  ConsInv'
<1> DEFINE q == request[r]
           k == TraderOf(q.case)
           x == [[q EXCEPT !.pc = "vars"] EXCEPT !.company = k]
<1>1. q.pc = "fetch" /\ Quiet
  BY DEF Fetch
<1>2. /\ q \in RequestState /\ q.subject \in Subjects /\ q.kind \in {"create", "get", "flow"} /\ RequestKnows(r)
      /\ q.id # NoUser /\ q.id = user[q.subject].id /\ q.case \in cased /\ q.kind # "create"
  <2>1. /\ q \in RequestState /\ q.subject \in Subjects /\ q.kind \in {"create", "get", "flow"} /\ RequestKnows(r)
    BY <1>1, AtWork DEF Working, Stages
  <2> QED
    BY <1>1, <2>1 DEF RequestKnows, Working, Stages
<1>3. CASE \E status \in Statuses : Respond(r, status)
  BY <1>1, <1>3, RespondKeeps
<1>4. CASE Committed(q.case) /\ request' = [request EXCEPT ![r].pc = "vars", ![r].company = k]
  <2>1. request' = [request EXCEPT ![r] = x]
    BY <1>4 DEF ConsInv, ConsType
  <2>2. k \in Companies \cup {NoCompany}
    BY CompanyAtIs DEF ConsInv, TraderOf
  <2> HIDE DEF k
  <2>3. [q EXCEPT !.pc = "vars"] \in RequestState
    BY <1>2, RequestFields DEF Stages
  <2>4. x \in RequestState
    BY <2>2, <2>3, RequestFields
  <2>5. x.pc = "vars" /\ x.kind = q.kind /\ x.subject = q.subject /\ x.id = q.id /\ x.case = q.case
    BY <1>2 DEF RequestState
  <2> HIDE DEF x
  <2>6. /\ request' \in [Requests -> RequestState] /\ request'[r] = x
        /\ \A p \in Requests \ {r} : request'[p] = request[p]
    BY <2>1, <2>4, RequestMoves DEF ConsInv
  <2>7. /\ UNCHANGED <<user, cased, consignment>> /\ failures' \in 0 .. MaxFailures
        /\ UNCHANGED <<consignmentVars, selection, selections, profileVars>>
    BY <1>1 DEF Quiet, profileVars, userVars, ConsInv, ConsType, consignmentVars
  <2>8. consignment'[request'[r].case] # NoRow
    BY <1>4, <2>5, <2>6, <2>7 DEF Committed
  <2>9. RequestKnows(r)'
    BY <1>2, <2>5, <2>6, <2>7, <2>8 DEF RequestKnows, Committed, Working, Stages
  <2> QED
    BY <2>6, <2>7, <2>9, QuietKeeps
<1>5. \/ \E status \in Statuses : Respond(r, status)
      \/ Committed(q.case) /\ request' = [request EXCEPT ![r].pc = "vars", ![r].company = k]
  <2> DEFINE owned == Owned(q.company, Held(r), q.case)
  <2>1. CASE ~Committed(q.case) \/ owned = {}
    BY <2>1 DEF Fetch, Statuses
  <2>2. CASE Committed(q.case) /\ owned # {} /\ q.kind = "get"
    BY <2>2 DEF Fetch, Statuses
  <2>3. CASE Committed(q.case) /\ owned # {} /\ q.kind = "flow" /\ q.flow \notin Startable(owned)
    BY <2>3 DEF Fetch, Statuses
  <2>4. CASE Committed(q.case) /\ owned # {} /\ q.kind = "flow" /\ q.flow \in Startable(owned)
    BY <2>4 DEF Fetch
  <2> QED
    BY <1>2, <2>1, <2>2, <2>3, <2>4
<1> QED
  BY <1>3, <1>4, <1>5

LEMMA TraderVarsKeeps ==
  ASSUME ConsInv, NEW r \in Requests, TraderVars(r)
  PROVE  ConsInv'
<1> DEFINE q == request[r]
<1>1. q.pc = "vars" /\ Quiet
  BY DEF TraderVars
<1>2. CASE Respond(r, 500)
  BY <1>1, <1>2, RespondKeeps DEF Statuses
<1>3. CASE Exists(q.company) /\ Go(r, "start flow")
  <2>1. /\ q \in RequestState /\ q.subject \in Subjects /\ q.kind \in {"create", "get", "flow"} /\ RequestKnows(r)
    BY <1>1, AtWork DEF Working, Stages
  <2>2. /\ q.id # NoUser /\ q.id = user[q.subject].id /\ q.kind # "create" /\ q.case \in cased /\ Committed(q.case)
    BY <1>1, <2>1 DEF RequestKnows, Working, Stages
  <2>3. q.company \in Companies
    BY <1>3, <2>1 DEF RequestState, Exists
  <2>4. /\ request' \in [Requests -> RequestState] /\ \A p \in Requests \ {r} : request'[p] = request[p]
        /\ request'[r].pc = "start flow" /\ request'[r].kind = q.kind /\ request'[r].subject = q.subject
        /\ request'[r].id = q.id /\ request'[r].case = q.case /\ request'[r].company = q.company
    BY <1>3, GoDoes DEF ConsInv, Stages
  <2>5. /\ UNCHANGED <<user, cased, consignment>> /\ failures' \in 0 .. MaxFailures
        /\ UNCHANGED <<consignmentVars, selection, selections, profileVars>>
    BY <1>1 DEF Quiet, profileVars, userVars, ConsInv, ConsType, consignmentVars
  <2>6. consignment'[request'[r].case] # NoRow
    BY <2>2, <2>4, <2>5 DEF Committed
  <2>7. RequestKnows(r)'
    BY <2>1, <2>2, <2>3, <2>4, <2>5, <2>6 DEF RequestKnows, Committed, Working, Stages
  <2> QED
    BY <2>4, <2>5, <2>7, QuietKeeps
<1> QED
  BY <1>2, <1>3 DEF TraderVars

LEMMA FailsKeeps ==
  ASSUME ConsInv, NEW r \in Requests, RequestFails(r)
  PROVE  ConsInv'
<1> DEFINE q == request[r]
           y == [q EXCEPT !.pc = "failed"]
           x == [y EXCEPT !.status = 500]
<1>1. /\ failures < MaxFailures /\ failures' = failures + 1
      /\ request' = [request EXCEPT ![r].pc = "failed", ![r].status = 500]
      /\ UNCHANGED <<consignmentVars, selection, selections, profileVars>>
  BY DEF RequestFails
<1>2. q \in RequestState /\ failures \in 0 .. MaxFailures
  BY DEF ConsInv, ConsType
<1>3. failures' \in 0 .. MaxFailures
  BY <1>1, <1>2, ConsBoundsAssumption
<1>4. request' = [request EXCEPT ![r] = x]
  <2> DEFINE m == [request EXCEPT ![r].pc = "failed"]
  <2>1. request \in [Requests -> RequestState]
    BY DEF ConsInv, ConsType
  <2>2. m = [request EXCEPT ![r] = y] /\ DOMAIN m = Requests /\ m[r] = y
    BY <2>1
  <2>3. request' = [m EXCEPT ![r].status = 500]
    BY <1>1
  <2> HIDE DEF y, m
  <2>4. request' = [m EXCEPT ![r] = x]
    BY <2>2, <2>3
  <2> QED
    BY <2>1, <2>2, <2>4
<1>5. y \in RequestState
  BY <1>2, StageField DEF Stages
<1>6. y.pc = "failed" /\ y.subject = q.subject /\ y.id = q.id
  BY <1>2 DEF RequestState
<1> HIDE DEF y
<1>7. x \in RequestState /\ x.pc = "failed" /\ x.subject = q.subject /\ x.id = q.id
  <2>1. 500 \in Statuses
    BY DEF Statuses
  <2>2. x \in RequestState
    BY <1>5, <2>1, StatusField
  <2>3. x.pc = y.pc /\ x.subject = y.subject /\ x.id = y.id
    BY <1>5 DEF RequestState
  <2> QED
    BY <1>6, <2>2, <2>3
<1> HIDE DEF x
<1>8. /\ request' \in [Requests -> RequestState] /\ request'[r] = x /\ \A p \in Requests \ {r} : request'[p] = request[p]
  BY <1>4, <1>7, RequestMoves DEF ConsInv
<1>9. RequestKnows(r)'
  BY <1>1, <1>7, <1>8, DoneKnows DEF profileVars, userVars
<1> QED
  BY <1>1, <1>3, <1>8, <1>9, QuietKeeps

----------------------------------------------------------------------------
(* CHA_PERSIST.                                                            *)

\* A step of the activity that changes neither the cases nor the profiles.
LEMMA SelectionStepKeeps ==
  ASSUME ConsInv, NEW c \in Cases, NEW x \in [company : Companies \cup {NoCompany}, handle : Handles \cup {NoHandle}],
         selection' = [selection EXCEPT ![c] = x],
         x # NoSelection => c \in cased /\ x.company \in Companies /\ x.handle \in named[x.company],
         selections' \in 0 .. MaxSelections, failures' \in 0 .. MaxFailures,
         UNCHANGED <<consignmentVars, request, profileVars>>
  PROVE  ConsInv'
<1>1. UNCHANGED <<cased, consignment, createdBy, flows, party, request, company, named, editing, edits, user, token, moves>>
  BY DEF consignmentVars, profileVars, companyVars, userVars
<1>2. Stays
  BY <1>1 DEF Stays, Committed
<1>3. /\ selection' \in [Cases -> [company : Companies \cup {NoCompany}, handle : Handles \cup {NoHandle}]]
      /\ selection'[c] = x /\ \A d \in Cases \ {c} : selection'[d] = selection[d]
  BY DEF ConsInv, ConsType
<1>4. ConsType' /\ ProfilesAgree'
  BY <1>1, <1>3 DEF ConsInv, ConsType, PartyType, ProfilesType, ProfilesAgree, Exists
<1>5. \A r \in Requests : RequestKnows(r)'
  BY <1>1, <1>2, RequestKeeps DEF ConsInv
<1>6. \A d \in Cases : SelectionKnows(d)'
  <2>1. SelectionKnows(c)'
    BY <1>1, <1>3 DEF SelectionKnows
  <2>2. \A d \in Cases \ {c} : SelectionKnows(d)'
    BY <1>2, <1>3, SelectionKeeps DEF ConsInv
  <2> QED
    BY <2>1, <2>2
<1> QED
  BY <1>2, <1>4, <1>5, <1>6, CasesStay DEF ConsInv

LEMMA ReadCHAKeeps ==
  ASSUME ConsInv, NEW c \in Cases, NEW k \in Companies, ReadCHA(c, k)
  PROVE  ConsInv'
<1> DEFINE x == [company |-> k, handle |-> company[k].handle]
<1>1. /\ flows[c] # <<>> /\ selections < MaxSelections /\ Exists(k)
      /\ selection' = [selection EXCEPT ![c] = x] /\ selections' = selections + 1
      /\ UNCHANGED <<consignmentVars, request, failures, profileVars>>
  BY DEF ReadCHA
<1>2. /\ company[k].handle \in Handles \cup {NoHandle} /\ company[k].handle \in named[k]
      /\ selections \in 0 .. MaxSelections /\ failures \in 0 .. MaxFailures
  BY <1>1 DEF ConsInv, ConsType, ProfilesType, CompanyRows, ProfilesAgree, Exists
<1>3. c \in cased
  BY <1>1 DEF ConsInv, CommittedWhole
<1>4. selections' \in 0 .. MaxSelections /\ failures' \in 0 .. MaxFailures
  BY <1>1, <1>2, ConsBoundsAssumption
<1>5. x \in [company : Companies \cup {NoCompany}, handle : Handles \cup {NoHandle}]
  BY <1>2
<1>6. x.company = k /\ x.handle = company[k].handle
  OBVIOUS
<1> HIDE DEF x
<1> QED
  BY <1>1, <1>2, <1>3, <1>4, <1>5, <1>6, SelectionStepKeeps

LEMMA NoSelectionIs ==
  NoSelection \in [company : Companies \cup {NoCompany}, handle : Handles \cup {NoHandle}]
  BY DEF NoSelection

LEMMA SelectionFailsKeeps ==
  ASSUME ConsInv, NEW c \in Cases, SelectionFails(c)
  PROVE  ConsInv'
<1>1. /\ failures < MaxFailures /\ failures' = failures + 1 /\ selection' = [selection EXCEPT ![c] = NoSelection]
      /\ UNCHANGED <<consignmentVars, request, selections, profileVars>>
  BY DEF SelectionFails
<1>2. failures' \in 0 .. MaxFailures /\ selections' \in 0 .. MaxSelections
  BY <1>1, ConsBoundsAssumption DEF ConsInv, ConsType
<1> QED
  BY <1>1, <1>2, NoSelectionIs, SelectionStepKeeps

LEMMA AssignCHAKeeps ==
  ASSUME ConsInv, NEW c \in Cases, AssignCHA(c)
  PROVE  ConsInv'
<1> DEFINE k == selection[c].company
           h == selection[c].handle
<1>1. /\ selection[c] # NoSelection /\ selection' = [selection EXCEPT ![c] = NoSelection]
      /\ UNCHANGED <<cased, createdBy, flows, request, selections, failures, profileVars>>
  BY DEF AssignCHA
<1>2. /\ c \in cased /\ k \in Companies /\ h \in named[k]
      /\ consignment \in [Cases -> [trader : Companies \cup {NoCompany}, cha : Companies \cup {NoCompany}]]
      /\ party \in [Cases -> [Roles -> Handles \cup {NoHandle}]]
      /\ selections \in 0 .. MaxSelections /\ failures \in 0 .. MaxFailures
  BY <1>1 DEF ConsInv, SelectionKnows, ConsType, PartyType
<1>3. h \in Handles
  BY <1>2 DEF ConsInv, ConsType, ProfilesType
<1>4. CASE ~Committed(c)
  <2>1. UNCHANGED <<consignment, party>>
    BY <1>4 DEF AssignCHA
  <2>2. /\ UNCHANGED <<consignmentVars, request, profileVars>>
        /\ selections' \in 0 .. MaxSelections /\ failures' \in 0 .. MaxFailures
    BY <1>1, <1>2, <2>1 DEF consignmentVars
  <2> QED
    BY <1>1, <2>2, NoSelectionIs, SelectionStepKeeps
<1>5. CASE Committed(c)
  <2>1. /\ consignment' = [consignment EXCEPT ![c].cha = k] /\ party' = [party EXCEPT ![c]["cha"] = h]
    BY <1>5 DEF AssignCHA, Assign
  <2>2. UNCHANGED <<cased, createdBy, flows, request, selections, failures, company, named, editing, edits, user,
                    token, moves>>
    BY <1>1 DEF profileVars, companyVars, userVars
  <2>3. /\ consignment' \in [Cases -> [trader : Companies \cup {NoCompany}, cha : Companies \cup {NoCompany}]]
        /\ consignment'[c].cha = k /\ consignment'[c].trader = consignment[c].trader
        /\ \A d \in Cases \ {c} : consignment'[d] = consignment[d]
    BY <1>2, <2>1
  <2>4. /\ party' \in [Cases -> [Roles -> Handles \cup {NoHandle}]]
        /\ party'[c]["cha"] = h /\ party'[c]["trader"] = party[c]["trader"]
        /\ \A d \in Cases \ {c} : party'[d] = party[d]
    BY <1>2, <1>3, <2>1 DEF Roles
  <2>5. consignment'[c] # NoRow /\ \A d \in Cases : Committed(d)' <=> Committed(d)
    <3>1. consignment'[c] # NoRow
      BY <1>2, <2>3, ProfilesAssumption DEF NoRow
    <3> QED
      BY <1>5, <2>3, <3>1 DEF Committed
  <2>6. cased \subseteq Cases
    BY DEF ConsInv, ConsType
  <2>7. Stays
    BY <2>2, <2>5, <2>6 DEF Stays
  <2>8. \A r \in Requests : RequestKnows(r)'
    BY <2>2, <2>7, RequestKeeps DEF ConsInv
  <2>9. /\ selection' \in [Cases -> [company : Companies \cup {NoCompany}, handle : Handles \cup {NoHandle}]]
        /\ selection'[c] = NoSelection /\ \A d \in Cases \ {c} : selection'[d] = selection[d]
    BY <1>1, NoSelectionIs DEF ConsInv, ConsType
  <2>10. \A d \in Cases : SelectionKnows(d)'
    <3>1. SelectionKnows(c)'
      BY <2>9 DEF SelectionKnows
    <3>2. \A d \in Cases \ {c} : SelectionKnows(d)'
      BY <2>7, <2>9, SelectionKeeps DEF ConsInv
    <3> QED
      BY <3>1, <3>2
  <2>11. ConsType' /\ ProfilesAgree'
    BY <2>2, <2>3, <2>4, <2>9 DEF ConsInv, ConsType, PartyType, ProfilesType, ProfilesAgree, Exists
  <2>12. CasesAreDrawn'
    BY <1>2, <2>2, <2>4 DEF ConsInv, CasesAreDrawn
  <2>13. CommittedWhole'
    <3>1. \A d \in Cases : party'[d]["trader"] = party[d]["trader"]
      BY <2>4
    <3> QED
      BY <2>2, <2>5, <2>6, <3>1 DEF ConsInv, CommittedWhole
  <2>14. ColumnsMatchParties'
    <3> SUFFICES ASSUME NEW d \in cased
                 PROVE  /\ Committed(d)' => party'[d]["trader"] \in named[consignment'[d].trader]
                        /\ consignment'[d].cha = NoCompany <=> party'[d]["cha"] = NoHandle
                        /\ consignment'[d].cha # NoCompany => party'[d]["cha"] \in named[consignment'[d].cha]
      BY <2>2 DEF ColumnsMatchParties
    <3>1. CASE d = c
      BY <1>2, <1>3, <1>5, <2>3, <2>4, <3>1, ProfilesAssumption, PartiesAssumption DEF ConsInv, ColumnsMatchParties
    <3>2. CASE d # c
      <4>1. consignment'[d] = consignment[d] /\ party'[d] = party[d] /\ (Committed(d)' <=> Committed(d))
        BY <2>3, <2>4, <2>5, <2>6, <3>2
      <4> QED
        BY <4>1 DEF ConsInv, ColumnsMatchParties
    <3> QED
      BY <3>1, <3>2
  <2>15. \A d \in cased' : Committed(d)' => consignment'[d].trader # NoCompany
    BY <1>5, <2>2, <2>3, <2>5, <2>6 DEF ConsInv
  <2> QED
    BY <2>8, <2>10, <2>11, <2>12, <2>13, <2>14, <2>15 DEF ConsInv
<1> QED
  BY <1>4, <1>5

----------------------------------------------------------------------------
(* The profiles.                                                           *)

\* An operator's change of a company, or the identity provider's of a token, leaves the
\* consignments and requests as they are.
LEMMA ProfilesStepKeeps ==
  ASSUME ConsInv, ProfilesType', ProfilesAgree', \A k \in Companies : named[k] \subseteq named'[k], UNCHANGED user,
         UNCHANGED <<consignmentVars, workVars>>
  PROVE  ConsInv'
<1>1. UNCHANGED <<cased, consignment, createdBy, flows, party, request, selection, selections, failures>>
  BY DEF consignmentVars, workVars
<1>2. Stays
  BY <1>1 DEF Stays, Committed
<1>3. ConsType'
  BY <1>1 DEF ConsInv, ConsType, PartyType
<1>4. \A r \in Requests : RequestKnows(r)'
  BY <1>1, <1>2, RequestKeeps DEF ConsInv
<1>5. \A c \in Cases : SelectionKnows(c)'
  BY <1>1, <1>2, SelectionKeeps DEF ConsInv
<1> QED
  BY <1>2, <1>3, <1>4, <1>5, CasesStay DEF ConsInv

\* A row put in place of another keeps the handles unique.
LEMMA PutKeeps ==
  ASSUME ConsType, ProfilesAgree, NEW k \in Companies, NEW row \in [handle : Handles, hasCHA : BOOLEAN], Put(k, row)
  PROVE  /\ company' \in [Companies -> CompanyRows] /\ named' \in [Companies -> SUBSET Handles]
         /\ \A i \in Companies : company'[i].handle # NoHandle => company'[i].handle \in named'[i]
         /\ \A i \in Companies : company[i].handle # NoHandle => company'[i].handle # NoHandle
         /\ \A i \in Companies : named[i] \subseteq named'[i]
         /\ \A i, j \in Companies : company'[i].handle = company'[j].handle => company'[i].handle = NoHandle \/ i = j
<1>1. /\ company \in [Companies -> CompanyRows] /\ named \in [Companies -> SUBSET Handles]
      /\ company' = [company EXCEPT ![k] = row] /\ named' = [named EXCEPT ![k] = named[k] \cup {row.handle}]
      /\ \A other \in Companies \ {k} : company[other].handle # row.handle
      /\ row \in CompanyRows /\ row.handle \in Handles /\ row.handle # NoHandle
  BY PartiesAssumption DEF ConsType, ProfilesType, Put, HandleTaken, CompanyRows
<1>2. /\ company' \in [Companies -> CompanyRows] /\ named' \in [Companies -> SUBSET Handles]
      /\ company'[k] = row /\ named'[k] = named[k] \cup {row.handle}
      /\ \A i \in Companies \ {k} : company'[i] = company[i] /\ named'[i] = named[i]
  BY <1>1
<1>3. \A i \in Companies : named[i] \subseteq named'[i]
  BY <1>2
<1>4. \A i \in Companies : company'[i].handle # NoHandle => company'[i].handle \in named'[i]
  BY <1>2 DEF ProfilesAgree
<1>5. \A i \in Companies : company[i].handle # NoHandle => company'[i].handle # NoHandle
  BY <1>1, <1>2
<1>6. \A i, j \in Companies : company'[i].handle = company'[j].handle => company'[i].handle = NoHandle \/ i = j
  BY <1>1, <1>2 DEF ProfilesAgree
<1> QED
  BY <1>2, <1>3, <1>4, <1>5, <1>6

LEMMA NotEditingIs ==
  NotEditing \in [company : Companies \cup {NoCompany}, seen : CompanyRows] /\ NotEditing.company = NoCompany
  BY DEF NotEditing, CompanyRows

LEMMA ProfilesKeeps ==
  ASSUME ConsInv, ProfilesNext, UNCHANGED <<consignmentVars, workVars>>
  PROVE  ConsInv'
<1> USE ProfilesAssumption
<1>1. ConsType /\ ProfilesType /\ ProfilesAgree
  BY DEF ConsInv, ConsType
<1>2. ASSUME NEW k \in Companies, NEW row \in [handle : Handles, hasCHA : BOOLEAN], UpsertCompany(k, row)
      PROVE  ConsInv'
  <2>1. edits < MaxEdits /\ edits' = edits + 1 /\ Put(k, row) /\ UNCHANGED <<editing, user, token, moves>>
    BY <1>2 DEF UpsertCompany, userVars
  <2>2. edits' \in 0 .. MaxEdits
    BY <1>1, <2>1 DEF ProfilesType
  <2>3. ProfilesType'
    BY <1>1, <2>1, <2>2, PutKeeps DEF ProfilesType
  <2>4. ProfilesAgree' /\ \A i \in Companies : named[i] \subseteq named'[i]
    <3>1. editing.company \in Companies \cup {NoCompany}
      BY <1>1 DEF ProfilesType
    <3> QED
      BY <1>1, <2>1, <3>1, PutKeeps DEF ProfilesAgree, Exists
  <2> QED
    BY <2>1, <2>3, <2>4, ProfilesStepKeeps
<1>3. ASSUME NEW k \in Companies, EditCompany(k)
      PROVE  ConsInv'
  <2>1. /\ Exists(k) /\ editing' = [company |-> k, seen |-> company[k]]
        /\ UNCHANGED <<company, named, edits, user, token, moves>>
    BY <1>3 DEF EditCompany, userVars
  <2>2. ProfilesType'
    BY <1>1, <2>1 DEF ProfilesType
  <2>3. ProfilesAgree'
    BY <1>1, <2>1 DEF ProfilesAgree, Exists
  <2> QED
    BY <2>1, <2>2, <2>3, ProfilesStepKeeps
<1>4. ASSUME NEW row \in [handle : Handles, hasCHA : BOOLEAN], UpdateCompanyFields(row)
      PROVE  ConsInv'
  <2> DEFINE k == editing.company
             seen == editing.seen
             new == [handle |-> IF row.handle # seen.handle THEN row.handle ELSE company[k].handle,
                     hasCHA |-> IF row.hasCHA # seen.hasCHA THEN row.hasCHA ELSE company[k].hasCHA]
  <2>1. /\ k # NoCompany /\ edits < MaxEdits /\ edits' = edits + 1 /\ Put(k, new) /\ editing' = NotEditing
        /\ UNCHANGED <<user, token, moves>>
    BY <1>4 DEF UpdateCompanyFields, userVars
  <2>2. k \in Companies /\ Exists(k) /\ company[k] \in CompanyRows
    BY <1>1, <2>1 DEF ProfilesType, ProfilesAgree
  <2>3. new \in [handle : Handles, hasCHA : BOOLEAN]
    BY <2>2 DEF CompanyRows, Exists
  <2> HIDE DEF new
  <2>4. edits' \in 0 .. MaxEdits
    BY <1>1, <2>1 DEF ProfilesType
  <2>5. ProfilesType'
    BY <1>1, <2>1, <2>2, <2>3, <2>4, PutKeeps, NotEditingIs DEF ProfilesType
  <2>6. ProfilesAgree' /\ \A i \in Companies : named[i] \subseteq named'[i]
    BY <1>1, <2>1, <2>2, <2>3, PutKeeps, NotEditingIs DEF ProfilesAgree
  <2> QED
    BY <2>1, <2>5, <2>6, ProfilesStepKeeps
<1>5. CASE CloseEdit
  <2>1. editing' = NotEditing /\ UNCHANGED <<company, named, edits, user, token, moves>>
    BY <1>5 DEF CloseEdit, userVars
  <2>2. ProfilesType' /\ ProfilesAgree'
    BY <1>1, <2>1, NotEditingIs DEF ProfilesType, ProfilesAgree
  <2> QED
    BY <2>1, <2>2, ProfilesStepKeeps
<1>6. ASSUME NEW s \in Subjects, NEW h \in Handles, MoveUser(s, h)
      PROVE  ConsInv'
  <2>1. /\ moves < MaxMoves /\ moves' = moves + 1 /\ token' = [token EXCEPT ![s] = h]
        /\ UNCHANGED <<company, named, editing, edits, user>>
    BY <1>6 DEF MoveUser, companyVars
  <2>2. ProfilesType'
    BY <1>1, <2>1 DEF ProfilesType
  <2>3. ProfilesAgree'
    BY <1>1, <2>1 DEF ProfilesAgree, Exists
  <2> QED
    BY <2>1, <2>2, <2>3, ProfilesStepKeeps
<1> QED
  BY <1>2, <1>3, <1>4, <1>5, <1>6 DEF ProfilesNext

----------------------------------------------------------------------------
(* The invariant, and what it says of the program.                         *)

LEMMA ConsInitInv ==
  ASSUME NEW profiles \in [Companies -> CompanyRows], NEW ous \in [Subjects -> Handles],
         \A k, l \in Companies : profiles[k].handle = profiles[l].handle => profiles[k].handle = NoHandle \/ k = l,
         ConsInit(profiles, ous, NoParties)
  PROVE  ConsInv
<1> USE ProfilesAssumption, PartiesAssumption, ConsBoundsAssumption
<1>1. /\ company = profiles /\ named = [k \in Companies |-> {profiles[k].handle} \ {NoHandle}] /\ editing = NotEditing
      /\ edits = 0 /\ user = [s \in Subjects |-> [id |-> NoUser, ou |-> NoHandle]] /\ token = ous /\ moves = 0
  BY DEF ConsInit, ProfilesInit
<1>2. /\ party = NoParties /\ cased = {} /\ consignment = [c \in Cases |-> NoRow]
      /\ createdBy = [c \in Cases |-> NoUser] /\ flows = [c \in Cases |-> <<>>]
      /\ request = [r \in Requests |-> NoRequest] /\ selection = [c \in Cases |-> NoSelection]
      /\ selections = 0 /\ failures = 0
  BY DEF ConsInit
<1>3. ProfilesType
  BY <1>1, NotEditingIs DEF ProfilesType, CompanyRows
<1>4. ConsType
  <2>1. PartyType
    BY <1>2 DEF PartyType, NoParties
  <2>2. request \in [Requests -> RequestState]
    BY <1>2 DEF NoRequest, RequestState, Stages
  <2>3. selection \in [Cases -> [company : Companies \cup {NoCompany}, handle : Handles \cup {NoHandle}]]
    BY <1>2, NoSelectionIs
  <2>4. consignment \in [Cases -> [trader : Companies \cup {NoCompany}, cha : Companies \cup {NoCompany}]]
    BY <1>2 DEF NoRow
  <2>5. flows \in [Cases -> Seq([workflow : Flows \cup {ExportFlow}, for : Companies])]
    BY <1>2
  <2> QED
    BY <1>2, <1>3, <2>1, <2>2, <2>3, <2>4, <2>5 DEF ConsType
<1>5. ProfilesAgree
  BY <1>1, NotEditingIs DEF ProfilesAgree
<1>6. CasesAreDrawn
  BY <1>2, FS_EmptySet DEF CasesAreDrawn
<1>7. \A r \in Requests : RequestKnows(r)
  BY <1>2 DEF RequestKnows, NoRequest, Working, Stages
<1>8. (\A c \in Cases : SelectionKnows(c)) /\ CommittedWhole /\ ColumnsMatchParties
  BY <1>2 DEF SelectionKnows, CommittedWhole, ColumnsMatchParties, Committed, NoRequest
<1> QED
  BY <1>2, <1>4, <1>5, <1>6, <1>7, <1>8 DEF ConsInv

LEMMA ConsStep ==
  ASSUME ConsInv, [ConsNext]_consVars
  PROVE  ConsInv'
<1>1. CASE UNCHANGED consVars
  <2>1. UNCHANGED <<consignmentVars, workVars, profileVars>>
    BY <1>1 DEF consVars
  <2>2. UNCHANGED <<company, named, editing, edits, user, token, moves>>
    BY <2>1 DEF profileVars, companyVars, userVars
  <2>3. ProfilesType' /\ ProfilesAgree'
    BY <2>2 DEF ConsInv, ConsType, ProfilesType, ProfilesAgree, Exists
  <2> QED
    BY <2>1, <2>2, <2>3, ProfilesStepKeeps
<1>2. ASSUME NEW r \in Requests, RequestNext(r)
      PROVE  ConsInv'
  <2>1. ASSUME NEW kind \in {"create", "get", "flow"}, NEW s \in Subjects, NEW c \in cased \cup {NoCase},
               NEW f \in Flows \cup {ExportFlow}, kind = "create" \/ c # NoCase, RequestArrives(r, kind, s, c, f)
        PROVE  ConsInv'
    BY <2>1, ArrivesKeeps
  <2>2. CASE SignIn(r) \/ RereadUser(r)
    BY <2>2, SignInKeeps
  <2>3. CASE FindTrader(r) \/ FindCompany(r)
    BY <2>3, FindKeeps
  <2>4. CASE CreateUser(r) \/ EnsureNewCase(r) \/ CreateConsignment(r)
    BY <2>4, CreateUserKeeps, EnsureCaseKeeps, CreateKeeps
  <2>5. CASE StartExport(r) \/ AnswerCreated(r) \/ StartUserFlow(r)
    BY <2>5, StartExportKeeps, AnswerCreatedKeeps, StartUserFlowKeeps
  <2>6. CASE Fetch(r) \/ TraderVars(r) \/ RequestFails(r)
    BY <2>6, FetchKeeps, TraderVarsKeeps, FailsKeeps
  <2> QED
    BY <1>2, <2>1, <2>2, <2>3, <2>4, <2>5, <2>6 DEF RequestNext
<1>3. ASSUME NEW c \in Cases, (\E k \in Companies : ReadCHA(c, k)) \/ AssignCHA(c) \/ SelectionFails(c)
      PROVE  ConsInv'
  BY <1>3, ReadCHAKeeps, AssignCHAKeeps, SelectionFailsKeeps
<1>4. CASE ProfilesNext /\ UNCHANGED <<consignmentVars, workVars>>
  BY <1>4, ProfilesKeeps
<1> QED
  BY <1>1, <1>2, <1>3, <1>4 DEF ConsNext

\* However requests, operators' edits, failures and CHA_PERSIST overlap, the invariant holds.
THEOREM ConsInvariant == ConsSpec => []ConsInv
<1>1. ASSUME \E profiles \in [Companies -> CompanyRows], ous \in [Subjects -> Handles] :
               /\ \A k, l \in Companies : profiles[k].handle = profiles[l].handle => profiles[k].handle = NoHandle \/ k = l
               /\ ConsInit(profiles, ous, NoParties)
      PROVE  ConsInv
  BY <1>1, ConsInitInv
<1>2. ConsInv /\ [ConsNext]_consVars => ConsInv'
  BY ConsStep
<1> QED
  BY <1>1, <1>2, PTL DEF ConsSpec

\* The variables keep their types.
THEOREM ConsTypeCorrect == ConsSpec => []ConsType
<1>1. ConsInv => ConsType
  BY DEF ConsInv
<1> QED
  BY <1>1, ConsInvariant, PTL

\* A consignment is there with its trader party and creator or not at all, and no flow runs on
\* a case without one, whichever request fails between two of its writes.
THEOREM ConsignmentsAreWhole == ConsSpec => []CommittedWhole
<1>1. ConsInv => CommittedWhole
  BY DEF ConsInv
<1> QED
  BY <1>1, ConsInvariant, PTL

\* The row and the parties name the same companies, whenever operators rename an OU.
THEOREM RowsMatchParties == ConsSpec => []ColumnsMatchParties
<1>1. ConsInv => ColumnsMatchParties
  BY DEF ConsInv
<1> QED
  BY <1>1, ConsInvariant, PTL

\* The list, the single consignment, its roles and its tasks are open to the same callers,
\* because no two companies ever have one OU handle.
THEOREM AccessIsTheSame == ConsSpec => []SameAccess
<1>1. ASSUME ConsInv
      PROVE  SameAccess
  <2> SUFFICES ASSUME NEW s \in Subjects, NEW c \in Cases, CompanyAt(token[s]) # NoCompany, Committed(c)
               PROVE  LET k == CompanyAt(token[s])
                          held == TokenRoles[s]
                      IN /\ Owned(k, held, c) = Eligible(held, RolesOf(c, token[s]), Roles)
                         /\ Owned(k, held, c) = CallerRolesOn(k, held, c)
                         /\ c \in Listed(k, held) <=> Owned(k, held, c) # {}
    BY DEF SameAccess
  <2> DEFINE k == CompanyAt(token[s])
             held == TokenRoles[s]
  <2>1. k # NoCompany /\ token[s] # NoHandle
    BY <1>1, CompanyAtIs DEF ConsInv
  <2>2. ASSUME NEW r \in Roles
        PROVE  CompanyAt(party[c][r]) = k <=> party[c][r] = token[s]
    BY <1>1, <2>1, <2>2, CompanyAtIs DEF ConsInv
  <2> HIDE DEF k
  <2>3. /\ TraderOf(c) = k <=> party[c]["trader"] = token[s]
        /\ CHAOf(c) = k <=> party[c]["cha"] = token[s]
    BY <2>2 DEF TraderOf, CHAOf, Roles
  <2>4. Owned(k, held, c) = Eligible(held, RolesOf(c, token[s]), Roles)
    BY <2>1, <2>3 DEF Owned, Eligible, RolesOf, Roles
  <2>5. Owned(k, held, c) = CallerRolesOn(k, held, c)
    BY <2>1 DEF Owned, CallerRolesOn, Roles
  <2>6. c \in Listed(k, held) <=> Owned(k, held, c) # {}
    BY <2>1 DEF Owned, Listed, Roles
  <2> QED
    BY <2>4, <2>5, <2>6 DEF k
<1> QED
  BY <1>1, ConsInvariant, PTL
=============================================================================
