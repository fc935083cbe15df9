------------------------------ MODULE Profiles ------------------------------
(***************************************************************************)
(* internal/profile and the company commands of cmd/otc: the records of    *)
(* companies, which operators edit while requests read them, and of users, *)
(* which sign-in creates once and never brings up to date.                 *)
(*                                                                         *)
(* A company is found by its ID or by its OU handle, which is unique and   *)
(* may be changed. A user's record keeps the OU of the first sign-in.      *)
(***************************************************************************)
EXTENDS CaseParties

CONSTANTS
  Companies,  \* company IDs
  NoCompany,
  Subjects,   \* users as the identity provider names them
  UserIDs,    \* IDs of user records
  NoUser,
  MaxEdits,   \* bound on operators' changes to companies
  MaxMoves    \* bound on users moved between OUs by the identity provider

ASSUME ProfilesAssumption ==
  NoCompany \notin Companies /\ NoUser \notin UserIDs /\ MaxEdits \in Nat /\ MaxMoves \in Nat

VARIABLES
  company,  \* each company's row; its handle is NoHandle while there is none
  named,    \* history: the handles each company has had
  editing,  \* what an `otc company edit` session has read
  edits,
  user,     \* each subject's row; its id is NoUser while there is none
  token,    \* the OU in each subject's token
  moves

companyVars == <<company, named, editing, edits>>
userVars == <<user, token, moves>>
profileVars == <<companyVars, userVars>>

CompanyRows == [handle : Handles \cup {NoHandle}, hasCHA : BOOLEAN]
NotEditing == [company |-> NoCompany, seen |-> [handle |-> NoHandle, hasCHA |-> FALSE]]

ProfilesType ==
  /\ company \in [Companies -> CompanyRows]
  /\ named \in [Companies -> SUBSET Handles]
  /\ editing \in [company : Companies \cup {NoCompany}, seen : CompanyRows]
  /\ edits \in 0 .. MaxEdits
  /\ user \in [Subjects -> [id : UserIDs \cup {NoUser}, ou : Handles \cup {NoHandle}]]
  /\ token \in [Subjects -> Handles]
  /\ moves \in 0 .. MaxMoves

Exists(k) == k # NoCompany /\ company[k].handle # NoHandle

\* GetCompanyByOUHandle; the handle is unique, so there is one at most.
CompanyAt(h) ==
  IF h # NoHandle /\ \E k \in Companies : company[k].handle = h
    THEN CHOOSE k \in Companies : company[k].handle = h
    ELSE NoCompany

HandleTaken(k, h) == \E other \in Companies \ {k} : company[other].handle = h

Put(k, row) ==
  /\ ~HandleTaken(k, row.handle)
  /\ company' = [company EXCEPT ![k] = row]
  /\ named' = [named EXCEPT ![k] = @ \cup {row.handle}]

\* `otc company add`, of a company that has no row, and `otc company apply`: the file's record
\* replaces the row, whatever it is by now.
UpsertCompany(k, row) ==
  /\ edits < MaxEdits
  /\ edits' = edits + 1
  /\ Put(k, row)
  /\ UNCHANGED <<editing, userVars>>

EditCompany(k) ==
  /\ editing = NotEditing
  /\ Exists(k)
  /\ editing' = [company |-> k, seen |-> company[k]]
  /\ UNCHANGED <<company, named, edits, userVars>>

\* Only the fields that the operator changed from what the session showed are written.
UpdateCompanyFields(row) ==
  LET k == editing.company
      seen == editing.seen
  IN /\ k # NoCompany
     /\ edits < MaxEdits
     /\ row # seen
     /\ edits' = edits + 1
     /\ Put(k, [handle |-> IF row.handle # seen.handle THEN row.handle ELSE company[k].handle,
                hasCHA |-> IF row.hasCHA # seen.hasCHA THEN row.hasCHA ELSE company[k].hasCHA])
     /\ editing' = NotEditing
     /\ UNCHANGED userVars

\* The operator changes nothing, or a handle that another company has.
CloseEdit ==
  /\ editing # NotEditing
  /\ editing' = NotEditing
  /\ UNCHANGED <<company, named, edits, userVars>>

\* The identity provider issues the subject tokens for another OU from now on.
MoveUser(s, h) ==
  /\ moves < MaxMoves
  /\ h # token[s]
  /\ token' = [token EXCEPT ![s] = h]
  /\ moves' = moves + 1
  /\ UNCHANGED <<companyVars, user>>

\* INSERT ... ON CONFLICT (idp_user_id) DO NOTHING.
InsertUser(s, id, ou) ==
  user' = IF user[s].id = NoUser THEN [user EXCEPT ![s] = [id |-> id, ou |-> ou]] ELSE user

ProfilesInit(rows, ous) ==
  /\ company = rows
  /\ named = [k \in Companies |-> {rows[k].handle} \ {NoHandle}]
  /\ editing = NotEditing
  /\ edits = 0
  /\ user = [s \in Subjects |-> [id |-> NoUser, ou |-> NoHandle]]
  /\ token = ous
  /\ moves = 0

ProfilesNext ==
  \/ \E k \in Companies, row \in [handle : Handles, hasCHA : BOOLEAN] :
        UpsertCompany(k, row)
  \/ \E k \in Companies : EditCompany(k)
  \/ \E row \in [handle : Handles, hasCHA : BOOLEAN] : UpdateCompanyFields(row)
  \/ CloseEdit
  \/ \E s \in Subjects, h \in Handles : MoveUser(s, h)
============================================================================
