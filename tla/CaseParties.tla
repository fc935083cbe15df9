---------------------------- MODULE CaseParties ----------------------------
(***************************************************************************)
(* internal/caseparty and internal/tasks/taskauthz: which OU holds which   *)
(* role on a case, and which roles that lets a caller act in. A party is   *)
(* named by its OU handle, never by its company's ID.                      *)
(***************************************************************************)
EXTENDS Naturals, FiniteSets

CONSTANTS
  Cases,    \* IDs of cases
  Handles,  \* OU handles
  NoHandle  \* no party, or a caller without an OU

ASSUME PartiesAssumption == NoHandle \notin Handles

Roles == {"trader", "cha"}

VARIABLE party  \* the case_parties rows: the handle that holds each role on each case

PartyType == party \in [Cases -> [Roles -> Handles \cup {NoHandle}]]

NoParties == [c \in Cases |-> [r \in Roles |-> NoHandle]]

Assign(c, r, h) == party' = [party EXCEPT ![c][r] = h]

\* A caller with no OU is no party, so an unassigned role never matches it.
RolesOf(c, h) == {r \in Roles : h # NoHandle /\ party[c][r] = h}

\* The roles of names that a caller may act in: its token and its OU's ownership must agree.
Eligible(held, owned, names) == names \cap held \cap owned
============================================================================
