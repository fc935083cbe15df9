------------------------------- MODULE Splits -------------------------------
(***************************************************************************)
(* A case that fans out: its HS codes choose the agency workflows that     *)
(* run, its container count how many dispatch notes are raised; when every *)
(* note has ended, the notes that stand are collected for the boat note,   *)
(* and the declaration retrieved from Customs says how many are missing.   *)
(*                                                                         *)
(* SPLIT_TASK (external) runs one child workflow per item and collects the *)
(* variables of all of them, those that failed too, in the items' order.   *)
(* Customs (external) lists the notes of a declaration with their status.  *)
(***************************************************************************)
EXTENDS Naturals, Sequences, FiniteSets, SequencesExt

CONSTANTS
  HSCodes,       \* codes of the selection
  AgencyFlows,   \* workflow templates
  Mappings,      \* what the artifact says: the workflows of each code
  Selections,    \* what a trader may select
  Counts,        \* container counts that a declaration may have; NotANumber is of another type
  NotANumber,
  MaxContainersPerDeclaration,
  MaxRaised      \* bound on notes raised again

ASSUME SplitsAssumption ==
  /\ Selections \subseteq Seq(HSCodes)
  /\ DOMAIN Mappings = HSCodes /\ \A c \in HSCodes : Mappings[c] \in Seq(AgencyFlows)

VARIABLES
  agency,   \* the HS code split: the selection, and the workflows that it starts
  notes,    \* the dispatch note split: its count, and what each branch has recorded
  rows,     \* what the collector wrote: the containers of the boat note, and the note it quotes
  listed,   \* the notes that Customs lists against the declaration
  retrieved \* the last retrieval: how many notes are active, and how many containers lack one

splitVars == <<agency, notes, rows, listed, retrieved>>

NoNote == 0
NoteBranches == DOMAIN notes.branch
\* userform.registeredCdnNumber, cig_cdn.accepted, ack_status, userform.cancel_cdn.
BranchData == [number : Nat, accepted : BOOLEAN, cancelled : BOOLEAN, ended : BOOLEAN]

SplitsType ==
  /\ agency.pc \in {"select", "split", "failed"} /\ agency.codes \in Selections
  /\ \A i \in 1 .. Len(agency.started) : agency.started[i] \in AgencyFlows
  /\ notes.pc \in {"count", "branches", "collected", "failed"} /\ notes.count \in Counts
  /\ \A i \in NoteBranches : notes.branch[i] \in BranchData
  /\ \A n \in 1 .. Len(listed) : listed[n].live \in BOOLEAN /\ listed[n].container \in NoteBranches

\* What a loop over s appends: the elements at the indices of I, in order.
Those(s, I) ==
  LET kept[n \in 0 .. Len(s)] ==
        IF n = 0 THEN << >> ELSE IF n \in I THEN Append(kept[n - 1], s[n]) ELSE kept[n - 1]
  IN kept[Len(s)]

----------------------------------------------------------------------------
(* HscodeSplitBuilderFunc.                                                 *)

Replaced(replaces) == UNION {replaces[wf] : wf \in AgencyFlows}

\* Mutant: a workflow that is replaced may itself replace others.
SelfReplacesOnly(replaces) == \A wf \in AgencyFlows : wf \notin replaces[wf]
\* validateReplaces.
ReplacesValid(replaces) ==
  /\ \A wf \in AgencyFlows : wf \notin replaces[wf]
  /\ \A wf \in AgencyFlows : replaces[wf] # {} => wf \notin Replaced(replaces)

\* resolveTemplates: each workflow of each code, once, in the order of the selection.
TemplatesOf(codes) ==
  LET all == FlattenSeq([i \in DOMAIN codes |-> Mappings[codes[i]]])
  IN Those(all, {n \in DOMAIN all : \A m \in 1 .. n - 1 : all[m] # all[n]})

\* applyReplaces.
ApplyReplaces(templates, replaces) ==
  Those(templates, {n \in DOMAIN templates : \A other \in ToSet(templates) : templates[n] \notin replaces[other]})

\* The plugin: an empty selection or an unmapped code fails it.
SplitHSCodes ==
  /\ agency.pc = "select"
  /\ agency' = IF /\ ReplacesValid(agency.replaces) /\ agency.codes # << >>
                  /\ \A i \in DOMAIN agency.codes : Mappings[agency.codes[i]] # << >>
               THEN [agency EXCEPT !.pc = "split",
                                   !.started = ApplyReplaces(TemplatesOf(agency.codes), agency.replaces)]
               ELSE [agency EXCEPT !.pc = "failed"]
  /\ UNCHANGED <<notes, rows, listed, retrieved>>

----------------------------------------------------------------------------
(* The dispatch notes.                                                     *)

\* CDNSplitBuilderFunc, containerCount.
SplitCDNs ==
  /\ notes.pc = "count"
  /\ notes' = IF notes.count # NotANumber /\ notes.count \in 1 .. MaxContainersPerDeclaration
              THEN [notes EXCEPT !.pc = "branches",
                                 !.branch = [i \in 1 .. notes.count |->
                                   [number |-> NoNote, accepted |-> FALSE, cancelled |-> FALSE, ended |-> FALSE]]]
              ELSE [notes EXCEPT !.pc = "failed"]
  /\ UNCHANGED <<agency, rows, listed, retrieved>>

Running(i) == notes.pc = "branches" /\ ~notes.branch[i].ended

\* SLC Edge accepts the note of a branch, and Customs registers it (external); a note that is
\* accepted may not be registered.
AcceptNote(i) ==
  /\ Running(i) /\ ~notes.branch[i].accepted
  /\ notes' = [notes EXCEPT !.branch[i].accepted = TRUE]
  /\ UNCHANGED <<agency, rows, listed, retrieved>>
RegisterNote(i) ==
  /\ Running(i) /\ notes.branch[i].accepted /\ notes.branch[i].number = NoNote
  /\ listed' = Append(listed, [container |-> i, live |-> TRUE])
  /\ notes' = [notes EXCEPT !.branch[i].number = Len(listed) + 1]
  /\ UNCHANGED <<agency, rows, retrieved>>

\* The branch ends: its note is acknowledged, it is rejected for good, or it failed.
EndBranch(i) ==
  /\ Running(i)
  /\ notes' = [notes EXCEPT !.branch[i].ended = TRUE]
  /\ UNCHANGED <<agency, rows, listed, retrieved>>
\* Customs cancels a note.
CustomsCancels(i) ==
  /\ Running(i) /\ notes.branch[i].number # NoNote
  /\ notes' = [notes EXCEPT !.branch[i].cancelled = TRUE, !.branch[i].ended = TRUE]
  /\ listed' = [listed EXCEPT ![notes.branch[i].number].live = FALSE]
  /\ UNCHANGED <<agency, rows, retrieved>>
\* CDNCancelPlugin: the trader cancels a note from its form or while it waits; Customs is not told.
TraderCancels(i) ==
  /\ Running(i)
  /\ notes' = [notes EXCEPT !.branch[i].cancelled = TRUE, !.branch[i].ended = TRUE]
  /\ UNCHANGED <<agency, rows, listed, retrieved>>

\* The branches whose note counts: registered at Customs, and not cancelled (cancelledBranch).
Standing(b) == ~b.cancelled /\ b.number # NoNote

\* CDNResultsCollectorFunc.
CollectResults ==
  /\ notes.pc = "branches" /\ \A i \in NoteBranches : notes.branch[i].ended
  /\ LET branches == notes.branch
         FirstOr(I, other) == IF I # {} THEN Min(I) ELSE other
         live == {i \in NoteBranches : ~branches[i].cancelled}
         numbers == Those(branches, {i \in NoteBranches : Standing(branches[i])})
     IN rows' = [containers |-> [r \in DOMAIN numbers |-> numbers[r].number],
                 cdnNumber |-> IF numbers = << >> THEN NoNote ELSE numbers[1].number,
                 userform |-> FirstOr({i \in live : branches[i].accepted}, FirstOr(live, 0))]
  /\ notes' = [notes EXCEPT !.pc = "collected"]
  /\ UNCHANGED <<agency, listed, retrieved>>

----------------------------------------------------------------------------
(* Afterwards.                                                             *)

\* A note is raised again for a container whose note was cancelled (a flow of its own), and Customs
\* may cancel any that it still lists.
RaiseAgain(i) ==
  /\ notes.pc = "collected" /\ notes.branch[i].cancelled /\ Len(listed) < notes.count + MaxRaised
  /\ listed' = Append(listed, [container |-> i, live |-> TRUE])
  /\ UNCHANGED <<agency, notes, rows, retrieved>>
CancelListed(n) ==
  /\ notes.pc = "collected" /\ listed[n].live
  /\ listed' = [listed EXCEPT ![n].live = FALSE]
  /\ UNCHANGED <<agency, notes, rows, retrieved>>

\* ActiveCDNRefs.
ActiveCDNRefs == {n \in DOMAIN listed : listed[n].live}

\* How many containers have no active note.
MissingCDNs ==
  LET cdns == Cardinality(ActiveCDNRefs) IN IF cdns < notes.count THEN notes.count - cdns ELSE 0

\* RetrieveInterpreter.Interpret: the declaration as Customs holds it.
Retrieve ==
  /\ notes.pc \in {"branches", "collected"}
  /\ retrieved' = [active |-> Cardinality(ActiveCDNRefs), missing |-> MissingCDNs]
  /\ UNCHANGED <<agency, notes, rows, listed>>

----------------------------------------------------------------------------
SplitsInit(Rules) ==
  /\ agency \in [pc : {"select"}, codes : Selections, replaces : Rules, started : {<< >>}]
  /\ notes \in [pc : {"count"}, count : Counts, branch : {<< >>}]
  /\ rows = [containers |-> << >>, cdnNumber |-> NoNote, userform |-> 0]
  /\ listed = << >>
  /\ retrieved = [active |-> 0, missing |-> 0]

SplitsNext ==
  \/ SplitHSCodes \/ SplitCDNs \/ CollectResults \/ Retrieve
  \/ \E i \in NoteBranches : AcceptNote(i) \/ RegisterNote(i) \/ EndBranch(i) \/ CustomsCancels(i)
                           \/ TraderCancels(i) \/ RaiseAgain(i)
  \/ \E n \in DOMAIN listed : CancelListed(n)

\* With whatever an artifact may say replaces what.
SplitsSpec == SplitsInit([AgencyFlows -> SUBSET AgencyFlows]) /\ [][SplitsNext]_splitVars

----------------------------------------------------------------------------
(* Properties.                                                             *)

\* Every HS code's agencies get their workflow: each workflow that a selected code asks for runs
\* once, or one that replaces it runs in its place, and never both (validateReplaces, applyReplaces).
EveryCodeIsServed ==
  agency.pc = "split" =>
    LET asked == UNION {ToSet(Mappings[agency.codes[i]]) : i \in DOMAIN agency.codes}
        started == ToSet(agency.started)
    IN /\ Len(agency.started) = Cardinality(started) /\ started \subseteq asked
       /\ \A wf \in asked :
            (wf \in started) <=> \A other \in started : wf \notin agency.replaces[other]

\* The boat note has a row for each container whose note stands, in the containers' order, and
\* nothing of a note that was cancelled is quoted; and the trader is never asked for more notes
\* than there are containers without one that Customs lists as live.
NotesAgreeWithCustoms ==
  /\ notes.pc = "collected" =>
       LET covered == [r \in DOMAIN rows.containers |-> listed[rows.containers[r]].container]
       IN /\ ToSet(covered) = {i \in NoteBranches : ~notes.branch[i].cancelled /\ notes.branch[i].number # NoNote}
          /\ \A r, s \in DOMAIN covered : r < s => covered[r] < covered[s]
          /\ rows.userform # 0 => ~notes.branch[rows.userform].cancelled
  /\ notes.pc \in {"branches", "collected"} =>
       MissingCDNs <= Cardinality({i \in NoteBranches : \A n \in DOMAIN listed : listed[n].live => listed[n].container # i})

\* What a case fans out into is what it needs: each agency's workflow once, and a row of the boat
\* note for each dispatch note that stands.
SplitsAreWhole ==
  /\ EveryCodeIsServed
  /\ NotesAgreeWithCustoms
=============================================================================
