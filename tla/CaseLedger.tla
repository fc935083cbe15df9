----------------------------- MODULE CaseLedger -----------------------------
(***************************************************************************)
(* What internal/caseflow promises about cases, with no transactions, no   *)
(* engine and no retries: a flow is opened on a case once, which makes the *)
(* case IN_PROGRESS and its owner the holder in the same step, and         *)
(* completing a flow finishes the case exactly when no flow is left open.  *)
(***************************************************************************)
CONSTANTS Cases, Workflows, Owners, None, EnsuredCases

VARIABLES
  state,  \* the state of each case, "none" before it exists
  open,   \* for each workflow: None, or the case it belongs to and its progress
  holder  \* the owner of each case

ledgerVars == <<state, open, holder>>

OnCase(c) == {w \in Workflows : open[w] # None /\ open[w].case = c}

Init ==
  /\ state = [c \in Cases |-> "none"]
  /\ open = [w \in Workflows |-> None]
  /\ holder = [c \in Cases |-> None]

Ensure(c) ==
  /\ c \in EnsuredCases
  /\ state[c] = "none"
  /\ state' = [state EXCEPT ![c] = "IN_PROGRESS"]
  /\ UNCHANGED <<open, holder>>

Open(w, c, owner) ==
  /\ open[w] = None
  /\ open' = [open EXCEPT ![w] = [case |-> c, progress |-> "open"]]
  /\ state' = [state EXCEPT ![c] = "IN_PROGRESS"]
  /\ holder' = [holder EXCEPT ![c] = IF owner = None THEN @ ELSE owner]

Complete(w) ==
  /\ open[w] # None
  /\ open[w].progress = "open"
  /\ open' = [open EXCEPT ![w].progress = "done"]
  /\ state' = [state EXCEPT ![open[w].case] =
        IF \A u \in OnCase(open[w].case) \ {w} : open[u].progress = "done" THEN "FINISHED" ELSE @]
  /\ UNCHANGED holder

Next ==
  \/ \E c \in Cases : Ensure(c)
  \/ \E w \in Workflows, c \in Cases, owner \in Owners \cup {None} : Open(w, c, owner)
  \/ \E w \in Workflows : Complete(w)

Spec == Init /\ [][Next]_ledgerVars
============================================================================
