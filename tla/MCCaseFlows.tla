---------------------------- MODULE MCCaseFlows ----------------------------
(***************************************************************************)
(* Small instances of CaseFlows for TLC.                                   *)
(***************************************************************************)
EXTENDS CaseFlows

CONSTANTS p1, p2, p3, p4, c1, c2, w1, w2, t1, t2, ou

Ask(c, t, w, stable, owner) ==
  [case |-> c, template |-> t, workflow |-> w, stable |-> stable, owner |-> owner]

\* t2 is only in the newer manifest version.
MCTemplatesAt == [v \in 1 .. 2 |-> IF v = 1 THEN {t1} ELSE {t1, t2}]

\* A single version that holds them both.
MCTemplatesOne == [v \in 1 .. 1 |-> {t1, t2}]

\* p1 and p2 ask for the same flow, p3 asks for its workflow ID on another case, and p4
\* starts a flow of its own on the case of p1 and p2.
MCContended == [p \in Clients |->
  CASE p = p1 -> Ask(c1, t1, w1, TRUE, ou)
    [] p = p2 -> Ask(c1, t1, w1, TRUE, None)
    [] p = p3 -> Ask(c2, t1, w1, TRUE, None)
    [] p = p4 -> Ask(c1, t2, w2, FALSE, ou)]
============================================================================
