------------------------------- MODULE Forms -------------------------------
(***************************************************************************)
(* internal/tasks/extensions/payloadschema: a submission or a draft of a   *)
(* step is held against its form. The values that the schema marks         *)
(* readOnly are the server's, and come back as the step holds them; a      *)
(* list's rows pair up by theirs, whatever their order. What is accepted   *)
(* becomes what the next one is compared with.                             *)
(*                                                                         *)
(* A form here has one read-only value of its own (number), a list whose   *)
(* rows hold one each (a row is that value), and a value that the schema   *)
(* requires of the user (filled). Both may have a schema default, which    *)
(* the browser fills in.                                                   *)
(***************************************************************************)
EXTENDS Naturals, Sequences, FiniteSets, SequencesExt

CONSTANTS
  Values,   \* read-only values
  Missing,  \* a value that is left out, or a schema without a default
  MaxRows   \* bound on the rows of a list

ASSUME FormsAssumption == MaxRows \in Nat

VARIABLES
  form,      \* the form's schema and UI schema: the default, and the list's switches
  given,     \* history: what the step held at the start
  kept, \* what the step holds
  submitted  \* whether the step is over

formVars == <<form, given, kept, submitted>>

ValuesOrMissing == Values \cup {Missing}
FormData == [number : ValuesOrMissing, rows : BoundedSeq(ValuesOrMissing, MaxRows), filled : BOOLEAN]
FormSchemas == [default : ValuesOrMissing, addable : BOOLEAN, removable : BOOLEAN]

FormsType ==
  /\ form \in FormSchemas
  /\ given \in FormData /\ kept \in FormData
  /\ submitted \in BOOLEAN

\* compareReadOnly.
Unchanged(stored, sub) ==
  IF stored # Missing THEN sub = stored ELSE sub \in {Missing, form.default}

\* serverPart: a value left out counts as its default, on both sides.
ServerPart(row) == IF row = Missing THEN form.default ELSE row

\* compareRows: each row takes the first stored one of its part that is not taken. One that
\* finds none is new if its part is that of an empty row.
Pair(stored, pairing, row) ==
  LET part == ServerPart(row)
      matches == {j \in pairing.free : ServerPart(stored[j]) = part}
      j == CHOOSE k \in matches : \A l \in matches : k <= l
  IN CASE matches # {} -> [ok |-> pairing.ok /\ Unchanged(stored[j], row), free |-> pairing.free \ {j}]
       [] matches = {} /\ part = form.default ->
            [ok |-> pairing.ok /\ form.addable /\ Unchanged(Missing, row), free |-> pairing.free]
       [] OTHER -> [ok |-> FALSE, free |-> pairing.free]

\* What is free when every row has taken its own, from the first.
Pairing(stored, rows) ==
  LET after[n \in 0 .. Len(rows)] ==
        IF n = 0 THEN [ok |-> TRUE, free |-> DOMAIN stored] ELSE Pair(stored, after[n - 1], rows[n])
  IN after[Len(rows)]

RowsKept(stored, rows) ==
  LET paired == Pairing(stored, rows)
  IN paired.ok /\ (form.removable \/ paired.free = {})

\* readOnlyViolations finds none.
ReadOnlyKept(stored, sub) == Unchanged(stored.number, sub.number) /\ RowsKept(stored.rows, sub.rows)

\* Execute: a draft is not held to the schema's own rules, but to the read-only ones it is.
Save(sub, draft) ==
  /\ ~submitted
  /\ ReadOnlyKept(kept, sub)
  /\ draft \/ sub.filled
  /\ kept' = sub
  /\ submitted' = ~draft
  /\ UNCHANGED <<form, given>>

FormsInit(starts) ==
  /\ form \in FormSchemas
  /\ given \in starts
  /\ kept = given
  /\ submitted = FALSE

FormsNext == \E sub \in FormData, draft \in BOOLEAN : Save(sub, draft)

FormsSpec == FormsInit(FormData) /\ [][FormsNext]_formVars

----------------------------------------------------------------------------
(* Properties.                                                             *)

Count(rows, v) == Cardinality({i \in DOMAIN rows : ServerPart(rows[i]) = v})

\* However often a step is saved before it is submitted, no value of the server's is ever changed,
\* duplicated or made up: each list holds the server's rows once each, all of them where rows
\* cannot be removed, and no more rows where none can be added.
ServerValuesKept ==
  /\ ServerPart(kept.number) = ServerPart(given.number)
  /\ \A v \in Values \ {form.default} :
       IF form.removable THEN Count(kept.rows, v) <= Count(given.rows, v)
                         ELSE Count(kept.rows, v) = Count(given.rows, v)
  /\ ~form.addable => Len(kept.rows) <= Len(given.rows)
  /\ ~form.removable => Len(kept.rows) >= Len(given.rows)
============================================================================
