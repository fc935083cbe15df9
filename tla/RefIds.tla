------------------------------- MODULE RefIds -------------------------------
(***************************************************************************)
(* The REFID_GENERATOR plugin: a step's configuration lists places in its  *)
(* inputs, at the root or in each element of a list, that get a number of  *)
(* a format. Every place is checked before the first number is drawn.      *)
(*                                                                         *)
(* The registry (external, core/refid) draws each number in a transaction  *)
(* of its own and never twice; what a failed or repeated activity drew is  *)
(* lost. The activity works on a copy of its inputs, which a repeat starts *)
(* from again, and puts it in the record when every place is filled.       *)
(***************************************************************************)
EXTENDS Naturals, Sequences, FiniteSets, SequencesExt

CONSTANTS
  Elements,     \* indices of the list's elements; the root is 0
  Fields,       \* names of fields
  Generators,   \* steps whose plugins run at once
  Nothing,      \* what a place holds: nothing, an object, or an ID that the inputs hold already
  Object,
  Given,
  MaxNumber,    \* the last number of the format
  MaxRefIdFailures \* bound on runs that fail after drawing numbers

ASSUME RefIdsAssumption ==
  /\ IsFiniteSet(Elements) /\ Elements = 1 .. Cardinality(Elements)
  /\ MaxNumber \in Nat /\ MaxRefIdFailures \in Nat
  /\ Nothing # Object /\ Given \notin {Nothing, Object}
  /\ {Nothing, Object, Given} \cap 1 .. MaxNumber = {}

VARIABLES
  ids,       \* each step's configuration: its entries
  inputs,    \* each step's inputs
  drawn,     \* the numbers drawn of the format
  generator, \* what each step's activity is doing
  output,    \* the record's data of each step
  refIdFailures

refIdVars == <<ids, inputs, drawn, generator, output, refIdFailures>>

----------------------------------------------------------------------------
(* Places and what they hold.                                              *)

\* A field, or a field of an object in a field.
Paths == {<<f>> : f \in Fields} \cup {<<f, g>> : f, g \in Fields}
Places == (Elements \cup {0}) \X Paths
Documents == [Places -> {Nothing, Object, Given} \cup 1 .. MaxNumber]
\* What lies under a place lies in an object.
Nested(at) ==
  \A p, q \in Places : p[1] = q[1] /\ IsStrictPrefix(p[2], q[2]) /\ at[q] # Nothing => at[p] = Object
\* Inputs hold no number of this format.
GivenDocuments == {at \in [Places -> {Nothing, Object, Given}] : Nested(at)}
Entries == [each : BOOLEAN, path : Paths, overwrite : BOOLEAN]
NotGenerating == [pc |-> "idle", doc |-> <<>>, todo |-> <<>>, got |-> {}]

RefIdsType ==
  /\ ids \in [Generators -> Seq(Entries)]
  /\ drawn \in 0 .. MaxNumber
  /\ \A g \in Generators :
       /\ generator[g].pc \in {"idle", "generate", "save", "done", "refused"}
       /\ generator[g].got \subseteq 1 .. drawn
       /\ inputs[g] \in Documents /\ (output[g] # <<>> => output[g] \in Documents)
  /\ refIdFailures \in 0 .. MaxRefIdFailures

\* Mutant: only equal paths overlap.
OverlappingEqual(p, q) == p = q
\* overlapping: one path is the other's or leads to it.
Overlapping(p, q) == IsPrefix(p, q) \/ IsPrefix(q, p)

\* entries: no two of the same kind may overlap.
WellFormed(entries) ==
  /\ entries # <<>>
  /\ \A i, j \in DOMAIN entries :
       i < j /\ entries[i].each = entries[j].each => ~Overlapping(entries[i].path, entries[j].path)

\* collectRefIDTargets: the places of an entry, in order.
Targets(e) ==
  [i \in 1 .. IF e.each THEN Cardinality(Elements) ELSE 1 |->
     [place |-> <<IF e.each THEN i ELSE 0, e.path>>, overwrite |-> e.overwrite]]

AllTargets(entries) == FlattenSeq([i \in DOMAIN entries |-> Targets(entries[i])])

\* checkObjectPath and newRefIDTarget: what is on the way to a place is an object, and what is
\* in it an ID or nothing.
Fillable(doc, place) ==
  /\ Len(place[2]) > 1 => doc[<<place[1], <<place[2][1]>>>>] \in {Nothing, Object}
  /\ doc[place] # Object

\* jsonpointer.Set (external) makes the objects on the way; a value replaces the whole of an object.
Write(doc, place, id) ==
  [p \in Places |->
     IF p = place THEN id
     ELSE IF p[1] = place[1] /\ IsStrictPrefix(p[2], place[2]) THEN Object
     ELSE IF p[1] = place[1] /\ IsStrictPrefix(place[2], p[2]) THEN Nothing
     ELSE doc[p]]

----------------------------------------------------------------------------
(* Execute.                                                                *)

Collect(g) ==
  LET targets == AllTargets(ids[g])
      sound == WellFormed(ids[g]) /\ \A i \in DOMAIN targets : Fillable(inputs[g], targets[i].place)
  IN /\ generator[g].pc = "idle"
     /\ generator' = [generator EXCEPT ![g] =
          IF sound THEN [pc |-> "generate", doc |-> inputs[g], todo |-> targets, got |-> {}]
                   ELSE [NotGenerating EXCEPT !.pc = "refused"]]
     /\ UNCHANGED <<ids, inputs, drawn, output, refIdFailures>>

\* The next place: kept as it is, given the next number, or no longer one that can be written.
Generate(g) ==
  LET target == Head(generator[g].todo)
      doc == generator[g].doc
      holds == doc[target.place] # Nothing
  IN /\ generator[g].pc = "generate" /\ generator[g].todo # <<>>
     /\ IF holds /\ ~target.overwrite
          THEN /\ generator' = [generator EXCEPT ![g].todo = Tail(@)]
               /\ UNCHANGED drawn
          ELSE /\ drawn < MaxNumber
               /\ drawn' = drawn + 1
               /\ generator' = [generator EXCEPT ![g] =
                    [pc |-> "generate", doc |-> Write(doc, target.place, drawn + 1),
                     todo |-> Tail(generator[g].todo), got |-> generator[g].got \cup {drawn + 1}]]
     /\ UNCHANGED <<ids, inputs, output, refIdFailures>>

SaveOutput(g) ==
  /\ generator[g].pc = "generate" /\ generator[g].todo = <<>>
  /\ output' = [output EXCEPT ![g] = generator[g].doc]
  /\ generator' = [generator EXCEPT ![g].pc = "save"]
  /\ UNCHANGED <<ids, inputs, drawn, refIdFailures>>

Completes(g) ==
  /\ generator[g].pc = "save"
  /\ generator' = [generator EXCEPT ![g].pc = "done"]
  /\ UNCHANGED <<ids, inputs, drawn, output, refIdFailures>>

\* A number cannot be drawn or the process dies: the engine runs the activity again.
GeneratorFails(g) ==
  /\ generator[g].pc \in {"generate", "save"}
  /\ refIdFailures < MaxRefIdFailures
  /\ refIdFailures' = refIdFailures + 1
  /\ generator' = [generator EXCEPT ![g] = NotGenerating]
  /\ UNCHANGED <<ids, inputs, drawn, output>>

RefIdsInit(configurations, documents) ==
  /\ ids \in [Generators -> configurations]
  /\ inputs \in [Generators -> documents]
  /\ drawn = 0
  /\ generator = [g \in Generators |-> NotGenerating]
  /\ output = [g \in Generators |-> <<>>]
  /\ refIdFailures = 0

RefIdsNext ==
  \E g \in Generators : Collect(g) \/ Generate(g) \/ SaveOutput(g) \/ Completes(g) \/ GeneratorFails(g)

RefIdsSpec == RefIdsInit(Seq(Entries), GivenDocuments) /\ [][RefIdsNext]_refIdVars

----------------------------------------------------------------------------
(* Properties.                                                             *)

\* A completed step's record holds every number that its run drew, each in one place of one
\* record, and every ID of its inputs that no entry was to overwrite, however its entries,
\* other steps and earlier failed runs interleave.
NumbersLandOnce ==
  \A g \in Generators : generator[g].pc = "done" =>
    /\ \A n \in generator[g].got :
         Cardinality({w \in Generators \X Places : output[w[1]] # <<>> /\ output[w[1]][w[2]] = n}) = 1
    /\ \A p \in Places : inputs[g][p] = Given =>
         \/ output[g][p] = Given
         \/ \E i \in DOMAIN AllTargets(ids[g]) :
              AllTargets(ids[g])[i].place = p /\ AllTargets(ids[g])[i].overwrite
============================================================================
