---------------------------- MODULE ValueWrites ----------------------------
(***************************************************************************)
(* The VALUE_WRITER plugin: a step's configuration lists places in its     *)
(* inputs, at the root or in each row of a list, that get a value which    *)
(* the inputs hold elsewhere, as it is or put together from several.       *)
(* Places and their overlap are those of REFID_GENERATOR.                  *)
(*                                                                         *)
(* A text is a sequence, so that a template is what it joins; what a       *)
(* template adds of its own is left out, and so is what lies deeper than   *)
(* two fields. An activity whose record was not saved is run again         *)
(* (external, Temporal) from the same inputs.                              *)
(***************************************************************************)
EXTENDS RefIds

CONSTANT Texts \* what a place may hold but an object or nothing

ASSUME WritesAssumption == "list" \notin Fields

VARIABLE writer \* the step: its configuration, its inputs, the copy it fills, what is left to write

ListPath == <<"list">> \* the list itself, no field of the root
Pointers == [relative : BOOLEAN, path : Paths]
\* A template's pointers are its params.
Writes == [each : BOOLEAN, path : Paths \cup {ListPath}, template : BOOLEAN, from : Seq(Pointers)]
\* The list is absent, has a row for each element, or is something else.
Lists == {"none", "rows", "other"}
HeldDocuments == {doc \in [list : Lists, at : [Places -> {Nothing, Object} \cup Texts]] : Nested(doc.at)}

WriterType ==
  /\ writer.pc \in {"idle", "write", "saved", "refused"}
  /\ writer.writes \in Seq(Writes)
  /\ writer.inputs.list \in Lists /\ DOMAIN writer.inputs.at = Places
  /\ writer.doc.list \in Lists /\ DOMAIN writer.doc.at = Places

----------------------------------------------------------------------------
\* What a field of a value adds to the path of its place.
Rests == {<< >>} \cup {<<f>> : f \in Fields}
Text(s) == [r \in Rests |-> IF r = << >> THEN s ELSE Nothing]
\* jsonpointer.Get (external): what is at a place, with what is under it.
ValueAt(doc, place) ==
  [r \in Rests |-> IF Len(place[2] \o r) <= 2 THEN doc.at[<<place[1], place[2] \o r>>] ELSE Nothing]

\* jsonpointer.Set (external): makes the objects on the way. What replaces the list leaves the rows
\* that were collected from it outside the copy.
PutValue(doc, place, value) ==
  IF place[2] = ListPath THEN [list |-> "other", at |-> [p \in Places |-> IF p[1] = 0 THEN doc.at[p] ELSE Nothing]]
  ELSE IF place[1] # 0 /\ doc.list # "rows" THEN doc
  ELSE [doc EXCEPT !.at = [p \in Places |->
          IF p[1] # place[1] THEN @[p]
          ELSE IF IsPrefix(place[2], p[2]) THEN value[SubSeq(p[2], Len(place[2]) + 1, Len(p[2]))]
          ELSE IF IsStrictPrefix(p[2], place[2]) THEN Object
          ELSE @[p]]]

\* entries and parseValueWriteEntry: a path in each row is relative to it, and so may its sources
\* be; no two paths of one scope overlap.
WritesWellFormed(writes) ==
  /\ writes # << >>
  /\ \A i \in DOMAIN writes :
       /\ writes[i].template \/ Len(writes[i].from) = 1
       /\ \A k \in DOMAIN writes[i].from : writes[i].from[k].relative => writes[i].each
       /\ writes[i].each => writes[i].path # ListPath
  /\ \A i, j \in DOMAIN writes :
       i < j /\ writes[i].each = writes[j].each => ~Overlapping(writes[i].path, writes[j].path)

\* The rows that an entry writes to; 0 is the root.
RowsOf(e, doc) == IF e.each THEN IF doc.list = "rows" THEN Elements ELSE {} ELSE {0}
\* refIDPointer.in.
SourcePlace(pointer, row) == <<IF pointer.relative THEN row ELSE 0, pointer.path>>
IsText(value) == value[<< >>] \notin {Nothing, Object}

\* newValueWrite: a place that can be written, and sources that have a value, a template's a text.
Writable(doc, e, row) ==
  /\ Len(e.path) > 1 => doc.at[<<row, <<e.path[1]>>>>] \in {Nothing, Object}
  /\ \A k \in DOMAIN e.from :
       LET value == ValueAt(doc, SourcePlace(e.from[k], row))
       IN value[<< >>] # Nothing /\ (e.template => IsText(value))
ValueOf(doc, e, row) ==
  IF e.template
  THEN Text(FlattenSeq([k \in DOMAIN e.from |-> ValueAt(doc, SourcePlace(e.from[k], row))[<< >>]]))
  ELSE ValueAt(doc, SourcePlace(e.from[1], row))

\* collectValueWrites: the fields of an entry, in order, with their values read.
CollectWrites(doc, e) ==
  LET row(i) == IF e.each THEN i ELSE 0
  IN [i \in 1 .. Cardinality(RowsOf(e, doc)) |-> [place |-> <<row(i), e.path>>, value |-> ValueOf(doc, e, row(i))]]

----------------------------------------------------------------------------
(* Execute.                                                                *)

ReadValues ==
  LET doc == writer.inputs
      sound == /\ WritesWellFormed(writer.writes)
               /\ \A i \in DOMAIN writer.writes :
                    LET e == writer.writes[i]
                    IN (e.each => doc.list # "other") /\ \A row \in RowsOf(e, doc) : Writable(doc, e, row)
  IN /\ writer.pc = "idle"
     /\ writer' = IF ~sound THEN [writer EXCEPT !.pc = "refused"]
                  ELSE [writer EXCEPT !.pc = "write", !.doc = doc,
                          !.todo = FlattenSeq([i \in DOMAIN writer.writes |-> CollectWrites(doc, writer.writes[i])])]

WriteField ==
  /\ writer.pc = "write" /\ writer.todo # << >>
  /\ LET write == Head(writer.todo)
     IN writer' = [writer EXCEPT !.todo = Tail(@), !.doc = PutValue(@, write.place, write.value)]

SaveWritten ==
  /\ writer.pc = "write" /\ writer.todo = << >>
  /\ writer' = [writer EXCEPT !.pc = "saved"]

WriterAgain ==
  /\ writer.pc \in {"write", "saved"}
  /\ writer' = [writer EXCEPT !.pc = "idle", !.todo = << >>]

WritesInit(configurations, documents) ==
  \E writes \in configurations, doc \in documents :
    writer = [pc |-> "idle", writes |-> writes, inputs |-> doc, doc |-> doc, todo |-> << >>]

WritesNext == ReadValues \/ WriteField \/ SaveWritten \/ WriterAgain

WritesSpec == WritesInit(Seq(Writes), HeldDocuments) /\ [][WritesNext]_writer

\* Steps of both kinds, of any configurations.
FilledSpec ==
  /\ RefIdsInit(Seq(Entries), GivenDocuments) /\ WritesInit(Seq(Writes), HeldDocuments)
  /\ [][\/ RefIdsNext /\ UNCHANGED writer
        \/ WritesNext /\ UNCHANGED refIdVars]_<<refIdVars, writer>>

----------------------------------------------------------------------------
(* Properties.                                                             *)

\* The fields that entries write: which entry, and the row; a write replaces what is under its place
\* and makes an object of what its place is in.
WriteTargets ==
  {t \in (DOMAIN writer.writes) \X (Elements \cup {0}) : t[2] \in RowsOf(writer.writes[t[1]], writer.inputs)}
Covers(t, p) == t[2] = p[1] /\ IsPrefix(writer.writes[t[1]].path, p[2])
Enters(t, p) == t[2] = p[1] /\ IsStrictPrefix(p[2], writer.writes[t[1]].path)

\* "The order of the entries doesn't change what they read" (VALUE_WRITER): every field holds what
\* its sources held in the inputs, whichever of them other entries write to, and whatever no entry
\* writes to is as it was; unless an entry replaces the very list that others write into.
ValuesLandAsRead ==
  writer.pc = "saved" =>
    \A p \in Places :
      \/ p[1] # 0 /\ \E i \in DOMAIN writer.writes : writer.writes[i].path = ListPath
      \/ \E t \in WriteTargets :
           /\ Covers(t, p)
           /\ writer.doc.at[p] =
                ValueOf(writer.inputs, writer.writes[t[1]], t[2])
                  [SubSeq(p[2], Len(writer.writes[t[1]].path) + 1, Len(p[2]))]
      \/ /\ \A t \in WriteTargets : ~Covers(t, p)
         /\ writer.doc.at[p] = IF \E t \in WriteTargets : Enters(t, p) THEN Object ELSE writer.inputs.at[p]

\* A step that fills its inputs fills what it was configured to, with what was meant for the place,
\* and touches nothing else: numbers drawn and values copied.
FilledAsAsked ==
  /\ NumbersLandOnce
  /\ ValuesLandAsRead
============================================================================
