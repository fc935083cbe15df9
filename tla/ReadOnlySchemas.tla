-------------------------- MODULE ReadOnlySchemas --------------------------
(***************************************************************************)
(* internal/tasks/extensions/payloadschema/readonly.go: which values of a  *)
(* submission a form's schema marks read-only.  The check follows a schema *)
(* through $ref, allOf, properties and rows; one that marks a value in any *)
(* other way is refused as misconfigured.                                  *)
(*                                                                         *)
(* A schema document is a tree of schemas, numbered from its root, whose   *)
(* $refs may point anywhere. The library (external) compiles a draft-07    *)
(* document without what sits beside a $ref; the trader's browser follows  *)
(* all of it. One name of a property is as good as another here, and one   *)
(* of the keywords that the check does not follow stands for the others.   *)
(***************************************************************************)
EXTENDS Forms

CONSTANTS
  SchemaNodes, \* the numbers of the schemas; 1 is the root
  MaxDepth     \* bound on the depth of the values that are looked at

ASSUME SchemasAssumption == IsFiniteSet(SchemaNodes) /\ 1 \in SchemaNodes

Followed == {"$ref", "allOf", "property", "row"}
Keywords == Followed \cup {"oneOf"}
PathTokens == {"property", "row"}

VARIABLES
  document, \* the schemas as written: their keywords, and which are readOnly or have a default
  walk      \* the check's walk to a value: its path, the node it is at, and whether it is server-owned

schemaVars == <<document, walk>>

Edges == SchemaNodes \X Keywords \X SchemaNodes
SchemaDocuments == [edges : SUBSET Edges, readOnly : SUBSET SchemaNodes, defaults : SUBSET SchemaNodes]
SchemasType ==
  /\ document \in SchemaDocuments
  /\ walk \in [pc : {"load", "refused", "walk"}, path : Seq(PathTokens), node : SUBSET SchemaNodes, owned : BOOLEAN]

----------------------------------------------------------------------------
(* The document.                                                           *)

Under(edges, keywords, S) == {e[3] : e \in {x \in edges : x[1] \in S /\ x[2] \in keywords}}
\* What is reached from S by any number of the keywords.
Reached(edges, keywords, S) ==
  LET r[n \in 0 .. Cardinality(SchemaNodes)] ==
        IF n = 0 THEN S ELSE r[n - 1] \cup Under(edges, keywords, r[n - 1])
  IN r[Cardinality(SchemaNodes)]

HasRef(s) == \E e \in document.edges : e[1] = s /\ e[2] = "$ref"
\* As the library compiles it: beside a $ref, only readOnly is kept.
Compiled == {e \in document.edges : HasRef(e[1]) => e[2] = "$ref"}
CompiledDefaults == {s \in document.defaults : ~HasRef(s)}

\* holdsReadOnly: within what is written under a schema, $refs not followed.
HoldsReadOnly(S) == Reached(document.edges, Keywords \ {"$ref"}, S) \cap document.readOnly # {}
\* refSiblings: a default, or what holds a readOnly, beside a $ref.
RefSiblings ==
  /\ document.readOnly # {}
  /\ \E s \in SchemaNodes : /\ HasRef(s)
                            /\ s \in document.defaults \/ HoldsReadOnly(Under(document.edges, Keywords \ {"$ref"}, {s}))

\* Mutant: a readOnly is looked for among the parts that are not followed, and no deeper.
RefusedAtOnce ==
  Under(Compiled, {"oneOf"}, Reached(Compiled, Followed, {1})) \cap document.readOnly # {}
\* refusedReadOnly: a readOnly is reached through a part that is not followed.
RefusedReadOnly ==
  LET under == Under(Compiled, {"oneOf"}, Reached(Compiled, Followed, {1}))
  IN Reached(Compiled, Keywords, under) \cap document.readOnly # {}

\* sameValue: every schema that applies to the same value.
SameValue(S) == Reached(Compiled, {"$ref", "allOf"}, S)
\* reachesReadOnly.
ReachesReadOnly(s) == Reached(Compiled, Followed, {s}) \cap document.readOnly # {}
\* node: none when nothing in the value needs comparing.
NodeOf(S) == IF \E s \in SameValue(S) : ReachesReadOnly(s) THEN SameValue(S) ELSE {}
\* readOnly, defaultValue.
IsReadOnly(n) == n \cap document.readOnly # {}
HasDefault(n) == n \cap CompiledDefaults # {}

----------------------------------------------------------------------------
\* newReadOnlyForm.
LoadForm ==
  /\ walk.pc = "load"
  /\ walk' = IF RefSiblings \/ RefusedReadOnly THEN [walk EXCEPT !.pc = "refused"]
             ELSE [walk EXCEPT !.pc = "walk", !.node = NodeOf({1}), !.owned = IsReadOnly(NodeOf({1}))]
  /\ UNCHANGED document

\* readOnlyAt, property, row: one token down; what a read-only value holds is read-only.
Descend(token) ==
  /\ walk.pc = "walk" /\ Len(walk.path) < MaxDepth
  /\ LET n == NodeOf(Under(Compiled, {token}, walk.node))
     IN walk' = [walk EXCEPT !.path = Append(@, token), !.node = n, !.owned = @ \/ IsReadOnly(n)]
  /\ UNCHANGED document

SchemasInit(documents) ==
  /\ document \in documents
  /\ walk = [pc |-> "load", path |-> << >>, node |-> {}, owned |-> FALSE]

SchemasNext == LoadForm \/ \E token \in PathTokens : Descend(token)

SchemasSpec == SchemasInit(SchemaDocuments) /\ [][SchemasNext]_schemaVars

\* A form whose schema is loaded, and the submissions that are held against it.
ReadOnlySpec ==
  /\ FormsInit(FormData) /\ SchemasInit(SchemaDocuments)
  /\ [][\/ FormsNext /\ UNCHANGED schemaVars
        \/ SchemasNext /\ UNCHANGED formVars]_<<formVars, schemaVars>>

----------------------------------------------------------------------------
(* Properties.                                                             *)

\* The schemas that the browser may apply to the value at each prefix of a path.
ApplyingTo(path) ==
  LET at[n \in 0 .. Len(path)] ==
        Reached(document.edges, {"$ref", "allOf", "oneOf"},
                IF n = 0 THEN {1} ELSE Under(document.edges, {path[n]}, at[n - 1]))
  IN at
Applying == ApplyingTo(walk.path)

\* What sits beside a $ref has a $ref in turn: refSiblings does not look for a readOnly behind it,
\* and the library has dropped it.
RefBesideRef ==
  \E s \in SchemaNodes :
    /\ HasRef(s)
    /\ \E t \in Reached(document.edges, Keywords \ {"$ref"}, Under(document.edges, Keywords \ {"$ref"}, {s})) : HasRef(t)

\* A form that is accepted hides no read-only value from the check, unless it has a $ref beside a
\* $ref: the value at a path is the server's when some schema that may apply to it, or to a value
\* that holds it, says so. The check takes no other value for the server's, and it knows each
\* default that is written where it compares.
NoReadOnlyIsMissed ==
  walk.pc = "walk" =>
    LET marked == \E n \in 0 .. Len(walk.path) : Applying[n] \cap document.readOnly # {}
    IN /\ walk.owned => marked
       /\ marked /\ ~RefBesideRef => walk.owned
       /\ HasDefault(walk.node) <=> walk.node \cap document.defaults # {}

\* Whatever the form, what the server put into a step stays as it is: no read-only value goes
\* unnoticed, and none that is noticed is changed, lost, repeated or made up.
ReadOnlyIsKept ==
  /\ ServerValuesKept
  /\ NoReadOnlyIsMissed
=============================================================================
