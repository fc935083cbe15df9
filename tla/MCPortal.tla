------------------------------ MODULE MCPortal ------------------------------
(***************************************************************************)
(* The components around the cases, each on an instance of its own: part   *)
(* says which one a behaviour runs, the others stay as they start.         *)
(***************************************************************************)
EXTENDS Consignments, TaskDesk, Reviews, NodeAdmin, Payments, SlpaEvents, ValueWrites,
        OutsideRecords, Splits, ReadOnlySchemas

CONSTANTS a, b, h1, h2, h3, alice, bob, k1, f1, p1, p2, govpay, lanka, i1, i2, v1, v2, o1, o2,
          cargo1, cargo2, cargo3, row1, row2, cont1, cont2, tea, soil, permit, report, video,
          crane, scale, page1, page2, hs1, hs2, hs3, board, customs, npqs

VARIABLE part
Parts == {"consignments", "files", "claims", "review", "admin", "payment", "slpa", "form", "numbers",
          "writes", "edge", "orders", "sundry", "ephyto", "splits", "schemas", "documents"}

\* Two companies, the second a CHA; alice works for the first, bob for the second, in both roles.
MCRows == [k \in Companies |-> [handle |-> IF k = a THEN h1 ELSE h2, hasCHA |-> k = b]]
MCToken == [s \in Subjects |-> IF s = alice THEN h1 ELSE h2]
MCTokenRoles == [s \in Subjects |-> IF s = alice THEN {"trader"} ELSE {"trader", "cha"}]
MCHeldRoles == [s \in Subjects |-> IF s = alice THEN {"trader"} ELSE {"cha"}]
MCStartable == [f \in Flows |-> {"cha"}]

\* A task on the trader's case, whose CHA is at first a third company's.
MCParties == [x \in Cases |-> [r \in Roles |-> IF r = "trader" THEN h1 ELSE h3]]
MCCaseOf == [t \in Tasks |-> 1]
MCRules == <<[submit |-> {"trader", k1}, return |-> {"cha"}]>>
MCDraft == <<"submit">>
MCReadRoles == <<"trader", "cha">>
MCClientTypes == [k \in Clients |-> {}]

\* An agency with an officer of its OU and one of another.
MCClientFlows == [k \in {k1} |-> {"review"}]
MCOfficerOU == [o \in Officers |-> IF o = o1 THEN h2 ELSE h3]
MCOfficerRoles == [o \in Officers |-> {"agency"}]

\* One payee is paid by two methods and configured without an amount; the other by one.
MCMapping == [m \in Methods |-> [p \in Payees |-> IF p = p1 THEN i1 ELSE IF m = govpay THEN i2 ELSE NoIdentity]]
MCFee == [p \in Payees |-> IF p = p1 THEN 0 ELSE 20]

MCForms == [number : ValuesOrMissing, rows : {<<v1, v1, v2>>, <<v1, Missing>>}, filled : {FALSE}]

Entry(each, path, overwrite) == [each |-> each, path |-> path, overwrite |-> overwrite]
MCLists == {<<Entry(TRUE, <<"b">>, FALSE)>>}
MCEntries == MCLists \cup
  {<<Entry(e1, q1, FALSE), Entry(e2, q2, o)>> :
     e1, e2, o \in BOOLEAN, q1 \in {<<"a">>, <<"a", "b">>}, q2 \in {<<"a">>, <<"a", "b">>}}
Holding(places) ==
  [q \in Places |-> IF q \in places THEN Given
                    ELSE IF \E r \in places : r[1] = q[1] /\ IsStrictPrefix(q[2], r[2]) THEN Object
                    ELSE Nothing]
MCInputs == {Holding({}), Holding({<<0, <<"a", "b">>>>, <<1, <<"a">>>>})}

\* A value from the root or from the row, copied or joined with another, to a place of either or over
\* the list; one write, or two that may read what the other writes.
AtRoot(path) == [relative |-> FALSE, path |-> path]
InRow(path) == [relative |-> TRUE, path |-> path]
Writing(each, path, template, from) == [each |-> each, path |-> path, template |-> template, from |-> from]
MCOneWrite ==
  {Writing(e, q, FALSE, <<s>>) :
     e \in BOOLEAN, q \in {<<"a">>, <<"b">>, <<"a", "b">>, ListPath},
     s \in {AtRoot(<<"a">>), AtRoot(<<"b">>), AtRoot(<<"a", "b">>), InRow(<<"a">>), InRow(<<"b">>)}}
  \cup {Writing(TRUE, <<"b">>, TRUE, <<InRow(<<"a">>), AtRoot(<<"b">>)>>),
        Writing(FALSE, <<"a">>, TRUE, <<AtRoot(<<"a", "b">>), AtRoot(<<"b">>)>>), Writing(FALSE, <<"b">>, TRUE, << >>)}
MCWrites == {<<w>> : w \in MCOneWrite} \cup {<<w, x>> : w, x \in MCOneWrite}
HeldBy(list, root) ==
  [list |-> list,
   at |-> [q \in Places |->
             CASE q[2] = <<"a">> -> IF q[1] = 0 /\ <<"a", "b">> \in root THEN Object ELSE <<"x", q[1]>>
               [] q \in {0} \X root -> <<"y", q[2]>>
               [] OTHER -> Nothing]]
MCTexts == {<<"x", row>> : row \in Elements \cup {0}} \cup {<<"y", <<"b">>>>, <<"y", <<"a", "b">>>>}
MCHeld == {HeldBy(list, root) : list \in Lists, root \in {{<<"b">>}, {<<"b">>, <<"a", "b">>}}}

\* An order of two containers.
MCOrderRows == <<row1, row2>>

\* Sundry orders that lack their invoice, name another, lack a line or what it needs, and whole ones.
Line(container, service, quantity) == [container |-> container, service |-> service, quantity |-> quantity]
MCSundryForms ==
  [parent : 0 .. 2, lines : {<<Line(row1, crane, 1)>>}]
  \cup [parent : {1}, lines : {<< >>, <<Line(row2, scale, 2), Line(row1, crane, 1)>>, <<Line(row1, scale, 0)>>,
                               <<Line(row1, crane, 1), Line(row2, NoService, 1)>>, <<Line(NoContainer, scale, 1)>>}]
MCCatalogues == {[s \in Services |-> IF s = crane THEN "sundry" ELSE as] : as \in {"sundry", "standard", "unnamed"}}

\* Certificates of tea, with and without soil, which has no description; a report that is too
\* large, and a permit and a report that are too large together.
Certificate(commodities, out, absent, documents, to, told) ==
  [commodities |-> commodities, documents |-> Papers, send |-> documents, to |-> to, reexport |-> told # {}, answered |-> told,
   picked |-> [x \in Items |-> IF x \in out THEN "out" ELSE IF x \in absent THEN "absent" ELSE "in"]]
MCCertificates ==
  {Certificate({tea, soil}, {soil}, {}, {permit}, TRUE, {}), Certificate({tea}, {}, {tea}, {}, TRUE, {}),
   Certificate({tea}, {tea}, {}, {}, TRUE, {"packing"}), Certificate({tea}, {soil}, {}, {video}, TRUE, {}),
   Certificate({tea}, {}, {}, {permit, report}, TRUE, {}), Certificate({tea}, {soil}, {}, {}, FALSE, {}),
   Certificate({tea}, {}, {soil}, {}, TRUE, Questions)}
MCSize == [d \in Papers |-> IF d = video THEN 4 ELSE 3]

\* The first code asks for the board and for customs, the second for npqs and for customs, the third
\* for nothing; the artifact may say that one replaces others, in ways that are valid and not.
MCMappings == [c \in HSCodes |-> IF c = hs1 THEN <<board, customs>> ELSE IF c = hs2 THEN <<npqs, customs>> ELSE << >>]
MCSelections == {<< >>, <<hs1>>, <<hs2>>, <<hs1, hs2>>, <<hs2, hs1>>, <<hs1, hs3>>}
Replacing(wf, others) == [x \in AgencyFlows |-> IF x = wf THEN others ELSE {}]
MCReplaces ==
  {Replacing(board, {}), Replacing(board, {customs}), Replacing(board, {customs, npqs}), Replacing(npqs, {npqs}),
   [Replacing(board, {npqs}) EXCEPT ![npqs] = {customs}], [Replacing(board, {customs}) EXCEPT ![npqs] = {customs}]}

\* Three schemas, one under another in any way, and a definition; up to two of the three have a $ref,
\* to any of the four.
MCWritten == {k \in Keywords : k # "$ref"}
MCRefs ==
  {R \in SUBSET ((1 .. 3) \X {"$ref"} \X SchemaNodes) :
     Cardinality(R) <= 2 /\ \A q, r \in R : q[1] = r[1] => q = r}
MCDocuments ==
  [edges : {{<<1, k2, 2>>, <<parent, k3, 3>>, <<1, "property", 4>>} \cup refs :
              k2, k3 \in MCWritten, parent \in {1, 2}, refs \in MCRefs},
   readOnly : {{}, {2, 4}} \cup {{s} : s \in SchemaNodes}, defaults : {{}, {2}}]
MCPlain == [edges |-> {<<1, "property", 2>>}, readOnly |-> {}, defaults |-> {}]

----------------------------------------------------------------------------
consPart == <<cased, consignment, createdBy, flows, workVars, profileVars>>
deskPart == <<task, sender, wasIn, call, calls, replacements, wasParty, filesVars>>
casePart == <<consPart, deskPart, party, reviewVars, adminVars, payVars, slpaVars, formVars, refIdVars, writer>>
callPart == <<edgeCallVars, slpaOrderVars, sundryVars, hubVars, splitVars, schemaVars, paperVars>>

Init ==
  /\ part \in Parts
  /\ LET parties == IF part \in {"files", "claims"} THEN MCParties ELSE NoParties
     IN ConsInit(MCRows, MCToken, parties) /\ DeskInit(parties)
  /\ ReviewsInit
  /\ AdminInit /\ (part # "admin" => IsTask /\ node.of = "flow")
  /\ PaymentsInit
  /\ SlpaInit
  /\ FormsInit(MCForms)
  /\ part # "form" => form = [default |-> Missing, addable |-> TRUE, removable |-> TRUE]
                        /\ given.number = Missing /\ Len(given.rows) = 2
  /\ RefIdsInit(MCEntries, MCInputs)
  /\ \A x \in Generators : (part # "numbers" \/ x # "x") => ids[x] \in MCLists /\ inputs[x] = Holding({})
  /\ IF part = "writes" THEN WritesInit(MCWrites, MCHeld)
                        ELSE WritesInit({<<Writing(TRUE, <<"b">>, FALSE, <<AtRoot(<<"a">>)>>)>>}, {HeldBy("rows", {<<"b">>})})
  /\ EdgeCallsInit /\ (part # "edge" => declaring.kind = "note" /\ declaring.form = cargo1)
  /\ SlpaOrdersInit
  /\ IF part = "sundry" THEN SundryInit(MCCatalogues, {"key", "blank", "other"})
                        ELSE SundryInit({[s \in Services |-> "sundry"]}, {"key"}) /\ sundry.containers = {}
  /\ HubInit /\ (part # "ephyto" => ephyto.form.commodities = {tea, soil})
  /\ SchemasInit(IF part = "schemas" THEN MCDocuments ELSE {MCPlain})
  /\ PapersInit(IF part = "documents" THEN {"generator", "archiver"} ELSE {"generator"})
  /\ part # "documents" => paper.source.holds = page1
  /\ SplitsInit(MCReplaces)
  /\ part # "splits" => agency.codes = << >> /\ notes.count = 0
  /\ \/ notes.count = 0
     \/ agency.codes = << >>
  /\ (part # "splits" \/ agency.codes = << >>) => agency.replaces = Replacing(board, {})

\* One request creates a consignment, the other does too or is of the CHA's; operators rename a
\* company and make it a CHA.
ConsPart ==
  /\ ConsNext
  /\ \A r \in Requests : request[r].pc = "idle" /\ request'[r].pc # "idle" =>
       \/ request'[r].kind = "create"
       \/ r = "r2" /\ request'[r].subject = bob
  /\ company' # company => \E k \in Companies : company'[k] \in {[handle |-> h3, hasCHA |-> TRUE]}

Arriving == {r \in Calls : call[r].pc = "idle" /\ call'[r] # call[r]}

\* A claim, a takeover and a release race each other and the completion of the task.
ClaimsPart ==
  /\ \/ \E r \in Calls : CallNext(r)
     \/ \E x \in Cases, h \in Handles : ReplaceParty(x, h)
  /\ \A r \in Arriving :
       \/ call'[r].kind \in {"claim", "release"}
       \/ call'[r].kind = "complete" /\ call'[r].who = alice /\ call'[r].command = "submit"

\* One caller uploads, sends, is shown and opens a file; another call completes the step.
FilesPart ==
  /\ DeskNext
  /\ \A r \in Arriving :
       \/ r = "r1" /\ call'[r].kind \in {"get", "complete", "draft"}
       \/ /\ r = "r2" /\ calls > 0
          /\ call'[r].kind = "complete" /\ call'[r].who = alice /\ call'[r].command = "submit" /\ call'[r].ref = NoRef

Next ==
  \/ /\ part = "consignments" /\ ConsPart
     /\ UNCHANGED <<part, deskPart, reviewVars, adminVars, payVars, slpaVars, formVars, refIdVars, writer, callPart>>
  \/ /\ part = "files" /\ FilesPart
     /\ UNCHANGED <<part, consPart, reviewVars, adminVars, payVars, slpaVars, formVars, refIdVars, writer, callPart>>
  \/ /\ part = "claims" /\ ClaimsPart
     /\ UNCHANGED <<part, consPart, reviewVars, adminVars, payVars, slpaVars, formVars, refIdVars, writer, callPart>>
  \/ /\ part = "review" /\ ReviewsNext
     /\ UNCHANGED <<part, consPart, deskPart, party, adminVars, payVars, slpaVars, formVars, refIdVars, writer, callPart>>
  \/ /\ part = "admin" /\ AdminNext
     /\ UNCHANGED <<part, consPart, deskPart, party, reviewVars, payVars, slpaVars, formVars, refIdVars, writer, callPart>>
  \/ /\ part = "payment" /\ PaymentsNext
     /\ UNCHANGED <<part, consPart, deskPart, party, reviewVars, adminVars, slpaVars, formVars, refIdVars, writer, callPart>>
  \/ /\ part = "slpa" /\ SlpaNext
     /\ UNCHANGED <<part, consPart, deskPart, party, reviewVars, adminVars, payVars, formVars, refIdVars, writer, callPart>>
  \/ /\ part = "form" /\ FormsNext
     /\ UNCHANGED <<part, consPart, deskPart, party, reviewVars, adminVars, payVars, slpaVars, refIdVars, writer, callPart>>
  \/ /\ part = "numbers" /\ RefIdsNext
     /\ UNCHANGED <<part, consPart, deskPart, party, reviewVars, adminVars, payVars, slpaVars, formVars, writer, callPart>>
  \/ /\ part = "writes" /\ WritesNext
     /\ UNCHANGED <<part, consPart, deskPart, party, reviewVars, adminVars, payVars, slpaVars, formVars, refIdVars, callPart>>
  \/ /\ part = "edge" /\ EdgeCallsNext
     /\ UNCHANGED <<part, casePart, slpaOrderVars, sundryVars, hubVars, splitVars, schemaVars, paperVars>>
  \/ /\ part = "orders" /\ SlpaOrdersNext
     /\ UNCHANGED <<part, casePart, edgeCallVars, sundryVars, hubVars, splitVars, schemaVars, paperVars>>
  \/ /\ part = "sundry" /\ SundryNext
     /\ UNCHANGED <<part, casePart, edgeCallVars, order, cms, branch, unsure, hubVars, splitVars, schemaVars, paperVars>>
  \/ /\ part = "ephyto" /\ HubNext
     /\ UNCHANGED <<part, casePart, edgeCallVars, slpaOrderVars, sundryVars, splitVars, schemaVars, paperVars>>
  \/ /\ part = "splits" /\ SplitsNext
     /\ UNCHANGED <<part, casePart, edgeCallVars, slpaOrderVars, sundryVars, hubVars, schemaVars, paperVars>>
  \/ /\ part = "schemas" /\ SchemasNext
     /\ UNCHANGED <<part, casePart, edgeCallVars, slpaOrderVars, sundryVars, hubVars, splitVars, paperVars>>
  \/ /\ part = "documents" /\ PapersNext
     /\ UNCHANGED <<part, casePart, edgeCallVars, slpaOrderVars, sundryVars, hubVars, splitVars, schemaVars>>

allVars == <<part, casePart, callPart>>

Spec == Init /\ [][Next]_allVars

\* Every record of every component has its type (the columns of the tables, the states of the tasks).
PortalType ==
  /\ part \in Parts
  /\ ConsType /\ DeskType /\ ReviewsType /\ AdminType /\ PaymentsType /\ SlpaType /\ FormsType /\ RefIdsType /\ WriterType
  /\ EdgeCallsType /\ SlpaOrdersType /\ SundryType /\ HubType /\ SplitsType /\ SchemasType /\ PapersType
=============================================================================
