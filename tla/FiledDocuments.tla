--------------------------- MODULE FiledDocuments ---------------------------
(***************************************************************************)
(* The plugins that store a document of a case: HTML_DOCUMENT_GENERATOR    *)
(* renders one from the step's inputs, REMOTE_FILE_ARCHIVER keeps a copy   *)
(* of one that another service hands out by link or sends inline.          *)
(*                                                                         *)
(* Storage (external) gives each file a key of its own. An activity that   *)
(* failed, or whose record was not saved, is run again (external,          *)
(* Temporal), and a loop of the workflow brings the step back with other   *)
(* inputs. The service may come to refuse a link at any time.              *)
(***************************************************************************)
EXTENDS Naturals, Sequences

CONSTANTS
  Contents,  \* of documents
  NoContent, \* what cannot be rendered, decoded or is empty
  MaxDocumentRounds,  \* bound on the rounds of the loop
  MaxDocumentFailures \* bound on failed calls and activities run again

ASSUME PapersAssumption == MaxDocumentRounds \in Nat \ {0} /\ MaxDocumentFailures \in Nat

VARIABLES
  paper,  \* the step: its plugin, its round, what its inputs hold, what it has got so far
  filed,  \* what the record says of the document
  files,  \* storage: the documents, by their keys
  before, \* history: what the record said when the round began
  paperFailures

paperVars == <<paper, filed, files, before, paperFailures>>

NotFiled == [what |-> "nothing", key |-> 0]
\* A link, a data: URI, nothing, or the inputs that a document is rendered from.
Sources(plugin) ==
  IF plugin = "generator" THEN [form : {"inputs"}, holds : Contents \cup {NoContent}]
  ELSE [form : {"link", "inline"}, holds : Contents \cup {NoContent}] \cup {[form |-> "none", holds |-> NoContent]}

PapersType ==
  /\ paper.plugin \in {"generator", "archiver"}
  /\ paper.pc \in {"idle", "store", "save", "done", "failed"}
  /\ paper.source \in Sources(paper.plugin) /\ paper.expired \in BOOLEAN
  /\ paper.round \in 1 .. MaxDocumentRounds
  /\ files \in Seq(Contents)
  /\ \A x \in {filed, before, paper.out} : x.what \in {"nothing", "file", "error"} /\ x.key \in 0 .. Len(files)
  /\ paperFailures \in 0 .. MaxDocumentFailures

----------------------------------------------------------------------------
\* refused: the reason is recorded in the place of the document.
Refused == [what |-> "error", key |-> 0]
\* A call fails, or the process dies: the activity is run again from its start.
PaperFails(kept) ==
  /\ paperFailures < MaxDocumentFailures
  /\ paperFailures' = paperFailures + 1
  /\ files' = kept
  /\ paper' = [paper EXCEPT !.pc = "idle"]
  /\ UNCHANGED <<filed, before>>

\* Execute: what cannot be rendered fails for good, a template that cannot be loaded now is tried again.
RenderDocument ==
  /\ paper.pc = "idle" /\ paper.plugin = "generator"
  /\ \/ /\ paper' = [paper EXCEPT !.pc = IF paper.source.holds = NoContent THEN "failed" ELSE "store"]
        /\ UNCHANGED <<filed, files, before, paperFailures>>
     \/ PaperFails(files)

\* download and decodeDataURI: what the service refuses, is empty, or cannot be decoded.
Unobtainable(source, expired) == source.holds = NoContent \/ (source.form = "link" /\ expired)

\* Execute: no document, the document, the reason why it cannot be had, or a failure to try again.
FetchDocument ==
  LET source == paper.source
  IN /\ paper.pc = "idle" /\ paper.plugin = "archiver"
     /\ \/ /\ paper' = IF source.form = "none" THEN [paper EXCEPT !.pc = "done"]
                        ELSE IF Unobtainable(source, paper.expired) THEN [paper EXCEPT !.pc = "save", !.out = Refused]
                        ELSE [paper EXCEPT !.pc = "store"]
           /\ UNCHANGED <<filed, files, before, paperFailures>>
        \/ source.form = "link" /\ PaperFails(files)

\* Save: every run stores a file of its own.
StoreDocument ==
  LET stored == Append(files, paper.source.holds)
  IN /\ paper.pc = "store"
     /\ \/ /\ files' = stored
           /\ paper' = [paper EXCEPT !.pc = "save", !.out = [what |-> "file", key |-> Len(stored)]]
           /\ UNCHANGED <<filed, before, paperFailures>>
        \/ PaperFails(files) \/ PaperFails(stored)

FileDocument ==
  /\ paper.pc = "save"
  /\ \/ /\ filed' = paper.out
        /\ paper' = [paper EXCEPT !.pc = "done"]
        /\ UNCHANGED <<files, before, paperFailures>>
     \/ PaperFails(files)

LinkExpires ==
  /\ paper.source.form = "link" /\ ~paper.expired
  /\ paper' = [paper EXCEPT !.expired = TRUE]
  /\ UNCHANGED <<filed, files, before, paperFailures>>

\* The workflow comes back to the step.
NextDocument ==
  /\ paper.pc = "done" /\ paper.round < MaxDocumentRounds
  /\ \E source \in Sources(paper.plugin) :
       paper' = [paper EXCEPT !.pc = "idle", !.round = @ + 1, !.source = source, !.expired = FALSE]
  /\ before' = filed
  /\ UNCHANGED <<filed, files, paperFailures>>

PapersInit(plugins) ==
  /\ \E plugin \in plugins : \E source \in Sources(plugin) :
       paper = [plugin |-> plugin, pc |-> "idle", source |-> source, expired |-> FALSE, round |-> 1, out |-> NotFiled]
  /\ filed = NotFiled /\ before = NotFiled
  /\ files = << >> /\ paperFailures = 0

PapersNext == RenderDocument \/ FetchDocument \/ StoreDocument \/ FileDocument \/ LinkExpires \/ NextDocument

----------------------------------------------------------------------------
(* Properties.                                                             *)

\* A step that is over says what became of this round's document, whatever earlier rounds and
\* attempts have stored: the key of a copy of it, or, for one that an outside service would no longer
\* give or that could not be read, that there is none. Where the inputs name no document the record
\* is left as it was.
DocumentsAreCurrent ==
  paper.pc = "done" =>
    \/ filed.what = "file" /\ paper.source.form # "none" /\ files[filed.key] = paper.source.holds
    \/ /\ filed.what = "error" /\ paper.plugin = "archiver"
       /\ paper.source.holds = NoContent \/ paper.expired
    \/ paper.source.form = "none" /\ filed = before
=============================================================================
