--------------------------- MODULE OutsideRecords ---------------------------
(***************************************************************************)
(* What a consignment's steps have recorded of the parties outside: of     *)
(* Customs, of the ports authority and its sundry orders, of the ePhyto    *)
(* Hub, and of storage. The steps are of different flows, which run side   *)
(* by side.                                                                *)
(***************************************************************************)
EXTENDS EdgeCalls, SundryOrders, EphytoHub, FiledDocuments

outsideVars == <<edgeCallVars, slpaOrderVars, sundryVars, hubVars, paperVars>>

\* catalogues, keys: of the CMS's services, and of the client keys a task may present; plugins:
\* the ones that store a document.
OutsideInit(catalogues, keys, plugins) ==
  /\ EdgeCallsInit
  /\ SlpaOrdersInit
  /\ SundryInit(catalogues, keys)
  /\ HubInit
  /\ PapersInit(plugins)

OutsideNext ==
  \/ EdgeCallsNext /\ UNCHANGED <<slpaOrderVars, sundryVars, hubVars, paperVars>>
  \/ SlpaOrdersNext /\ UNCHANGED <<edgeCallVars, sundryVars, hubVars, paperVars>>
  \/ SundryNext /\ UNCHANGED <<edgeCallVars, order, cms, branch, unsure, hubVars, paperVars>>
  \/ HubNext /\ UNCHANGED <<edgeCallVars, slpaOrderVars, sundryVars, paperVars>>
  \/ PapersNext /\ UNCHANGED <<edgeCallVars, slpaOrderVars, sundryVars, hubVars>>

OutsideSpec ==
  /\ OutsideInit(Catalogues, {"key", "blank", "other"}, {"generator", "archiver"})
  /\ [][OutsideNext]_outsideVars

----------------------------------------------------------------------------
(* Properties.                                                             *)

\* What a step has recorded of an outside party is so there: of Customs and of the terms on which it
\* was asked, of the ports authority and its sundry orders, of the ePhyto Hub, and of storage.
RecordsMatchOutside ==
  /\ EdgeVerdictsAreTrue
  /\ SlpaBooksAgree
  /\ SundryIsAsOrdered
  /\ HubVerdictsAreTrue
  /\ DocumentsAreCurrent
=============================================================================
