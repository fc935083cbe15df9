----------------------------- MODULE FileAccess -----------------------------
(***************************************************************************)
(* internal/storage, fileaccess and filetoken: stored files, and the sealed*)
(* tokens that stand for them outside the server. A token names its holder,*)
(* its file and what it allows; it is a grant, so nothing but the holder,  *)
(* the scope and the expiry is checked when it comes back.                 *)
(*                                                                         *)
(* A token cannot be made or altered outside the server, so the ones there *)
(* are are the ones issued. Anyone may send any of them.                   *)
(***************************************************************************)
EXTENDS Naturals, FiniteSets

CONSTANTS
  Users,        \* users, by IdP subject
  Clients,      \* machine clients, by client ID
  NoCaller,
  Files,        \* keys of stored files
  NoFile,
  UserTypes,    \* the files of a type that users may upload
  ClientTypes   \* the files of a type that each client may upload

VARIABLES
  tokens,    \* the tokens issued, expired ones included
  uploader,  \* who reserved each file's key; NoCaller while it is free
  contents,  \* the files whose content has been put
  opened     \* history: the callers that have been given a file's download URL

filesVars == <<tokens, uploader, contents, opened>>

Callers == Users \cup Clients
Scopes == {"read", "submit"}
Tokens == [holder : Callers, file : Files, scopes : (SUBSET Scopes) \ {{}}, expired : BOOLEAN]

FilesType ==
  /\ tokens \subseteq Tokens
  /\ uploader \in [Files -> Callers \cup {NoCaller}]
  /\ contents \subseteq Files
  /\ opened \subseteq Callers \X Files

Seal(grant) == [holder |-> grant.holder, file |-> grant.file, scopes |-> grant.scopes, expired |-> FALSE]

Open(ref) == IF ref \notin tokens THEN "invalid" ELSE IF ref.expired THEN "expired" ELSE "ok"

Issue(holder, file, scopes) == Seal([holder |-> holder, file |-> file, scopes |-> scopes])

\* Only a user's token that can read has a lifetime.
Expires(token) == token.holder \in Users /\ "read" \in token.scopes

UploadScopes(caller) == IF caller \in Users THEN {"submit"} ELSE Scopes

\* Mutant: a token is taken from whoever sends it.
ResolutionAnyHolder(caller, ref, need) ==
  IF ref \notin tokens THEN "invalid" ELSE IF need \notin ref.scopes THEN "scope" ELSE "ok"
\* What Resolve makes of a reference. A raw value that is no token is invalid, and a token of
\* someone else is that whatever it allows, even once expired.
Resolution(caller, ref, need) ==
  CASE Open(ref) = "invalid" -> "invalid"
    [] Open(ref) # "invalid" /\ ref.holder # caller -> "not yours"
    [] Open(ref) # "invalid" /\ ref.holder = caller /\ need \notin ref.scopes -> "scope"
    [] OTHER -> Open(ref)

MayUpload(caller, file) == file \in (IF caller \in Users THEN UserTypes ELSE UserTypes \cup ClientTypes[caller])

\* serveUpload: a key is reserved, then a token for it issued.
Upload(caller, file) ==
  /\ uploader[file] = NoCaller
  /\ MayUpload(caller, file)
  /\ uploader' = [uploader EXCEPT ![file] = caller]
  /\ tokens' = tokens \cup {Issue(caller, file, UploadScopes(caller))}
  /\ UNCHANGED <<contents, opened>>

\* The caller puts the content to the presigned URL, or never does.
PutContent(file) ==
  /\ uploader[file] # NoCaller
  /\ file \notin contents
  /\ contents' = contents \cup {file}
  /\ UNCHANGED <<tokens, uploader, opened>>

Download(caller, ref) ==
  /\ Resolution(caller, ref, "read") = "ok"
  /\ ref.file \in contents
  /\ opened' = opened \cup {<<caller, ref.file>>}
  /\ UNCHANGED <<tokens, uploader, contents>>

\* The user's token lifetime passes.
Expire(token) ==
  /\ Expires(token) /\ ~token.expired
  /\ tokens' = (tokens \ {token}) \cup {[token EXCEPT !.expired = TRUE]}
  /\ UNCHANGED <<uploader, contents, opened>>

FilesInit ==
  /\ tokens = {}
  /\ uploader = [f \in Files |-> NoCaller]
  /\ contents = {}
  /\ opened = {}

FilesNext ==
  \/ \E c \in Callers, f \in Files : Upload(c, f)
  \/ \E f \in Files : PutContent(f)
  \/ \E c \in Callers, t \in tokens : Download(c, t)
  \/ \E t \in tokens : Expire(t)
============================================================================
