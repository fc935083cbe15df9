------------------------------ MODULE Reviews ------------------------------
(***************************************************************************)
(* The EXTERNAL_REVIEW plugin, which NSW and an agency both run: NSW's     *)
(* first call starts the agency's flow on the same case, and from then on  *)
(* each side answers on the token that the other has parked its step on,   *)
(* handing over its own.                                                   *)
(*                                                                         *)
(* A call whose answer is lost, or that arrives only after its caller has  *)
(* given up on it, is made again. A dispatch made again is recognised by   *)
(* its flow ID; a reply made again meets a step that has moved on.         *)
(***************************************************************************)
EXTENDS Naturals, FiniteSets

CONSTANTS
  ClientFlows,  \* flows.clients: the workflows each client may start
  ReviewClient,   \* the client that NSW calls the agency as
  ReviewFlow,     \* service_workflow_id
  AgencyOU,       \* the deployment's own OU, which becomes an owner of the case
  OwnerRole,      \* flows.clients' owner, a catalog role
  Officers,       \* the agency's officers
  OfficerOU,      \* each officer's OU
  OfficerRoles,   \* the catalog roles that each officer's token roles are mapped to
  MaxRounds,      \* bound on the steps of a side
  MaxLosses       \* bound on answers lost or late

ASSUME ReviewBoundsAssumption == MaxRounds \in Nat /\ MaxLosses \in Nat

VARIABLES
  side,     \* what each side's task is doing
  round,    \* each side's step: its number is its callback token
  peer,     \* the token each side would answer on, 0 when it has none
  about,    \* history: the token that each side had to answer when each of its steps began
  owners,   \* the agency's case_parties of the case
  late,     \* calls given up on that may still arrive
  losses

reviewVars == <<side, round, peer, about, owners, late, losses>>

Sides == {"NSW", "agency"}
Other(s) == CHOOSE o \in Sides : o # s
NoToken == 0
RoundTokens == 0 .. MaxRounds

ReviewsType ==
  /\ side \in [Sides -> {"idle", "work", "calling", "parked", "stale", "refused", "closed"}]
  /\ round \in [Sides -> RoundTokens]
  /\ peer \in [Sides -> RoundTokens]
  /\ about \in [Sides -> [1 .. MaxRounds -> RoundTokens]]
  /\ owners \subseteq [ou : {AgencyOU}, role : {OwnerRole}]
  /\ late \subseteq [from : Sides, token : RoundTokens, replyTo : RoundTokens]
  /\ losses \in 0 .. MaxLosses

\* allowed: the flow is listed for the client that calls.
Allowed == ReviewFlow \in ClientFlows[ReviewClient]

\* requireCatalogRole and owned: an officer sees the case if its OU owns it in one of its roles.
SeesCase(o) == \E p \in owners : p.ou = OfficerOU[o] /\ p.role \in OfficerRoles[o]

\* Execute decides by its replyToken input: none dispatches.
Message(s) == [from |-> s, token |-> round[s], replyTo |-> peer[s]]
IsDispatch(m) == m.from = "NSW" /\ m.replyTo = NoToken

\* Mutant: any parked step takes the call, whichever token it names.
AcceptedByAnyStep(m) == IF IsDispatch(m) THEN Allowed ELSE side[Other(m.from)] = "parked"
\* The other side's route accepts the call: a listed flow, whether it runs yet or not, or a
\* callback on the step that is parked.
Accepted(m) ==
  IF IsDispatch(m) THEN Allowed
                   ELSE side[Other(m.from)] = "parked" /\ round[Other(m.from)] = m.replyTo

\* What an accepted call changes: the other side has new work and a new token to answer on.
\* A dispatch of a flow that runs already changes nothing.
Changes(m) == ~IsDispatch(m) \/ side["agency"] = "idle"

\* Mutant: the token of the call is not kept.
WorkOnOldToken(m, sides) ==
  IF Accepted(m) /\ Changes(m)
    THEN /\ side' = [sides EXCEPT ![Other(m.from)] = "work"]
         /\ peer' = IF IsDispatch(m) THEN [peer EXCEPT !["agency"] = m.token] ELSE peer
         /\ owners' = IF IsDispatch(m) THEN owners \cup {[ou |-> AgencyOU, role |-> OwnerRole]} ELSE owners
    ELSE /\ side' = sides
         /\ UNCHANGED <<peer, owners>>
Work(m, sides) ==
  IF Accepted(m) /\ Changes(m)
    THEN /\ side' = [sides EXCEPT ![Other(m.from)] = "work"]
         /\ peer' = [peer EXCEPT ![Other(m.from)] = m.token]
         /\ owners' = IF IsDispatch(m) THEN owners \cup {[ou |-> AgencyOU, role |-> OwnerRole]} ELSE owners
    ELSE /\ side' = sides
         /\ UNCHANGED <<peer, owners>>

----------------------------------------------------------------------------
\* A person has done a side's work, and its workflow reaches a review step, under a new token.
Ask(s) ==
  /\ side[s] = "work"
  /\ s = "agency" => \E o \in Officers : SeesCase(o)
  /\ round[s] < MaxRounds
  /\ side' = [side EXCEPT ![s] = "calling"]
  /\ round' = [round EXCEPT ![s] = @ + 1]
  /\ about' = [about EXCEPT ![s][round[s] + 1] = peer[s]]
  /\ UNCHANGED <<peer, owners, late, losses>>

\* The call is answered. A 409 to a reply and a refusal fail the step for good.
Post(s) ==
  LET m == Message(s)
      next == CASE Accepted(m) -> "parked"
                [] ~Accepted(m) /\ IsDispatch(m) -> "refused"
                [] OTHER -> "stale"
  IN /\ side[s] = "calling"
     /\ Work(m, [side EXCEPT ![s] = next])
     /\ UNCHANGED <<round, about, late, losses>>

\* The call is made and its answer lost: the step fails and the engine will run it again.
AnswerLost(s) ==
  /\ side[s] = "calling"
  /\ losses < MaxLosses
  /\ losses' = losses + 1
  /\ Work(Message(s), side)
  /\ UNCHANGED <<round, about, late>>

TimedOut(s) ==
  /\ side[s] = "calling"
  /\ losses < MaxLosses
  /\ losses' = losses + 1
  /\ late' = late \cup {Message(s)}
  /\ UNCHANGED <<side, round, peer, about, owners>>

ArrivesLate(m) ==
  /\ late' = late \ {m}
  /\ Work(m, side)
  /\ UNCHANGED <<round, about, losses>>

\* The officer decides: the agency's last call, on NSW's token, ends both tasks.
Decide ==
  /\ side["agency"] = "work"
  /\ \E o \in Officers : SeesCase(o)
  /\ IF side["NSW"] = "parked" /\ round["NSW"] = peer["agency"]
       THEN side' = [s \in Sides |-> "closed"]
       ELSE side' = [side EXCEPT !["agency"] = "refused"]
  /\ UNCHANGED <<round, peer, about, owners, late, losses>>

ReviewsInit ==
  /\ side = [s \in Sides |-> IF s = "NSW" THEN "work" ELSE "idle"]
  /\ round = [s \in Sides |-> 0]
  /\ peer = [s \in Sides |-> NoToken]
  /\ about = [s \in Sides |-> [n \in 1 .. MaxRounds |-> NoToken]]
  /\ owners = {}
  /\ late = {}
  /\ losses = 0

ReviewsNext ==
  \/ \E s \in Sides : Ask(s) \/ Post(s) \/ AnswerLost(s) \/ TimedOut(s)
  \/ \E m \in late : ArrivesLate(m)
  \/ Decide

ReviewsSpec == ReviewsInit /\ [][ReviewsNext]_reviewVars

----------------------------------------------------------------------------
(* Properties.                                                             *)

\* "a late or repeated callback can't complete a later step" (startFlowBody): a parked step goes
\* on only with the token of a step that the other side began in order to answer it, whatever is
\* lost, repeated or late, and is closed only by a decision on what it sent.
AnswersWhatWasAsked ==
  [][\A s \in Sides : side[s] = "parked" /\ side'[s] # "parked" =>
       LET o == Other(s)
       IN /\ side'[s] = "work" => about[o][peer'[s]] = round[s]
          /\ side'[s] = "closed" => peer[o] = round[s]]_reviewVars

\* While no answer is lost, one side is at work and the other waits for it on the token that
\* it holds: no call is refused, so nobody waits for an answer that cannot come.
OneSideWaits ==
  losses = 0 =>
    /\ \A s \in Sides : side[s] # "stale" /\ (Allowed => side[s] # "refused")
    /\ \A s \in Sides : side[s] = "parked" =>
         side[Other(s)] \in {"work", "calling"} /\ peer[Other(s)] = round[s]
============================================================================
