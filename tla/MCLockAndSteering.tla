--------------------------- MODULE MCLockAndSteering ---------------------------
(***************************************************************************)
(* Two components of a running turn that share no state, checked side by   *)
(* side: the workspace lock, under two calls of one agent, one of another  *)
(* and one of a child that has no Runtime-issued identity, and the         *)
(* messages that reach the turn: two adjustments and one of a peer, or one  *)
(* adjustment and two of peers. "part" and "mix", the messages that may be *)
(* sent, are chosen in the initial state; only that part moves.            *)
(***************************************************************************)
EXTENDS WorkspaceMutationLock, TLC

CONSTANTS
  a1, a2, b1, n1, AgentA, AgentB,
  Adjustments, Peers, WithImages, MaxTurnImages, PerBoundary, MaxCalls, MaxTurns, MaxCrashes,
  Mixes  \* sets of messages that are sent in one behaviour

\* The images of finitely many adjustments count against a limit, and a
\* boundary admits at least one message.
ASSUME SteeringAssumption ==
  /\ IsFiniteSet(WithImages) /\ MaxTurnImages \in Nat
  /\ PerBoundary \in Nat \ {0}
  /\ MaxCalls \in Nat /\ MaxTurns \in Nat /\ MaxCrashes \in Nat

VARIABLES
  part, mix,
  activeTurn, sealed, pending, assigned, watermark, told, openCalls, abandoned, outcome, turns, inbox, admitted,
  pc, boundary, todo, hand, heard, forked, known, images, routing, asks, steered, result, interrupted, notifier,
  crashes

MCCalls == {a1, a2, b1, n1}
MCOwnerOf == (a1 :> AgentA) @@ (a2 :> AgentA) @@ (b1 :> AgentB) @@ (n1 :> NoOwner)

Steering == INSTANCE TurnSteering

lock == vars
steering ==
  <<activeTurn, sealed, pending, assigned, watermark, told, openCalls, abandoned, outcome, turns, inbox, admitted,
    pc, boundary, todo, hand, heard, forked, known, images, routing, asks, steered, result, interrupted, notifier,
    crashes>>
all == <<part, mix, lock, steering>>

LockMoves(A) == part = "lock" /\ A /\ UNCHANGED <<part, mix, steering>>
SteeringMoves(A) ==
  /\ part = "steering" /\ A /\ UNCHANGED <<part, mix, lock>>
  /\ ToSet(inbox') \cup ToSet(Steering!Accepted') \subseteq mix

Start ==
  /\ part \in {"lock", "steering"} /\ mix \in Mixes /\ (part = "lock" => mix = CHOOSE m \in Mixes : TRUE)
  /\ Init /\ Steering!Init
Move == LockMoves(Next) \/ SteeringMoves(Steering!Next)

\* The fairness of WorkspaceMutationLock!FairSpec and of TurnSteering!Spec.
FairMoves ==
  /\ \A c \in Calls : WF_all(LockMoves(Begin(c))) /\ WF_all(LockMoves(Release(c)))
  /\ WF_all(SteeringMoves(Steering!Drain \/ Steering!Step))

SideBySide == Start /\ [][Move]_all /\ FairMoves

-----------------------------------------------------------------------------
\* No request runs over a waiting adjustment (TurnSteering).
NoDeafAttempt == Steering!NoDeafAttempt
\* The conversation agrees with the journal (TurnSteering).
ConversationKeepsUp == Steering!ConversationKeepsUp
\* Messages come between complete exchanges (TurnSteering).
ProtocolClosed == Steering!ProtocolClosed
\* Exactly once and in order (TurnSteering, SteeringInbox).
DeliversInOrder == Steering!DeliversInOrder
\* A peer's message reaches a turn that goes on (TurnSteering).
PeerMessageIsDelivered == Steering!PeerMessageIsDelivered
=============================================================================
