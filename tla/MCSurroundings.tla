---------------------------- MODULE MCSurroundings ----------------------------
(***************************************************************************)
(* What surrounds a turn: the worktrees of child agents, commands, the      *)
(* local decision model and the Web interface. They share no state and are  *)
(* checked side by side: "part" is chosen in the initial state and is the   *)
(* only one that moves.                                                    *)
(***************************************************************************)
EXTENDS ExecutionEnvironment, TLC

CONSTANTS
  None, Threads, Processes, Requests, Pages,
  MaxConns,     \* bound: connections to the decision service
  MaxUpsets,    \* bound: crashes and failures around it
  MaxTurns,     \* bound: turns of each process
  MaxBusy,      \* bound: commands under way at once
  MaxFailures,  \* bound: crashes and failures around commands
  MaxChanges, MaxMoves, MaxReplies

\* The names differ, and there are finitely many requests.
ASSUME DecisionsAssumption ==
  /\ None \notin Threads /\ None \notin Processes /\ None \notin [id : Requests, via : 1..MaxConns]
  /\ MaxConns \in Nat /\ IsFiniteSet(Requests)

\* A command starts in some process.
ASSUME CommandsAssumption == Processes # {} /\ MaxTurns \in Nat /\ MaxBusy \in Nat /\ MaxFailures \in Nat

\* No page is None, and the bounds are numbers.
ASSUME WebAssumption ==
  /\ None \notin Pages /\ None \notin Threads
  /\ MaxChanges \in Nat /\ MaxMoves \in Nat /\ MaxReplies \in Nat

VARIABLES
  part,
  cmd, leases, marker, recovery, reason, up, turn, turns, faults,
  file, lock, client, request, service, conn, upsets,
  current, moving, host, page, changes, moves

Terminal == INSTANCE CommandRuntime WITH Commands <- Threads, MaxFaults <- MaxFailures
Decisions == INSTANCE LocalDecision WITH
  Clients <- Threads, Services <- Processes, MaxFaults <- MaxUpsets, recovery <- lock, faults <- upsets
Web == INSTANCE WebConversation

environments == vars
commands == <<cmd, leases, marker, recovery, reason, up, turn, turns, faults>>
decisions == <<file, lock, client, request, service, conn, upsets>>
web == <<current, moving, host, page, changes, moves>>
all == <<part, environments, commands, decisions, web>>

Symmetry == Permutations(Threads) \cup Permutations(Processes)

SetOut ==
  /\ part \in {"environment", "command", "decision", "web"}
  /\ Init /\ Terminal!Init /\ Decisions!Init /\ Web!Init
  /\ part # "decision" => file = None

Move ==
  /\ UNCHANGED part
  /\ \/ part = "environment" /\ Next /\ UNCHANGED <<commands, decisions, web>>
     \/ part = "command" /\ Terminal!Next /\ UNCHANGED <<environments, decisions, web>>
     \/ part = "decision" /\ Decisions!Next /\ UNCHANGED <<environments, commands, web>>
     \/ part = "web" /\ Web!Next /\ UNCHANGED <<environments, commands, decisions>>

SideBySide == SetOut /\ [][Move]_all

-----------------------------------------------------------------------------
\* Nothing starts while a command's end is unknown (CommandRuntime).
UnknownIsBlocked == part = "command" => Terminal!UnknownIsBlocked
\* What a command's result says of its target is so (CommandRuntime).
ReportIsTrue == part = "command" => Terminal!ReportIsTrue
\* A completed turn has seen the end of its background commands (CommandRuntime).
CompletedTurnHasSeenAll == Terminal!CompletedTurnHasSeenAll
\* A service that nobody uses ends (LocalDecision).
UnusedServiceEnds == part = "decision" => Decisions!UnusedServiceEnds
\* A page that has read everything shows the conversation as it is (WebConversation).
PageAgrees == part = "web" => Web!PageAgrees
=============================================================================
