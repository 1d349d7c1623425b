--------------------------- MODULE MCTasksAndTurns ---------------------------
(***************************************************************************)
(* The task graph, the turn, the reports of child agents and the index of  *)
(* the conversation, which share no state and are checked side by side:    *)
(* "part" is chosen in the initial state and is the only one that moves.   *)
(* A revision of the graph is one edit, or a removal and what is done      *)
(* about it; an edit that makes a task depend on itself is left out (the   *)
(* final assertion refuses it).                                            *)
(***************************************************************************)
EXTENDS TaskGraph, SequencesExt, TLC

CONSTANTS
  Nobody,       \* no agent
  ReportLimit,  \* reports that one delivery takes
  MaxReports,   \* bound: reports posted
  MaxLosses,    \* bound: failed appends and crashes around the reports
  Corrections,  \* times a turn is corrected for the same obligations
  MaxTurns, MaxRequests, MaxCrashes,
  IndexLimit, IndexRetries,
  MaxSaid,      \* bound: messages and summaries
  MaxMishaps    \* bound: what fails around the index

\* The names differ, and a delivery takes a number of reports.
ASSUME MailboxAssumption == Nobody \notin Agents /\ ReportLimit \in Nat

\* Limits and bounds are numbers.
ASSUME LimitsAssumption ==
  /\ Corrections \in Nat /\ MaxTurns \in Nat /\ MaxRequests \in Nat /\ MaxCrashes \in Nat
  /\ IndexLimit \in Nat /\ IndexRetries \in Nat /\ MaxSaid \in Nat /\ MaxMishaps \in Nat

VARIABLES
  part,
  memory, durable, pc, turn, crashes,
  posted, recorded, heard, child, parent, asked, answer, missed, faults,
  history, saved, summary, said, rows, embedded, generation, checkpoint, limits,
  cached, build, backfill, disabled, flow, query, dropped, mishaps

Turn == INSTANCE AgentTurn
Mailbox == INSTANCE SubagentMailbox WITH
  Children <- Agents, None <- Nobody, Limit <- ReportLimit, MaxFaults <- MaxLosses,
  durable <- recorded, memory <- heard
Index == INSTANCE ContextArtifactIndex WITH
  Queries <- Agents, Limit <- IndexLimit, Retries <- IndexRetries, MaxFaults <- MaxMishaps, faults <- mishaps

MCEdits == {e \in Edit : e.op \in {"add_task", "update_task"} => e.task \notin e.deps}
Removals == {e \in MCEdits : e.op = "remove_task"}
MCRevisions == {<<e>> : e \in MCEdits} \cup (Removals \X MCEdits)

graph == vars
turns == <<memory, durable, pc, turn, crashes>>
reports == <<posted, recorded, heard, child, parent, asked, answer, missed, faults>>
index == <<history, saved, summary, said, rows, embedded, generation, checkpoint, limits,
           cached, build, backfill, disabled, flow, query, dropped, mishaps>>
all == <<part, graph, turns, reports, index>>

Symmetry == Permutations(Tasks) \cup Permutations(Agents)

Initially ==
  /\ part \in {"graph", "turn", "reports", "index"}
  /\ Init /\ Turn!Init /\ Mailbox!Init /\ Index!Init

Move ==
  /\ UNCHANGED part
  /\ \/ part = "graph" /\ Next /\ UNCHANGED <<turns, reports, index>>
     \/ part = "turn" /\ Turn!Next /\ UNCHANGED <<graph, reports, index>>
     \/ part = "reports" /\ Mailbox!Next /\ UNCHANGED <<graph, turns, index>>
     \/ part = "index" /\ Index!Next /\ UNCHANGED <<graph, turns, reports>>

SideBySide == Initially /\ [][Move]_all

-----------------------------------------------------------------------------
\* What a process believes of its turn is what its successor replays (AgentTurn).
MemoryIsReplayed == Turn!MemoryIsReplayed
\* Reports of children are read once, and before an answer stands (SubagentMailbox).
ReportsAreRead == part = "reports" => Mailbox!ReportsAreRead
\* A search knows the conversation and nothing else (ContextArtifactIndex).
SearchIsCurrent == Index!SearchIsCurrent
\* An approved plan is not lost with the turn that executes it (AgentTurn).
PlanIsKept == Turn!PlanIsKept
=============================================================================
