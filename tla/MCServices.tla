------------------------------ MODULE MCServices ------------------------------
(***************************************************************************)
(* Components that share no state and whose properties are about safety,   *)
(* checked side by side: "part" is chosen in the initial state and is the  *)
(* only one that moves.                                                    *)
(***************************************************************************)
EXTENDS TaskBudget, Sequences, TLC

CONSTANTS
  Workers,       \* processes that share a machine
  Images, Nobody, Dead,
  MaxAges,       \* bound: passages of the grace period
  MaxSlips,      \* bound: failures and crashes around the images
  Words,         \* what a memory may say
  Batches,       \* what a turn may do to the memories
  MaxMemories, MaxTurns,
  MaxChanges,    \* bound: edits and deletions of memories by the user
  MaxUpsets      \* bound: failures and crashes around the memories

\* The names differ, and the bounds are numbers.
ASSUME ImagesAssumption ==
  /\ Nobody \notin Workers /\ Dead \notin Workers
  /\ MaxAges \in Nat /\ MaxSlips \in Nat

\* A batch is a sequence of what write_memory accepts.
ASSUME MemoryAssumption ==
  /\ Words # {} /\ MaxMemories \in Nat /\ MaxTurns \in Nat
  /\ MaxChanges \in Nat /\ MaxUpsets \in Nat
  /\ Batches \subseteq Seq([act : {"remember", "revise", "move", "flag", "forget"}, id : Nat, words : Words,
                          scope : {"project", "global"}, stated : BOOLEAN])

VARIABLES
  part,
  image, marker, owner, mentioned, gcLock, draft, window, ages, slips,
  memories, job, turns, worker, busy, changes, upsets

Attachments == INSTANCE ImageStore WITH
  Processes <- Workers, MaxFaults <- MaxSlips,
  file <- image, journal <- mentioned, lock <- gcLock, proc <- window, faults <- slips

Memory == INSTANCE LongTermMemory WITH
  Processes <- Workers, MaxFaults <- MaxUpsets, faults <- upsets

Says(words, scope, stated) == [act |-> "remember", id |-> 0, words |-> words, scope |-> scope, stated |-> stated]
\* A turn remembers two things, states one, or revises the second.
MCBatches ==
  {<<Says("x", "project", FALSE), Says("y", "project", FALSE)>>, <<Says("x", "global", TRUE)>>,
   <<[Says("x", "project", FALSE) EXCEPT !.act = "revise", !.id = 2]>>}

budgets == vars
images == <<image, marker, owner, mentioned, gcLock, draft, window, ages, slips>>
remembering == <<memories, job, turns, worker, busy, changes, upsets>>
all == <<part, budgets, images, remembering>>

Symmetry == Permutations(Children) \cup Permutations(Workers)

Start ==
  /\ part \in {"budget", "images", "memory"}
  /\ Init /\ Attachments!Init /\ Memory!Init

Move ==
  /\ UNCHANGED part
  /\ \/ part = "budget" /\ Next /\ UNCHANGED <<images, remembering>>
     \/ part = "images" /\ Attachments!Next /\ UNCHANGED <<budgets, remembering>>
     \/ part = "memory" /\ Memory!Next /\ UNCHANGED <<budgets, images>>

SideBySide == Start /\ [][Move]_all

-----------------------------------------------------------------------------
\* An attached image is there when it is sent (ImageStore).
StagedIsKept == part = "images" => Attachments!StagedIsKept
\* What the user deleted stays deleted (LongTermMemory).
DeletionHolds == Memory!DeletionHolds
\* No consolidation loses a statement (LongTermMemory).
StatementsSurvive == Memory!StatementsSurvive
=============================================================================
