--------------------------- MODULE MCComponents ---------------------------
(***************************************************************************)
(* Components that share no state, checked side by side: "part" is chosen   *)
(* in the initial state and is the only one that moves.                    *)
(***************************************************************************)
EXTENDS DatabaseLock, Sequences, FiniteSets

CONSTANTS
  Openers,     \* processes that open the thread
  Gone,        \* a process that has died, as the lease names it
  MaxEvents,   \* bound: events of the journal
  MaxFailures, \* bound: failed writes, crashes and power losses around the journal
  Retain, MaxAttempts,
  MaxHistory, MaxFacts, MaxDeaths  \* bounds: exchanges, changes of the facts, crashes

\* The names differ, and the bounds are numbers.
ASSUME JournalAssumption ==
  /\ None \notin Openers /\ Gone \notin Openers /\ None # Gone
  /\ MaxEvents \in Nat \ {0} /\ MaxFailures \in Nat
ASSUME MaintenanceAssumption ==
  /\ Retain \in Nat /\ MaxAttempts \in Nat
  /\ MaxHistory \in Nat /\ MaxFacts \in Nat /\ MaxDeaths \in Nat

VARIABLES
  part,
  lines, ended, synced, row, indexed, lease, where, snapshot, current, acked, drawn, deletion, faults,
  history, facts, queued, known, compacted, summary, referenced, reset, rebased, checked, tx, stage, run, deaths

Journal == INSTANCE ThreadJournal WITH
  Processes <- Openers, MaxFaults <- MaxFailures, pc <- where
Compaction == INSTANCE CompactionTransaction WITH
  MaxCrashes <- MaxDeaths, crashes <- deaths

lock == vars
journal == <<lines, ended, synced, row, indexed, lease, where, snapshot, current, acked, drawn, deletion, faults>>
maintenance ==
  <<history, facts, queued, known, compacted, summary, referenced, reset, rebased, checked, tx, stage, run,
    deaths>>
all == <<part, lock, journal, maintenance>>

Start ==
  /\ part \in {"lock", "journal", "compaction"}
  /\ Init /\ Journal!Init /\ Compaction!Init

LockMoves(A) == part = "lock" /\ A /\ UNCHANGED <<part, journal, maintenance>>
JournalMoves(A) == part = "journal" /\ A /\ UNCHANGED <<part, lock, maintenance>>
CompactionMoves(A) == part = "compaction" /\ A /\ UNCHANGED <<part, lock, journal>>

Move ==
  \/ LockMoves(Next)
  \/ JournalMoves(Journal!Next)
  \/ CompactionMoves(Compaction!Next)

\* The fairness of DatabaseLock!FairSpec and of CompactionTransaction!Spec.
Fairness ==
  /\ \A p \in Processes : WF_all(LockMoves(Acquire(p))) /\ WF_all(LockMoves(Prepare(p))) /\ WF_all(LockMoves(Finish(p)))
  /\ WF_all(CompactionMoves(Compaction!Work))

SideBySide == Start /\ [][Move]_all /\ Fairness

-----------------------------------------------------------------------------
\* The journal implements a log that loses nothing acknowledged (EventLog).
ImplementsLog == Journal!ImplementsLog

\* The journal takes the events of maintenance (CompactionTransaction).
JournalAcceptsEvents == Compaction!JournalAcceptsEvents
\* No summary request of unknown outcome is sent again (CompactionTransaction).
NeverAskedAgain == Compaction!NeverAskedAgain
\* A step of the loop gets through maintenance (CompactionTransaction).
StepGoesOn == part = "compaction" => Compaction!StepGoesOn
=============================================================================
