---------------------------- MODULE DatabaseLock ----------------------------
(***************************************************************************)
(* The lock that serializes the processes on the SQLite database           *)
(* (DatabaseAdvisoryLock): a directory installed and moved by renames, with *)
(* the file that names its owner inside. A contender moves the directory of *)
(* a dead owner aside, to a tombstone that is never removed; the next       *)
(* owner clears the lock SQLite itself may have left behind (the dependency *)
(* lock) and marks the tombstone recovered. Owners are told dead by their   *)
(* process id alone. A rename onto an empty directory replaces it (POSIX).  *)
(***************************************************************************)
EXTENDS Naturals

CONSTANTS
  Processes,  \* process ids
  Tokens,     \* what attempts draw their random tokens from
  MaxCrashes, \* bound: processes that die
  MaxReuses,  \* bound: ids of dead processes given to new ones
  None,       \* no directory, no token
  Empty       \* a directory without its owner file

ASSUME LockAssumption ==
  /\ None # Empty /\ None \notin Tokens /\ Empty \notin Tokens
  /\ None \notin Processes
  /\ MaxCrashes \in Nat /\ MaxReuses \in Nat

VARIABLES
  lockDir,    \* what the lock directory holds: an owner's token
  stale,      \* what each owner's tombstone holds
  recovered,  \* tombstones marked recovered
  dependency, \* SQLite's own lock directory exists
  owner,      \* the process id each drawn token is recorded with
  alive,      \* the process with the id runs
  pc,         \* where each process is in runExclusive
  token,      \* the token of its attempt
  seen,       \* the dead owner it is about to move aside
  todo,       \* the tombstones it found unrecovered
  crashes, reuses

files == <<lockDir, stale, recovered, dependency>>
vars == <<files, owner, alive, pc, token, seen, todo, crashes, reuses>>

Places == {"out", "waiting", "stealing", "scanning", "checking", "marking",
           "holding", "using", "used", "releasing", "clearing"}

\* A process in one of these believes that the lock is its own.
Inside == {"scanning", "checking", "marking", "holding", "using", "used", "releasing"}
Holds(p) == pc[p] \in Inside

\* ownerState: a process with the recorded id runs.
Dead(t) == ~alive[owner[t]]

TypeOK ==
  /\ lockDir \in Tokens \cup {None, Empty}
  /\ stale \in [Tokens -> Tokens \cup {None, Empty}]
  /\ recovered \subseteq Tokens
  /\ dependency \in BOOLEAN
  /\ owner \in [Tokens -> Processes \cup {None}]
  /\ alive \in [Processes -> BOOLEAN]
  /\ pc \in [Processes -> Places]
  /\ token \in [Processes -> Tokens \cup {None}]
  /\ seen \in [Processes -> Tokens \cup {None}]
  /\ todo \in [Processes -> SUBSET Tokens]
  /\ crashes \in Nat /\ reuses \in Nat

Init ==
  /\ lockDir = None
  /\ stale = [t \in Tokens |-> None]
  /\ recovered = {}
  /\ dependency = FALSE
  /\ owner = [t \in Tokens |-> None]
  /\ alive = [p \in Processes |-> TRUE]
  /\ pc = [p \in Processes |-> "out"]
  /\ token = [p \in Processes |-> None]
  /\ seen = [p \in Processes |-> None]
  /\ todo = [p \in Processes |-> {}]
  /\ crashes = 0 /\ reuses = 0

-----------------------------------------------------------------------------
(* acquire *)

Goto(p, place) == pc' = [pc EXCEPT ![p] = place]

\* newOwner, writeOwnerDirectory: a staging directory of the process's own.
Begin(p) ==
  /\ alive[p] /\ pc[p] = "out"
  /\ \E t \in Tokens :
       /\ owner[t] = None
       /\ owner' = [owner EXCEPT ![t] = p]
       /\ token' = [token EXCEPT ![p] = t]
  /\ Goto(p, "waiting")
  /\ UNCHANGED <<files, alive, seen, todo, crashes, reuses>>

\* The staging directory is renamed to the lock directory.
Install(p) ==
  /\ pc[p] = "waiting" /\ lockDir \in {None, Empty}
  /\ lockDir' = token[p]
  /\ Goto(p, "scanning")
  /\ UNCHANGED <<stale, recovered, dependency, owner, alive, token, seen, todo, crashes, reuses>>

\* The rename fails; the owner is read and found dead.
Observe(p) ==
  /\ pc[p] = "waiting" /\ lockDir \in Tokens
  /\ Dead(lockDir)
  /\ seen' = [seen EXCEPT ![p] = lockDir]
  /\ Goto(p, "stealing")
  /\ UNCHANGED <<files, owner, alive, token, todo, crashes, reuses>>

\* Mutant: The tombstone does not outlive the recovery of its owner.
StealAnyway(p) ==
  /\ pc[p] = "stealing"
  /\ IF lockDir # None
     THEN stale' = [stale EXCEPT ![seen[p]] = lockDir] /\ lockDir' = None
     ELSE UNCHANGED <<stale, lockDir>>
  /\ seen' = [seen EXCEPT ![p] = None]
  /\ Goto(p, "waiting")
  /\ UNCHANGED <<recovered, dependency, owner, alive, token, todo, crashes, reuses>>

\* Mutant: The dead owner's directory is deleted.
StealDeletes(p) ==
  /\ pc[p] = "stealing"
  /\ lockDir' = IF lockDir = seen[p] THEN None ELSE lockDir
  /\ seen' = [seen EXCEPT ![p] = None]
  /\ Goto(p, "waiting")
  /\ UNCHANGED <<stale, recovered, dependency, owner, alive, token, todo, crashes, reuses>>

\* The lock directory, whatever it holds by now, is renamed to the tombstone of
\* the owner that was read, unless that tombstone exists.
Steal(p) ==
  /\ pc[p] = "stealing"
  /\ IF lockDir # None /\ stale[seen[p]] \in {None, Empty}
     THEN stale' = [stale EXCEPT ![seen[p]] = lockDir] /\ lockDir' = None
     ELSE UNCHANGED <<stale, lockDir>>
  /\ seen' = [seen EXCEPT ![p] = None]
  /\ Goto(p, "waiting")
  /\ UNCHANGED <<recovered, dependency, owner, alive, token, todo, crashes, reuses>>

\* The deadline passes.
TimeOut(p) ==
  /\ pc[p] = "waiting"
  /\ token' = [token EXCEPT ![p] = None]
  /\ Goto(p, "out")
  /\ UNCHANGED <<files, owner, alive, seen, todo, crashes, reuses>>

-----------------------------------------------------------------------------
(* prepareDependencyLock *)

Unrecovered == {t \in Tokens : stale[t] # None} \ recovered

\* An unrecovered tombstone must hold the owner it is named for, and that owner
\* must be dead.
Refuses == \E t \in Unrecovered : stale[t] # t \/ ~Dead(t)

Scan(p) ==
  /\ pc[p] = "scanning" /\ ~Refuses
  /\ todo' = [todo EXCEPT ![p] = Unrecovered]
  /\ Goto(p, "checking")
  /\ UNCHANGED <<files, owner, alive, token, seen, crashes, reuses>>

\* The dependency lock is left by one of the dead, or it is not touched.
Check(p) ==
  /\ pc[p] = "checking" /\ (dependency => todo[p] # {})
  /\ dependency' = FALSE
  /\ Goto(p, "marking")
  /\ UNCHANGED <<lockDir, stale, recovered, owner, alive, token, seen, todo, crashes, reuses>>

Mark(p) ==
  /\ pc[p] = "marking"
  /\ \E t \in todo[p] :
       /\ recovered' = recovered \cup {t}
       /\ todo' = [todo EXCEPT ![p] = @ \ {t}]
  /\ UNCHANGED <<lockDir, stale, dependency, owner, alive, pc, token, seen, crashes, reuses>>

Enter(p) ==
  /\ pc[p] = "marking" /\ todo[p] = {}
  /\ Goto(p, "holding")
  /\ UNCHANGED <<files, owner, alive, token, seen, todo, crashes, reuses>>

\* A refusal gives the lock directory back: its owner file is removed, then the
\* directory, unless another process has installed its own in its place.
Refuse(p) ==
  /\ \/ pc[p] = "scanning" /\ Refuses
     \/ pc[p] = "checking" /\ dependency /\ todo[p] = {}
  /\ lockDir' = IF lockDir = token[p] THEN Empty ELSE lockDir
  /\ Goto(p, "clearing")
  /\ UNCHANGED <<stale, recovered, dependency, owner, alive, token, seen, todo, crashes, reuses>>

Clear(p) ==
  /\ pc[p] = "clearing"
  /\ lockDir' = IF lockDir = Empty THEN None ELSE lockDir
  /\ token' = [token EXCEPT ![p] = None]
  /\ Goto(p, "out")
  /\ UNCHANGED <<stale, recovered, dependency, owner, alive, seen, todo, crashes, reuses>>

-----------------------------------------------------------------------------
(* The statement or transaction, and release *)

\* SQLite takes its own lock, or the database is busy.
Use(p) ==
  /\ pc[p] = "holding"
  /\ dependency' = TRUE
  /\ Goto(p, IF dependency THEN "used" ELSE "using")
  /\ UNCHANGED <<lockDir, stale, recovered, owner, alive, token, seen, todo, crashes, reuses>>

EndUse(p) ==
  /\ pc[p] = "using"
  /\ dependency' = FALSE
  /\ Goto(p, "used")
  /\ UNCHANGED <<lockDir, stale, recovered, owner, alive, token, seen, todo, crashes, reuses>>

\* The owner is read again: the release throws when it is another.
CheckOwner(p) ==
  /\ pc[p] = "used"
  /\ IF lockDir = token[p]
     THEN Goto(p, "releasing") /\ UNCHANGED token
     ELSE Goto(p, "out") /\ token' = [token EXCEPT ![p] = None]
  /\ UNCHANGED <<files, owner, alive, seen, todo, crashes, reuses>>

\* Mutant: A rename that fails is ignored.
ReleaseIgnoresFailure(p) ==
  /\ pc[p] = "releasing"
  /\ lockDir' \in {None, lockDir}
  /\ token' = [token EXCEPT ![p] = None]
  /\ Goto(p, "out")
  /\ UNCHANGED <<stale, recovered, dependency, owner, alive, seen, todo, crashes, reuses>>

\* The directory is renamed to one of the process's own, and removed there.
Release(p) ==
  /\ pc[p] = "releasing"
  /\ lockDir' = None
  /\ token' = [token EXCEPT ![p] = None]
  /\ Goto(p, "out")
  /\ UNCHANGED <<stale, recovered, dependency, owner, alive, seen, todo, crashes, reuses>>

-----------------------------------------------------------------------------
(* The process dies at any point; its id may be given to a new one. *)

Crash(p) ==
  /\ alive[p] /\ crashes < MaxCrashes
  /\ crashes' = crashes + 1
  /\ alive' = [alive EXCEPT ![p] = FALSE]
  /\ Goto(p, "out")
  /\ token' = [token EXCEPT ![p] = None]
  /\ seen' = [seen EXCEPT ![p] = None]
  /\ todo' = [todo EXCEPT ![p] = {}]
  /\ UNCHANGED <<files, owner, reuses>>

Reuse(p) ==
  /\ ~alive[p] /\ reuses < MaxReuses
  /\ reuses' = reuses + 1
  /\ alive' = [alive EXCEPT ![p] = TRUE]
  /\ UNCHANGED <<files, owner, pc, token, seen, todo, crashes>>

Acquire(p) == Install(p) \/ Observe(p) \/ Steal(p)
Prepare(p) == Scan(p) \/ Check(p) \/ Mark(p) \/ Enter(p) \/ Refuse(p) \/ Clear(p)
Finish(p) == Use(p) \/ EndUse(p) \/ CheckOwner(p) \/ Release(p)

Next ==
  \E p \in Processes :
    Begin(p) \/ Acquire(p) \/ TimeOut(p) \/ Prepare(p) \/ Finish(p) \/ Crash(p) \/ Reuse(p)

Spec == Init /\ [][Next]_vars

\* Fairness: a process that runs goes on with its attempt; nothing obliges it
\* to start one, and nothing is assumed of its deadline.
FairSpec ==
  Spec /\ \A p \in Processes : WF_vars(Acquire(p)) /\ WF_vars(Prepare(p)) /\ WF_vars(Finish(p))

-----------------------------------------------------------------------------
(* Properties *)

\* At most one process believes that the lock is its own, and the lock directory
\* names it: it cannot be moved aside under an owner that runs, nor two be let in
\* by the recovery of the same dead owner, so that a release never finds another.
MutualExclusion ==
  \A p \in Processes : Holds(p) =>
    /\ lockDir = token[p]
    /\ \A q \in Processes \ {p} : ~Holds(q)

\* SQLite's lock is never taken for a live one and never left for good: whoever
\* dies with it, during a statement or during the recovery of another, its next
\* owner has a dead owner to blame it on before it starts, and none after.
OrphansAreRecoverable ==
  \A p \in Processes :
    /\ pc[p] = "checking" /\ dependency => todo[p] # {}
    /\ pc[p] \in {"marking", "holding", "used", "releasing"} => ~dependency

\* Whoever waits for the lock gets it or gives up, whatever crashes on the way
\* and wherever, as long as no process id is reused.
WaitingEnds ==
  \A p \in Processes :
    pc[p] = "waiting" /\ reuses = 0 ~> pc[p] \in {"out", "holding"} \/ reuses # 0
=============================================================================
