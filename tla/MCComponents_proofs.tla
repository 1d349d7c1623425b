------------------------ MODULE MCComponents_proofs ------------------------
(***************************************************************************)
(* Proofs for the components that MCComponents runs side by side.  What is *)
(* written of a component, in terms of the instance that names it, holds   *)
(* of the component; the theorems at the end say so of the whole.          *)
(*                                                                         *)
(* The database lock excludes, and what a dead owner leaves behind is      *)
(* always recoverable, for any processes, crashes and reused ids           *)
(* (LockInvariant).                                                        *)
(*                                                                         *)
(* The journal of a thread (Journal!) implements the log of EventLog, for  *)
(* every number of processes and events and for every number of failed     *)
(* writes, crashes and power losses. JournalInv is inductive: at most the  *)
(* last line cannot be read, no event id is used twice, and what was       *)
(* acknowledged, or is about to be, stands among the lines the disk holds. *)
(* Neither the lease nor the exclusion of transactions is needed for that: *)
(* a process that appends looks at the file as it is.                      *)
(*                                                                         *)
(* Maintenance (Compaction!) writes only what the journal's reader takes   *)
(* and asks for a summary once per attempt, through crashes and changes of *)
(* the conversation under it. CompactionInv ties what the process has in   *)
(* hand to the transaction in the journal: where it asks and commits, the  *)
(* transaction is pending, starts where the conversation is compacted and  *)
(* has the facts the process has (StageInv).                               *)
(***************************************************************************)
EXTENDS MCComponents, SequenceTheorems, TLAPS

-----------------------------------------------------------------------------
(* The database lock *)

Typed ==
  /\ lockDir \in Tokens \cup {None, Empty}
  /\ stale \in [Tokens -> Tokens \cup {None, Empty}]
  /\ recovered \subseteq Tokens
  /\ dependency \in BOOLEAN
  /\ owner \in [Tokens -> Processes \cup {None}]
  /\ alive \in [Processes -> BOOLEAN]
  /\ pc \in [Processes -> Places]
  /\ token \in [Processes -> Tokens \cup {None}]
  /\ seen \in [Processes -> Tokens \cup {None}]
  /\ todo \in [Processes -> SUBSET Tokens]

(* A process in an attempt runs, under a token recorded with its id that    *)
(* is no tombstone's.                                                       *)
Attempting ==
  \A p \in Processes :
    /\ pc[p] # "out" => alive[p] /\ token[p] # None
    /\ token[p] # None => pc[p] # "out" /\ owner[token[p]] = p /\ stale[token[p]] = None

(* What the lock directory and the tombstones hold are recorded owners; a   *)
(* tombstone holds the owner it is named for and only those are marked, or   *)
(* about to be.                                                             *)
Named ==
  /\ lockDir \in Tokens => owner[lockDir] # None
  /\ \A t \in Tokens : stale[t] \in {None, t} /\ (stale[t] = t => owner[t] # None)
  /\ \A t \in recovered : stale[t] = t
  /\ \A p \in Processes : \A t \in todo[p] : stale[t] = t

(* The lock directory names who believes to hold it, and nobody else.       *)
Held ==
  \A p \in Processes :
    /\ Holds(p) => lockDir = token[p]
    /\ pc[p] # "out" /\ ~Holds(p) => lockDir # token[p]

(* Who is about to move an owner aside has seen a dead one, and either it is *)
(* there still or its tombstone is.                                          *)
Thieves ==
  \A p \in Processes : pc[p] = "stealing" =>
    /\ seen[p] \in Tokens /\ owner[seen[p]] # None
    /\ \A q \in Processes : token[q] # seen[p]
    /\ lockDir = seen[p] \/ stale[seen[p]] = seen[p]

(* SQLite's lock is in use, or some dead owner answers for it.              *)
Blamed ==
  dependency =>
    \/ \E p \in Processes : pc[p] = "using"
    \/ Unrecovered # {}
    \/ lockDir \in Tokens /\ \A p \in Processes : token[p] # lockDir

Orphans ==
  /\ Blamed
  /\ \A p \in Processes :
       /\ pc[p] = "checking" => todo[p] = Unrecovered
       /\ pc[p] \in {"marking", "holding", "used", "releasing"} => ~dependency

LockInvariant == Typed /\ Attempting /\ Named /\ Held /\ Thieves /\ Orphans

(* Two processes inside would be one.                                       *)
LEMMA OneInside ==
  ASSUME Typed, Attempting, Held, NEW p \in Processes, NEW q \in Processes, Holds(p), Holds(q)
  PROVE  p = q
BY DEF Typed, Attempting, Held, Holds, Inside

(* Whose token the lock directory holds is inside.                          *)
LEMMA InsideHasDirectory ==
  ASSUME Typed, Attempting, Held, NEW p \in Processes, lockDir = token[p], token[p] # None
  PROVE  Holds(p)
BY DEF Typed, Attempting, Held

LEMMA InitHolds == Init => LockInvariant
<1> SUFFICES ASSUME Init PROVE LockInvariant
  OBVIOUS
<1>1. Typed
  <2>1. dependency \in BOOLEAN
    BY Zenon DEF Init
  <2>2. QED
    BY <2>1, LockAssumption DEF Init, Typed, Places
<1>2. Attempting /\ Named
  BY LockAssumption DEF Init, Attempting, Named
<1>3. Held /\ Thieves
  BY LockAssumption DEF Init, Held, Thieves, Holds, Inside
<1>4. Orphans
  BY DEF Init, Orphans, Blamed
<1>5. QED
  BY <1>1, <1>2, <1>3, <1>4 DEF LockInvariant

-----------------------------------------------------------------------------
(* acquire *)

LEMMA BeginHolds ==
  ASSUME LockInvariant, NEW q \in Processes, Begin(q)
  PROVE  LockInvariant'
<1> PICK t \in Tokens :
      /\ owner[t] = None
      /\ owner' = [owner EXCEPT ![t] = q]
      /\ token' = [token EXCEPT ![q] = t]
  BY DEF Begin
<1>1. Typed /\ Attempting /\ Named /\ Held /\ Thieves /\ Orphans
  BY DEF LockInvariant
<1>2. /\ pc[q] = "out" /\ pc' = [pc EXCEPT ![q] = "waiting"]
      /\ UNCHANGED <<lockDir, stale, recovered, dependency, alive, seen, todo>>
      /\ alive[q]
  BY DEF Begin, Goto, files
<1>3. /\ stale[t] = None /\ lockDir # t
      /\ \A p \in Processes : token[p] # t
  BY <1>1, LockAssumption DEF Typed, Named, Attempting
<1>4. Typed'
  BY <1>1, <1>2 DEF Typed, Places
<1>5. Attempting'
  BY <1>1, <1>2, <1>3, LockAssumption DEF Typed, Attempting
<1>6. Named'
  BY <1>1, <1>2, <1>3, LockAssumption DEF Typed, Named
<1>7. Held'
  BY <1>1, <1>2, <1>3 DEF Typed, Held, Holds, Inside
<1>8. Thieves'
  <2> SUFFICES ASSUME NEW p \in Processes, pc'[p] = "stealing"
               PROVE  /\ seen'[p] \in Tokens /\ owner'[seen'[p]] # None
                      /\ \A r \in Processes : token'[r] # seen'[p]
                      /\ lockDir' = seen'[p] \/ stale'[seen'[p]] = seen'[p]
    BY DEF Thieves
  <2>1. pc[p] = "stealing" /\ p # q
    BY <1>1, <1>2 DEF Typed
  <2>2. seen[p] # t
    BY <1>1, <2>1 DEF Thieves
  <2>3. QED
    BY <1>1, <1>2, <2>1, <2>2, LockAssumption DEF Typed, Thieves
<1>9. Orphans'
  BY <1>1, <1>2, <1>3 DEF Typed, Orphans, Blamed, Unrecovered
<1>10. QED
  BY <1>4, <1>5, <1>6, <1>7, <1>8, <1>9 DEF LockInvariant

LEMMA InstallHolds ==
  ASSUME LockInvariant, NEW q \in Processes, Install(q)
  PROVE  LockInvariant'
<1>1. Typed /\ Attempting /\ Named /\ Held /\ Thieves /\ Orphans
  BY DEF LockInvariant
<1>2. /\ pc[q] = "waiting" /\ pc' = [pc EXCEPT ![q] = "scanning"]
      /\ lockDir \in {None, Empty} /\ lockDir' = token[q]
      /\ UNCHANGED <<stale, recovered, dependency, owner, alive, token, seen, todo>>
  BY DEF Install, Goto
<1>3. /\ token[q] \in Tokens /\ owner[token[q]] = q
      /\ \A p \in Processes \ {q} : token[p] # token[q] /\ ~Holds(p)
      /\ \A p \in Processes : pc[p] = "stealing" => token[q] # seen[p] /\ stale[seen[p]] = seen[p]
  BY <1>1, <1>2, LockAssumption DEF Typed, Attempting, Held, Thieves, Holds, Inside
<1>4. Typed' /\ Attempting' /\ Named'
  BY <1>1, <1>2, <1>3, LockAssumption DEF Typed, Attempting, Named, Places
<1>5. Held'
  BY <1>1, <1>2, <1>3 DEF Typed, Attempting, Held, Holds, Inside
<1>6. Thieves'
  BY <1>1, <1>2, <1>3 DEF Typed, Thieves
<1>7. Orphans'
  BY <1>1, <1>2, <1>3, LockAssumption DEF Typed, Orphans, Blamed, Unrecovered, Holds, Inside
<1>8. QED
  BY <1>4, <1>5, <1>6, <1>7 DEF LockInvariant

LEMMA ObserveHolds ==
  ASSUME LockInvariant, NEW q \in Processes, Observe(q)
  PROVE  LockInvariant'
<1>1. Typed /\ Attempting /\ Named /\ Held /\ Thieves /\ Orphans
  BY DEF LockInvariant
<1>2. /\ pc[q] = "waiting" /\ pc' = [pc EXCEPT ![q] = "stealing"]
      /\ lockDir \in Tokens /\ ~alive[owner[lockDir]]
      /\ seen' = [seen EXCEPT ![q] = lockDir]
      /\ UNCHANGED <<lockDir, stale, recovered, dependency, owner, alive, token, todo>>
  BY DEF Observe, Goto, files, Dead
<1>3. owner[lockDir] # None /\ \A p \in Processes : token[p] # lockDir
  BY <1>1, <1>2, LockAssumption DEF Typed, Attempting, Named
<1>4. Typed' /\ Attempting' /\ Named'
  BY <1>1, <1>2 DEF Typed, Attempting, Named, Places
<1>5. Held'
  BY <1>1, <1>2, <1>3 DEF Typed, Held, Holds, Inside
<1>6. Thieves'
  BY <1>1, <1>2, <1>3 DEF Typed, Thieves
<1>7. Orphans'
  BY <1>1, <1>2 DEF Typed, Orphans, Blamed, Unrecovered
<1>8. QED
  BY <1>4, <1>5, <1>6, <1>7 DEF LockInvariant

LEMMA StealHolds ==
  ASSUME LockInvariant, NEW q \in Processes, Steal(q)
  PROVE  LockInvariant'
<1> DEFINE s == seen[q]
<1>1. Typed /\ Attempting /\ Named /\ Held /\ Thieves /\ Orphans
  BY DEF LockInvariant
<1>2. /\ pc[q] = "stealing" /\ pc' = [pc EXCEPT ![q] = "waiting"]
      /\ seen' = [seen EXCEPT ![q] = None]
      /\ UNCHANGED <<recovered, dependency, owner, alive, token, todo>>
  BY DEF Steal, Goto
<1>3. /\ s \in Tokens /\ owner[s] # None
      /\ \A p \in Processes : token[p] # s
      /\ lockDir = s \/ stale[s] = s
  BY <1>1, <1>2 DEF Thieves
<1>4. CASE UNCHANGED <<stale, lockDir>>
  <2>1. Typed' /\ Attempting' /\ Named'
    BY <1>1, <1>2, <1>4 DEF Typed, Attempting, Named, Places
  <2>2. Held'
    BY <1>1, <1>2, <1>3, <1>4 DEF Typed, Held, Holds, Inside
  <2>3. Thieves'
    BY <1>1, <1>2, <1>4 DEF Typed, Thieves
  <2>4. Orphans'
    BY <1>1, <1>2, <1>4 DEF Typed, Orphans, Blamed, Unrecovered
  <2>5. QED
    BY <2>1, <2>2, <2>3, <2>4 DEF LockInvariant
<1>5. CASE /\ lockDir # None /\ stale[s] \in {None, Empty}
           /\ stale' = [stale EXCEPT ![s] = lockDir] /\ lockDir' = None
  <2>1. lockDir = s /\ stale[s] = None
    BY <1>1, <1>3, <1>5, LockAssumption DEF Named
  <2> HIDE DEF s
  <2>2. \A p \in Processes : ~Holds(p)
    BY <1>1, <1>3, <2>1 DEF Held
  <2>3. Typed'
    BY <1>1, <1>2, <1>3, <1>5 DEF Typed, Places
  <2>4. Attempting' /\ Named'
    BY <1>1, <1>2, <1>3, <1>5, <2>1, LockAssumption DEF Typed, Attempting, Named
  <2>5. Held'
    BY <1>1, <1>2, <1>5, <2>2, LockAssumption DEF Typed, Attempting, Held, Holds, Inside
  <2>6. Thieves'
    <3> SUFFICES ASSUME NEW p \in Processes, pc'[p] = "stealing"
                 PROVE  /\ seen'[p] \in Tokens /\ owner'[seen'[p]] # None
                        /\ \A r \in Processes : token'[r] # seen'[p]
                        /\ stale'[seen'[p]] = seen'[p]
      BY DEF Thieves
    <3>1. p # q /\ pc[p] = "stealing" /\ seen'[p] = seen[p]
      BY <1>1, <1>2 DEF Typed
    <3>2. stale'[seen[p]] = seen[p]
      BY <1>1, <1>5, <2>1, <3>1 DEF Typed, Thieves
    <3>3. QED
      BY <1>1, <1>2, <3>1, <3>2 DEF Thieves
  <2>7. s \in Unrecovered'
    BY <1>1, <1>2, <1>3, <1>5, <2>1, LockAssumption DEF Typed, Named, Unrecovered
  <2>8. Orphans'
    BY <1>1, <1>2, <2>2, <2>7 DEF Typed, Orphans, Blamed, Holds, Inside
  <2>9. QED
    BY <2>3, <2>4, <2>5, <2>6, <2>8 DEF LockInvariant
<1>6. QED
  BY <1>4, <1>5 DEF Steal

LEMMA TimeOutHolds ==
  ASSUME LockInvariant, NEW q \in Processes, TimeOut(q)
  PROVE  LockInvariant'
<1>1. Typed /\ Attempting /\ Named /\ Held /\ Thieves /\ Orphans
  BY DEF LockInvariant
<1>2. /\ pc[q] = "waiting" /\ pc' = [pc EXCEPT ![q] = "out"]
      /\ token' = [token EXCEPT ![q] = None]
      /\ UNCHANGED <<lockDir, stale, recovered, dependency, owner, alive, seen, todo>>
  BY DEF TimeOut, Goto, files
<1>3. Typed' /\ Attempting' /\ Named'
  BY <1>1, <1>2 DEF Typed, Attempting, Named, Places
<1>4. Held'
  BY <1>1, <1>2 DEF Typed, Held, Holds, Inside
<1>5. Thieves'
  BY <1>1, <1>2, LockAssumption DEF Typed, Thieves
<1>6. Orphans'
  BY <1>1, <1>2, LockAssumption DEF Typed, Orphans, Blamed, Unrecovered
<1>7. QED
  BY <1>3, <1>4, <1>5, <1>6 DEF LockInvariant

-----------------------------------------------------------------------------
(* prepareDependencyLock *)

LEMMA ScanHolds ==
  ASSUME LockInvariant, NEW q \in Processes, Scan(q)
  PROVE  LockInvariant'
<1>1. Typed /\ Attempting /\ Named /\ Held /\ Thieves /\ Orphans
  BY DEF LockInvariant
<1>2. /\ pc[q] = "scanning" /\ pc' = [pc EXCEPT ![q] = "checking"]
      /\ todo' = [todo EXCEPT ![q] = Unrecovered]
      /\ UNCHANGED <<lockDir, stale, recovered, dependency, owner, alive, token, seen>>
  BY DEF Scan, Goto, files
<1>3. Typed' /\ Attempting' /\ Named'
  BY <1>1, <1>2 DEF Typed, Attempting, Named, Places, Unrecovered
<1>4. Held'
  BY <1>1, <1>2 DEF Typed, Held, Holds, Inside
<1>5. Thieves'
  BY <1>1, <1>2 DEF Typed, Thieves
<1>6. Orphans'
  BY <1>1, <1>2 DEF Typed, Orphans, Blamed, Unrecovered
<1>7. QED
  BY <1>3, <1>4, <1>5, <1>6 DEF LockInvariant

LEMMA CheckHolds ==
  ASSUME LockInvariant, NEW q \in Processes, Check(q)
  PROVE  LockInvariant'
<1>1. Typed /\ Attempting /\ Named /\ Held /\ Thieves /\ Orphans
  BY DEF LockInvariant
<1>2. /\ pc[q] = "checking" /\ pc' = [pc EXCEPT ![q] = "marking"]
      /\ dependency' = FALSE
      /\ UNCHANGED <<lockDir, stale, recovered, owner, alive, token, seen, todo>>
  BY DEF Check, Goto
<1>3. Typed' /\ Attempting' /\ Named'
  <2>1. dependency' \in BOOLEAN
    BY <1>2, Zenon
  <2>2. Typed'
    BY <1>1, <1>2, <2>1 DEF Typed, Places
  <2>3. Attempting' /\ Named'
    BY <1>1, <1>2 DEF Typed, Attempting, Named
  <2>4. QED
    BY <2>2, <2>3
<1>4. Held'
  BY <1>1, <1>2 DEF Typed, Held, Holds, Inside
<1>5. Thieves'
  BY <1>1, <1>2 DEF Typed, Thieves
<1>6. Orphans'
  BY <1>1, <1>2 DEF Typed, Orphans, Blamed, Unrecovered
<1>7. QED
  BY <1>3, <1>4, <1>5, <1>6 DEF LockInvariant

LEMMA MarkHolds ==
  ASSUME LockInvariant, NEW q \in Processes, Mark(q)
  PROVE  LockInvariant'
<1> PICK t \in todo[q] :
      /\ recovered' = recovered \cup {t}
      /\ todo' = [todo EXCEPT ![q] = @ \ {t}]
  BY DEF Mark
<1>1. Typed /\ Attempting /\ Named /\ Held /\ Thieves /\ Orphans
  BY DEF LockInvariant
<1>2. /\ pc[q] = "marking" /\ ~dependency
      /\ UNCHANGED <<lockDir, stale, dependency, owner, alive, pc, token, seen>>
  BY <1>1 DEF Mark, Orphans
<1>3. \A p \in Processes : pc[p] # "checking"
  BY <1>1, <1>2, OneInside DEF Holds, Inside
<1>4. t \in Tokens
  BY <1>1 DEF Typed
<1>5. Typed' /\ Attempting'
  BY <1>1, <1>2, <1>4 DEF Typed, Attempting
<1>6. Named'
  BY <1>1, <1>2, <1>4 DEF Typed, Named
<1>7. Held' /\ Thieves'
  BY <1>1, <1>2 DEF Typed, Held, Thieves, Holds
<1>8. Orphans'
  BY <1>1, <1>2, <1>3 DEF Orphans, Blamed
<1>9. QED
  BY <1>5, <1>6, <1>7, <1>8 DEF LockInvariant

LEMMA EnterHolds ==
  ASSUME LockInvariant, NEW q \in Processes, Enter(q)
  PROVE  LockInvariant'
<1>1. Typed /\ Attempting /\ Named /\ Held /\ Thieves /\ Orphans
  BY DEF LockInvariant
<1>2. /\ pc[q] = "marking" /\ pc' = [pc EXCEPT ![q] = "holding"]
      /\ UNCHANGED <<lockDir, stale, recovered, dependency, owner, alive, token, seen, todo>>
  BY DEF Enter, Goto, files
<1>3. Typed' /\ Attempting' /\ Named'
  BY <1>1, <1>2 DEF Typed, Attempting, Named, Places
<1>4. Held'
  BY <1>1, <1>2 DEF Typed, Held, Holds, Inside
<1>5. Thieves'
  BY <1>1, <1>2 DEF Typed, Thieves
<1>6. Orphans'
  BY <1>1, <1>2 DEF Typed, Orphans, Blamed, Unrecovered
<1>7. QED
  BY <1>3, <1>4, <1>5, <1>6 DEF LockInvariant

LEMMA RefuseHolds ==
  ASSUME LockInvariant, NEW q \in Processes, Refuse(q)
  PROVE  LockInvariant'
<1>1. Typed /\ Attempting /\ Named /\ Held /\ Thieves /\ Orphans
  BY DEF LockInvariant
<1>2. /\ pc[q] \in {"scanning", "checking"} /\ pc' = [pc EXCEPT ![q] = "clearing"]
      /\ lockDir' = IF lockDir = token[q] THEN Empty ELSE lockDir
      /\ UNCHANGED <<stale, recovered, dependency, owner, alive, token, seen, todo>>
  BY DEF Refuse, Goto
<1>3. Holds(q) /\ lockDir = token[q] /\ token[q] \in Tokens /\ lockDir' = Empty
  BY <1>1, <1>2 DEF Typed, Attempting, Held, Holds, Inside
<1>4. \A p \in Processes \ {q} : ~Holds(p)
  BY <1>1, <1>3, OneInside
<1>5. Typed' /\ Attempting' /\ Named'
  BY <1>1, <1>2, <1>3, LockAssumption DEF Typed, Attempting, Named, Places
<1>6. Held'
  BY <1>1, <1>2, <1>3, <1>4, LockAssumption DEF Typed, Held, Holds, Inside
<1>7. Thieves'
  BY <1>1, <1>2, <1>3 DEF Typed, Thieves
<1>8. Orphans'
  BY <1>1, <1>2, <1>3, <1>4 DEF Typed, Orphans, Blamed, Unrecovered, Holds, Inside
<1>9. QED
  BY <1>5, <1>6, <1>7, <1>8 DEF LockInvariant

LEMMA ClearHolds ==
  ASSUME LockInvariant, NEW q \in Processes, Clear(q)
  PROVE  LockInvariant'
<1>1. Typed /\ Attempting /\ Named /\ Held /\ Thieves /\ Orphans
  BY DEF LockInvariant
<1>2. /\ pc[q] = "clearing" /\ pc' = [pc EXCEPT ![q] = "out"]
      /\ token' = [token EXCEPT ![q] = None]
      /\ lockDir' = IF lockDir = Empty THEN None ELSE lockDir
      /\ UNCHANGED <<stale, recovered, dependency, owner, alive, seen, todo>>
  BY DEF Clear, Goto
<1>3. lockDir' = lockDir \/ (lockDir = Empty /\ lockDir' = None)
  BY <1>2
<1>4. Typed' /\ Attempting' /\ Named'
  BY <1>1, <1>2, <1>3, LockAssumption DEF Typed, Attempting, Named, Places
<1>5. Held'
  BY <1>1, <1>2, <1>3, LockAssumption DEF Typed, Attempting, Held, Holds, Inside
<1>6. Thieves'
  BY <1>1, <1>2, <1>3, LockAssumption DEF Typed, Thieves
<1>7. Orphans'
  <2>1. Blamed'
    BY <1>1, <1>2, <1>3, LockAssumption DEF Typed, Orphans, Blamed, Unrecovered
  <2>2. QED
    BY <1>1, <1>2, <2>1 DEF Typed, Orphans, Unrecovered
<1>8. QED
  BY <1>4, <1>5, <1>6, <1>7 DEF LockInvariant

-----------------------------------------------------------------------------
(* The statement or transaction, and release *)

LEMMA UseHolds ==
  ASSUME LockInvariant, NEW q \in Processes, Use(q)
  PROVE  LockInvariant'
<1>1. Typed /\ Attempting /\ Named /\ Held /\ Thieves /\ Orphans
  BY DEF LockInvariant
<1>2. pc[q] = "holding" /\ ~dependency
  BY <1>1 DEF Use, Orphans
<1>3. /\ pc' = [pc EXCEPT ![q] = "using"] /\ dependency' = TRUE
      /\ UNCHANGED <<lockDir, stale, recovered, owner, alive, token, seen, todo>>
  BY <1>2 DEF Use, Goto
<1>4. \A p \in Processes \ {q} : ~Holds(p)
  BY <1>1, <1>2, OneInside DEF Holds, Inside
<1>5. Typed' /\ Attempting' /\ Named'
  BY <1>1, <1>2, <1>3 DEF Typed, Attempting, Named, Places
<1>6. Held'
  BY <1>1, <1>2, <1>3 DEF Typed, Held, Holds, Inside
<1>7. Thieves'
  BY <1>1, <1>2, <1>3 DEF Typed, Thieves
<1>8. Orphans'
  BY <1>1, <1>2, <1>3, <1>4 DEF Typed, Orphans, Blamed, Unrecovered, Holds, Inside
<1>9. QED
  BY <1>5, <1>6, <1>7, <1>8 DEF LockInvariant

LEMMA EndUseHolds ==
  ASSUME LockInvariant, NEW q \in Processes, EndUse(q)
  PROVE  LockInvariant'
<1>1. Typed /\ Attempting /\ Named /\ Held /\ Thieves /\ Orphans
  BY DEF LockInvariant
<1>2. /\ pc[q] = "using" /\ pc' = [pc EXCEPT ![q] = "used"]
      /\ dependency' = FALSE
      /\ UNCHANGED <<lockDir, stale, recovered, owner, alive, token, seen, todo>>
  BY DEF EndUse, Goto
<1>3. Typed' /\ Attempting' /\ Named'
  <2>1. dependency' \in BOOLEAN
    BY <1>2, Zenon
  <2>2. Typed'
    BY <1>1, <1>2, <2>1 DEF Typed, Places
  <2>3. Attempting' /\ Named'
    BY <1>1, <1>2 DEF Typed, Attempting, Named
  <2>4. QED
    BY <2>2, <2>3
<1>4. Held'
  BY <1>1, <1>2 DEF Typed, Held, Holds, Inside
<1>5. Thieves'
  BY <1>1, <1>2 DEF Typed, Thieves
<1>6. Orphans'
  BY <1>1, <1>2 DEF Typed, Orphans, Blamed, Unrecovered
<1>7. QED
  BY <1>3, <1>4, <1>5, <1>6 DEF LockInvariant

LEMMA CheckOwnerHolds ==
  ASSUME LockInvariant, NEW q \in Processes, CheckOwner(q)
  PROVE  LockInvariant'
<1>1. Typed /\ Attempting /\ Named /\ Held /\ Thieves /\ Orphans
  BY DEF LockInvariant
<1>2. pc[q] = "used" /\ lockDir = token[q]
  BY <1>1 DEF CheckOwner, Held, Holds, Inside
<1>3. /\ pc' = [pc EXCEPT ![q] = "releasing"]
      /\ UNCHANGED <<lockDir, stale, recovered, dependency, owner, alive, token, seen, todo>>
  BY <1>2 DEF CheckOwner, Goto, files
<1>4. Typed' /\ Attempting' /\ Named'
  BY <1>1, <1>2, <1>3 DEF Typed, Attempting, Named, Places
<1>5. Held'
  BY <1>1, <1>2, <1>3 DEF Typed, Held, Holds, Inside
<1>6. Thieves'
  BY <1>1, <1>2, <1>3 DEF Typed, Thieves
<1>7. Orphans'
  BY <1>1, <1>2, <1>3 DEF Typed, Orphans, Blamed, Unrecovered
<1>8. QED
  BY <1>4, <1>5, <1>6, <1>7 DEF LockInvariant

LEMMA ReleaseHolds ==
  ASSUME LockInvariant, NEW q \in Processes, Release(q)
  PROVE  LockInvariant'
<1>1. Typed /\ Attempting /\ Named /\ Held /\ Thieves /\ Orphans
  BY DEF LockInvariant
<1>2. /\ pc[q] = "releasing" /\ pc' = [pc EXCEPT ![q] = "out"]
      /\ lockDir' = None /\ token' = [token EXCEPT ![q] = None]
      /\ UNCHANGED <<stale, recovered, dependency, owner, alive, seen, todo>>
  BY DEF Release, Goto
<1>3. Holds(q) /\ lockDir = token[q] /\ token[q] \in Tokens /\ ~dependency
  BY <1>1, <1>2 DEF Typed, Attempting, Held, Orphans, Holds, Inside
<1>4. \A p \in Processes \ {q} : ~Holds(p)
  BY <1>1, <1>3, OneInside
<1>5. Typed' /\ Attempting' /\ Named'
  BY <1>1, <1>2, LockAssumption DEF Typed, Attempting, Named, Places
<1>6. Held'
  BY <1>1, <1>2, <1>4 DEF Typed, Attempting, Held, Holds, Inside
<1>7. Thieves'
  BY <1>1, <1>2, <1>3, LockAssumption DEF Typed, Thieves
<1>8. Orphans'
  BY <1>1, <1>2, <1>3 DEF Typed, Orphans, Blamed, Unrecovered
<1>9. QED
  BY <1>5, <1>6, <1>7, <1>8 DEF LockInvariant

-----------------------------------------------------------------------------
(* Crashes and reused ids *)

LEMMA CrashHolds ==
  ASSUME LockInvariant, NEW q \in Processes, Crash(q)
  PROVE  LockInvariant'
<1>1. Typed /\ Attempting /\ Named /\ Held /\ Thieves /\ Orphans
  BY DEF LockInvariant
<1>2. /\ alive' = [alive EXCEPT ![q] = FALSE]
      /\ pc' = [pc EXCEPT ![q] = "out"]
      /\ token' = [token EXCEPT ![q] = None]
      /\ seen' = [seen EXCEPT ![q] = None]
      /\ todo' = [todo EXCEPT ![q] = {}]
      /\ UNCHANGED <<lockDir, stale, recovered, dependency, owner>>
  BY DEF Crash, Goto, files
<1>3. Typed' /\ Attempting' /\ Named'
  BY <1>1, <1>2 DEF Typed, Attempting, Named, Places
<1>4. Held'
  BY <1>1, <1>2 DEF Typed, Held, Holds, Inside
<1>5. Thieves'
  BY <1>1, <1>2, LockAssumption DEF Typed, Thieves
<1>6. Blamed'
  <2>1. CASE pc[q] = "using"
    <3>1. lockDir = token[q] /\ token[q] \in Tokens /\ owner[token[q]] = q
      BY <1>1, <2>1 DEF Typed, Attempting, Held, Holds, Inside
    <3>2. \A p \in Processes : token'[p] # lockDir
      BY <1>1, <1>2, <3>1, LockAssumption DEF Typed, Attempting
    <3>3. QED
      BY <1>2, <3>1, <3>2 DEF Blamed
  <2>2. CASE pc[q] # "using"
    BY <1>1, <1>2, <2>2, LockAssumption DEF Typed, Orphans, Blamed, Unrecovered
  <2>3. QED
    BY <2>1, <2>2
<1>7. Orphans'
  BY <1>1, <1>2, <1>6 DEF Typed, Orphans, Unrecovered
<1>8. QED
  BY <1>3, <1>4, <1>5, <1>7 DEF LockInvariant

LEMMA ReuseHolds ==
  ASSUME LockInvariant, NEW q \in Processes, Reuse(q)
  PROVE  LockInvariant'
<1>1. Typed /\ Attempting /\ Named /\ Held /\ Thieves /\ Orphans
  BY DEF LockInvariant
<1>2. /\ alive' = [alive EXCEPT ![q] = TRUE]
      /\ UNCHANGED <<lockDir, stale, recovered, dependency, owner, pc, token, seen, todo>>
  BY DEF Reuse, files
<1>3. Typed' /\ Attempting' /\ Named'
  BY <1>1, <1>2 DEF Typed, Attempting, Named
<1>4. Held' /\ Thieves'
  BY <1>1, <1>2 DEF Held, Thieves, Holds
<1>5. Orphans'
  BY <1>1, <1>2 DEF Orphans, Blamed, Unrecovered
<1>6. QED
  BY <1>3, <1>4, <1>5 DEF LockInvariant

-----------------------------------------------------------------------------
LEMMA StepHolds == LockInvariant /\ [Next]_vars => LockInvariant'
<1> SUFFICES ASSUME LockInvariant, [Next]_vars PROVE LockInvariant'
  OBVIOUS
<1>1. ASSUME NEW q \in Processes, Acquire(q) PROVE LockInvariant'
  BY <1>1, InstallHolds, ObserveHolds, StealHolds DEF Acquire
<1>2. ASSUME NEW q \in Processes, Prepare(q) PROVE LockInvariant'
  BY <1>2, ScanHolds, CheckHolds, MarkHolds, EnterHolds, RefuseHolds, ClearHolds DEF Prepare
<1>3. ASSUME NEW q \in Processes, Finish(q) PROVE LockInvariant'
  BY <1>3, UseHolds, EndUseHolds, CheckOwnerHolds, ReleaseHolds DEF Finish
<1>4. CASE UNCHANGED vars
  <2>1. UNCHANGED <<lockDir, stale, recovered, dependency, owner, alive, pc, token, seen, todo>>
    BY <1>4 DEF vars, files
  <2>2. QED
    BY <2>1 DEF LockInvariant, Typed, Attempting, Named, Held, Thieves, Orphans, Blamed, Unrecovered, Holds
<1>5. QED
  BY <1>1, <1>2, <1>3, <1>4, BeginHolds, TimeOutHolds, CrashHolds, ReuseHolds DEF Next

(* The inductive invariant: the lock directory names its live owner, every   *)
(* thief has seen a dead one, and SQLite's lock is in use or blamed on one.  *)
THEOREM LockStaysSound == Spec => []LockInvariant
BY InitHolds, StepHolds, PTL DEF Spec

(* At most one process believes to hold the database, and the lock directory *)
(* names it, whoever crashes and whatever id is reused (runExclusive).       *)
THEOREM DatabaseExclusion == Spec => []MutualExclusion
<1>1. LockInvariant => MutualExclusion
  <2> SUFFICES ASSUME LockInvariant, NEW p \in Processes, Holds(p)
               PROVE  lockDir = token[p] /\ \A q \in Processes \ {p} : ~Holds(q)
    BY DEF MutualExclusion
  <2>1. QED
    BY OneInside DEF LockInvariant, Held
<1>2. QED
  BY <1>1, LockStaysSound, PTL

(* SQLite's own lock, left by an owner that died, is always removed by the   *)
(* next owner before it works and never refused (prepareDependencyLock).     *)
THEOREM NoOrphanIsRefused == Spec => []OrphansAreRecoverable
<1>1. LockInvariant => OrphansAreRecoverable
  <2> SUFFICES ASSUME LockInvariant, NEW p \in Processes
               PROVE  /\ pc[p] = "checking" /\ dependency => todo[p] # {}
                      /\ pc[p] \in {"marking", "holding", "used", "releasing"} => ~dependency
    BY DEF OrphansAreRecoverable
  <2>1. ASSUME pc[p] = "checking", dependency PROVE todo[p] # {}
    <3>1. Holds(p) /\ lockDir = token[p]
      BY <2>1 DEF LockInvariant, Held, Holds, Inside
    <3>2. \A q \in Processes : pc[q] # "using"
      BY <2>1, <3>1, OneInside DEF LockInvariant, Holds, Inside
    <3>3. QED
      BY <2>1, <3>1, <3>2 DEF LockInvariant, Orphans, Blamed
  <2>2. QED
    BY <2>1 DEF LockInvariant, Orphans
<1>2. QED
  BY <1>1, LockStaysSound, PTL

-----------------------------------------------------------------------------
(* The journal *)

\* What the names and the bounds may be.
JournalConstants ==
  /\ MaxEvents \in Nat \ {0} /\ MaxFailures \in Nat
  /\ None \notin Openers /\ Gone \notin Openers /\ None # Gone

\* The line is whole and in its place.
Good(i) == lines[i].whole /\ lines[i].seq = i

\* At most the last line is not.
Orderly == \A i \in 1 .. Len(lines) - 1 : Good(i)

Distinct ==
  /\ \A i \in 1 .. Len(lines) : lines[i].id <= drawn
  /\ \A i, j \in 1 .. Len(lines) : i # j => lines[i].id # lines[j].id

\* The event is among the first n lines and can be read.
Recorded(id, n) == \E i \in 1 .. n : Good(i) /\ lines[i].id = id

\* Until the thread is deleted, what was or will be acknowledged is recorded.
AckedInv == deletion = "none" => \A id \in acked : Recorded(id, synced)
AppendInv ==
  deletion = "none" =>
    \A p \in Openers :
      /\ where[p] = "written" => Recorded(current[p].id, Len(lines))
      /\ where[p] \in {"synced", "reconciling"} => Recorded(current[p].id, synced)

RemovedInv == deletion # "none" => lines = <<>>

JournalInv == Journal!TypeOK /\ Orderly /\ Distinct /\ AckedInv /\ AppendInv /\ RemovedInv

-----------------------------------------------------------------------------
(* What can be read *)

\* The lines that can be read are those AppendWrite keeps.
Shape ==
  /\ ~Journal!Corrupt
  /\ Journal!Kept \in Seq(Journal!Lines) /\ Len(Journal!Kept) \in {Len(lines) - 1, Len(lines)}
  /\ \A i \in 1 .. Len(Journal!Kept) : Journal!Kept[i] = lines[i] /\ Good(i)
  /\ Len(Journal!Kept) = Len(lines) - 1 => ~Good(Len(lines)) /\ Journal!DamagedTail
  /\ Len(Journal!Kept) = Len(lines) => Journal!Kept = lines /\ ~Journal!DamagedTail
  /\ Journal!Readable \in Seq(Journal!Entries) /\ Len(Journal!Readable) = Len(Journal!Kept)
  /\ \A i \in 1 .. Len(Journal!Kept) : Journal!Readable[i] = Journal!Entry(lines[i])

LEMMA JournalShape == JournalInv => Shape
<1> SUFFICES ASSUME JournalInv PROVE Shape OBVIOUS
<1>1. /\ lines \in Seq(Journal!Lines) /\ Len(lines) \in Nat /\ DOMAIN lines = 1 .. Len(lines)
      /\ \A i \in 1 .. Len(lines) : lines[i] \in Journal!Lines
  BY DEF JournalInv, Journal!TypeOK
<1>2. Len(lines) \in Nat BY <1>1
<1>3. Journal!Unreadable = {i \in 1 .. Len(lines) : ~Good(i)} BY <1>1 DEF Journal!Unreadable, Good
<1>4. ~Journal!Corrupt BY <1>1, <1>3 DEF Journal!Corrupt, JournalInv, Orderly
<1>5. \A i \in 1 .. Len(lines) : Journal!Entry(lines[i]) \in Journal!Entries
  BY <1>1 DEF Journal!Entry, Journal!Entries, Journal!Lines
<1>6. CASE Journal!Unreadable = {}
  <2>1. ~Journal!DamagedTail /\ Journal!Kept = lines BY <1>6 DEF Journal!DamagedTail, Journal!Kept
  <2>2. \A i \in 1 .. Len(lines) : Good(i) BY <1>3, <1>6
  <2>3. Journal!Readable = [i \in 1 .. Len(lines) |-> Journal!Entry(lines[i])] BY <1>4, <2>1 DEF Journal!Readable
  <2>4. Journal!Readable \in Seq(Journal!Entries) /\ Len(Journal!Readable) = Len(lines) BY <1>1, <1>5, <2>3
  <2>5. \A i \in 1 .. Len(lines) : Journal!Readable[i] = Journal!Entry(lines[i]) BY <2>3
  <2>6. Journal!Kept \in Seq(Journal!Lines) /\ Len(Journal!Kept) = Len(lines) /\ Len(Journal!Readable)
            = Len(Journal!Kept) BY <1>1, <2>1, <2>4
  <2>7. Len(Journal!Kept) # Len(lines) - 1 /\ Len(Journal!Kept) \in {Len(lines) - 1, Len(lines)} BY <1>2, <2>6
  <2>8. \A i \in 1 .. Len(Journal!Kept) : Journal!Kept[i] = lines[i] /\ Good(i) BY <2>1, <2>2
  <2>9. \A i \in 1 .. Len(Journal!Kept) : Journal!Readable[i] = Journal!Entry(lines[i]) BY <2>1, <2>5
  <2> QED BY <1>4, <2>1, <2>4, <2>6, <2>7, <2>8, <2>9 DEF Shape
<1>7. CASE Journal!Unreadable # {}
  <2>1. Journal!DamagedTail /\ Len(lines) > 0 /\ ~Good(Len(lines))
    BY <1>1, <1>3, <1>4, <1>7 DEF Journal!DamagedTail, JournalInv, Orderly
  <2>2. Journal!Kept = SubSeq(lines, 1, Len(lines) - 1) BY <2>1 DEF Journal!Kept
  <2>3. /\ Journal!Kept \in Seq(Journal!Lines) /\ Len(Journal!Kept) = Len(lines) - 1
        /\ \A i \in 1 .. Len(Journal!Kept) : Journal!Kept[i] = lines[i]
    BY <1>1, <2>1, <2>2
  <2>4. \A i \in 1 .. Len(lines) - 1 : Good(i) BY DEF JournalInv, Orderly
  <2>5. Journal!Readable = [i \in 1 .. Len(lines) - 1 |-> Journal!Entry(lines[i])] BY <1>4, <2>1 DEF Journal!Readable
  <2>6. Journal!Readable \in Seq(Journal!Entries) /\ Len(Journal!Readable) = Len(lines) - 1 BY <1>1, <1>5, <2>1, <2>5
  <2>7. \A i \in 1 .. Len(lines) - 1 : Journal!Readable[i] = Journal!Entry(lines[i]) BY <2>5
  <2>8. Len(Journal!Kept) # Len(lines) /\ Len(Journal!Kept) \in {Len(lines) - 1, Len(lines)} /\ Len(Journal!Readable)
            = Len(Journal!Kept)
    BY <1>2, <2>3, <2>6
  <2>9. \A i \in 1 .. Len(Journal!Kept) : Journal!Kept[i] = lines[i] /\ Good(i) BY <2>3, <2>4
  <2>10. \A i \in 1 .. Len(Journal!Kept) : Journal!Readable[i] = Journal!Entry(lines[i]) BY <2>3, <2>7
  <2> QED BY <1>4, <2>1, <2>3, <2>6, <2>8, <2>9, <2>10 DEF Shape
<1> QED BY <1>6, <1>7

LEMMA EntriesTyped ==
  ASSUME NEW events \in Seq(Journal!Entries) PROVE Journal!EntriesOf(events) \subseteq Journal!Entries
BY DEF Journal!EntriesOf

LEMMA ReadableTyped ==
  ASSUME JournalInv
  PROVE  /\ Journal!Readable \in Seq(Journal!Entries) /\ Journal!EntriesOf(Journal!Readable) \subseteq Journal!Entries
         /\ \A p \in Openers : Journal!EntriesOf(snapshot[p]) \subseteq Journal!Entries
<1>1. Journal!Readable \in Seq(Journal!Entries) BY JournalShape DEF Shape
<1>2. \A p \in Openers : snapshot[p] \in Seq(Journal!Entries) BY DEF JournalInv, Journal!TypeOK
<1> QED BY <1>1, <1>2, EntriesTyped

-----------------------------------------------------------------------------
(* Initially, and when nothing happens *)

LEMMA InitInv == ASSUME JournalConstants, Journal!Init PROVE JournalInv
<1>1. lines = <<[id |-> 1, seq |-> 1, whole |-> TRUE]>> /\ 1 \in Journal!Ids
  BY DEF Journal!Init, JournalConstants, Journal!Ids
<1>2. [id |-> 1, seq |-> 1, whole |-> TRUE] \in Journal!Lines BY <1>1 DEF Journal!Lines
<1>3. lines \in Seq(Journal!Lines) /\ Len(lines) = 1 BY <1>1, <1>2
<1>4. lines[1].id = 1 /\ Good(1) BY <1>1 DEF Good
<1>5. [id |-> 1, seq |-> 1] \in Journal!Entries /\ Journal!NoEntry \in Journal!Entries
  BY <1>1 DEF Journal!Entries, Journal!NoEntry
<1>6. Journal!TypeOK BY <1>1, <1>3, <1>5 DEF Journal!Init, Journal!TypeOK, Journal!Places, JournalConstants
<1> QED BY <1>3, <1>4, <1>6 DEF JournalInv, Orderly, Distinct, AckedInv, AppendInv, RemovedInv, Recorded, Journal!Init

LEMMA StutterInv == ASSUME JournalInv, UNCHANGED Journal!vars PROVE JournalInv'
<1>1. Journal!TypeOK' BY DEF JournalInv, Journal!TypeOK, Journal!vars, Journal!file, Journal!rows
<1>2. UNCHANGED <<lines, synced, where, current, acked, drawn, deletion>>
  BY DEF Journal!vars, Journal!file, Journal!rows
<1> QED BY <1>1, <1>2 DEF JournalInv, Orderly, Distinct, AckedInv, AppendInv, RemovedInv, Recorded, Good

\* A step that leaves the journal alone and acknowledges only what is recorded.
LEMMA SameFile ==
  ASSUME JournalInv, UNCHANGED <<lines, synced, current, drawn, deletion>>, Journal!TypeOK',
         deletion = "none" => \A id \in acked' : id \in acked \/ Recorded(id, synced),
         \A p \in Openers : where'[p] \in {"written", "synced", "reconciling"} =>
           where'[p] = where[p] \/ (where[p] = "synced" /\ where'[p] = "reconciling")
  PROVE  JournalInv'
<1>1. \A i : Good(i)' <=> Good(i) BY DEF Good
<1>2. \A id, n : Recorded(id, n)' <=> Recorded(id, n) BY <1>1 DEF Recorded
<1>3. Orderly' BY <1>1 DEF JournalInv, Orderly
<1>4. Distinct' BY DEF JournalInv, Distinct
<1>5. AckedInv' BY <1>2 DEF JournalInv, AckedInv
<1>6. AppendInv' BY <1>2 DEF JournalInv, AppendInv
<1>7. RemovedInv' BY DEF JournalInv, RemovedInv
<1> QED BY <1>3, <1>4, <1>5, <1>6, <1>7 DEF JournalInv

-----------------------------------------------------------------------------
(* Opening and closing *)

LEMMA AcquirePreserves ==
  ASSUME JournalConstants, JournalInv, NEW p \in Openers, NEW place \in {"opening", "deleting"}, Journal!Acquire(p,
          place)
  PROVE  JournalInv'
<1>1. /\ row' = TRUE /\ lease' = p
      /\ (indexed' = indexed \/ indexed' = indexed \cup Journal!EntriesOf(Journal!Readable))
      /\ where' = [where EXCEPT ![p] = place]
      /\ UNCHANGED <<lines, ended, synced, snapshot, current, acked, drawn, deletion, faults>>
  BY DEF Journal!Acquire, Journal!Project, Journal!Goto, Journal!file, JournalInv, Journal!TypeOK
<1>2. indexed' \subseteq Journal!Entries BY <1>1, ReadableTyped DEF JournalInv, Journal!TypeOK
<1>3. place \in Journal!Places BY DEF Journal!Places
<1>4. Journal!TypeOK' BY <1>1, <1>2, <1>3 DEF JournalInv, Journal!TypeOK
<1>5. \A q \in Openers : where'[q] \in {"written", "synced", "reconciling"} => where'[q] = where[q]
  BY <1>1 DEF JournalInv, Journal!TypeOK
<1> QED BY <1>1, <1>4, <1>5, SameFile

LEMMA ReadPreserves ==
  ASSUME JournalInv, NEW p \in Openers, Journal!Read(p)
  PROVE  JournalInv'
<1>1. /\ snapshot' = [snapshot EXCEPT ![p] = Journal!Readable] /\ where' = [where EXCEPT ![p] = "reading"]
      /\ UNCHANGED <<lines, ended, synced, row, indexed, lease, current, acked, drawn, deletion, faults>>
  BY DEF Journal!Read, Journal!Goto, Journal!file, Journal!rows
<1>2. snapshot' \in [Openers -> Seq(Journal!Entries)] BY <1>1, ReadableTyped DEF JournalInv, Journal!TypeOK
<1>3. Journal!TypeOK' BY <1>1, <1>2 DEF JournalInv, Journal!TypeOK, Journal!Places
<1>4. \A q \in Openers : where'[q] \in {"written", "synced", "reconciling"} => where'[q] = where[q]
  BY <1>1 DEF JournalInv, Journal!TypeOK
<1> QED BY <1>1, <1>3, <1>4, SameFile

\* Every other step of a process that only leaves or returns.
LEMMA LeavePreserves ==
  ASSUME JournalConstants, JournalInv, NEW p \in Openers, NEW place \in {"out", "open", "reconciling", "undoing",
          "purged"},
         Journal!Goto(p, place), place = "reconciling" => where[p] = "synced",
         UNCHANGED <<lines, synced, current, drawn, deletion>>,
         deletion = "none" => \A id \in acked' : id \in acked \/ Recorded(id, synced),
         ended' \in BOOLEAN, row' \in BOOLEAN, indexed' \subseteq Journal!Entries,
         indexed' # {} \/ lease' # None => row', lease' \in Openers \cup {None, Gone},
         snapshot' \in [Openers -> Seq(Journal!Entries)], acked' \subseteq Journal!Ids, faults' \in 0 .. MaxFailures
  PROVE  JournalInv'
<1>1. where' = [where EXCEPT ![p] = place] /\ place \in Journal!Places BY DEF Journal!Goto, Journal!Places
<1>2. Journal!TypeOK' BY <1>1 DEF JournalInv, Journal!TypeOK
<1>3. \A q \in Openers : where'[q] \in {"written", "synced", "reconciling"} =>
        where'[q] = where[q] \/ (where[q] = "synced" /\ where'[q] = "reconciling")
  BY <1>1 DEF JournalInv, Journal!TypeOK
<1> QED BY <1>2, <1>3, SameFile

LEMMA LeaveTypes ==
  ASSUME JournalConstants, JournalInv, NEW p \in Openers
  PROVE  /\ ended \in BOOLEAN /\ row \in BOOLEAN /\ indexed \subseteq Journal!Entries
         /\ indexed # {} \/ lease # None => row
         /\ lease \in Openers \cup {None, Gone}
         /\ Journal!GiveBack(p) => lease' \in Openers \cup {None, Gone} /\ (lease' # None => lease # None)
         /\ snapshot \in [Openers -> Seq(Journal!Entries)]
         /\ [snapshot EXCEPT ![p] = <<>>] \in [Openers -> Seq(Journal!Entries)]
         /\ acked \subseteq Journal!Ids /\ faults \in 0 .. MaxFailures
         /\ Journal!Fault => faults' \in 0 .. MaxFailures
         /\ current[p] \in Journal!Entries /\ current[p].id \in Journal!Ids
<1>1. /\ ended \in BOOLEAN /\ row \in BOOLEAN /\ indexed \subseteq Journal!Entries
      /\ indexed # {} \/ lease # None => row
      /\ lease \in Openers \cup {None, Gone}
      /\ snapshot \in [Openers -> Seq(Journal!Entries)]
      /\ acked \subseteq Journal!Ids /\ faults \in 0 .. MaxFailures
      /\ current[p] \in Journal!Entries
  BY DEF JournalInv, Journal!TypeOK
<1>2. Journal!GiveBack(p) => lease' \in Openers \cup {None, Gone} /\ (lease' # None => lease # None)
  BY <1>1 DEF Journal!GiveBack
<1>3. [snapshot EXCEPT ![p] = <<>>] \in [Openers -> Seq(Journal!Entries)] BY <1>1
<1>4. Journal!Fault => faults' \in 0 .. MaxFailures BY <1>1 DEF Journal!Fault, JournalConstants
<1>5. current[p].id \in Journal!Ids BY <1>1 DEF Journal!Entries
<1> QED BY <1>1, <1>2, <1>3, <1>4, <1>5

LEMMA ReadFailsPreserves ==
  ASSUME JournalConstants, JournalInv, NEW p \in Openers, Journal!ReadFails(p)
  PROVE  JournalInv'
<1>1. Journal!GiveBack(p) /\ Journal!Goto(p, "out")
      /\ UNCHANGED <<lines, ended, synced, row, indexed, snapshot, current, acked, drawn, deletion, faults>>
  BY DEF Journal!ReadFails, Journal!file
<1> QED BY <1>1, LeaveTypes, LeavePreserves

LEMMA ReconcilePreserves ==
  ASSUME JournalConstants, JournalInv, NEW p \in Openers, Journal!Reconcile(p)
  PROVE  JournalInv'
<1>1. snapshot' = [snapshot EXCEPT ![p] = <<>>]
      /\ UNCHANGED <<lines, ended, synced, current, acked, drawn, deletion, faults>>
  BY DEF Journal!Reconcile, Journal!file
<1>2. CASE Journal!GiveBack(p) /\ Journal!Goto(p, "out") /\ UNCHANGED <<row, indexed>>
  BY <1>1, <1>2, LeaveTypes, LeavePreserves
<1>3. CASE Journal!Project(Journal!EntriesOf(snapshot[p])) /\ Journal!Goto(p, "open") /\ UNCHANGED lease
  <2>1. row' = TRUE /\ indexed' \subseteq Journal!Entries BY <1>3, LeaveTypes, ReadableTyped DEF Journal!Project
  <2> QED BY <1>1, <1>3, <2>1, LeaveTypes, LeavePreserves
<1> QED BY <1>2, <1>3 DEF Journal!Reconcile

LEMMA ClosePreserves ==
  ASSUME JournalConstants, JournalInv, NEW p \in Openers, Journal!Close(p)
  PROVE  JournalInv'
<1>1. Journal!GiveBack(p) /\ Journal!Goto(p, "out")
      /\ UNCHANGED <<lines, ended, synced, row, indexed, snapshot, current, acked, drawn, deletion, faults>>
  BY DEF Journal!Close, Journal!file
<1> QED BY <1>1, LeaveTypes, LeavePreserves

-----------------------------------------------------------------------------
(* appendEvent *)

\* Whether the write succeeds or not, the lines that can be read stay, and at most
\* one is added, with an id that was not used.
LEMMA AppendFacts ==
  ASSUME JournalConstants, JournalInv, NEW p \in Openers, Journal!AppendWrite(p)
  PROVE  /\ lines' \in Seq(Journal!Lines) /\ Len(lines') \in Nat /\ Len(Journal!Kept) \in Nat /\ deletion = "none"
         /\ drawn' = drawn + 1 /\ drawn' \in Journal!Ids
         /\ \A i \in 1 .. Len(Journal!Kept) : lines'[i] = lines[i]
         /\ \/ Len(lines') = Len(Journal!Kept)
            \/ /\ Len(lines') = Len(Journal!Kept) + 1
               /\ lines'[Len(Journal!Kept) + 1].id = drawn + 1
               /\ lines'[Len(Journal!Kept) + 1].seq = Len(Journal!Kept) + 1
         /\ synced' \in 0 .. Len(Journal!Kept)
         /\ synced' = IF synced > Len(Journal!Kept) THEN Len(Journal!Kept) ELSE synced
         /\ \/ where' = where /\ current' = current
            \/ /\ where' = [where EXCEPT ![p] = "written"]
               /\ current' = [current EXCEPT ![p] = [id |-> drawn + 1, seq |-> Len(Journal!Kept) + 1]]
               /\ Len(lines') = Len(Journal!Kept) + 1 /\ lines'[Len(Journal!Kept) + 1].whole
         /\ ended' \in BOOLEAN /\ faults' \in 0 .. MaxFailures
         /\ where[p] = "open" /\ UNCHANGED <<row, indexed, lease, snapshot, acked, deletion>>
<1> DEFINE K == Len(Journal!Kept)
           line(w) == [id |-> drawn + 1, seq |-> K + 1, whole |-> w]
<1>1. /\ Journal!Kept \in Seq(Journal!Lines) /\ K \in Nat /\ Len(Journal!Readable) = K
      /\ \A i \in 1 .. K : Journal!Kept[i] = lines[i]
  BY JournalShape DEF Shape
<1>2. drawn \in Journal!Ids /\ drawn < MaxEvents /\ drawn' = drawn + 1 /\ where[p] = "open"
      /\ UNCHANGED <<row, indexed, lease, snapshot, acked, deletion>>
  BY DEF Journal!AppendWrite, Journal!rows, JournalInv, Journal!TypeOK
<1>3. drawn + 1 \in Journal!Ids BY <1>2 DEF Journal!Ids, JournalConstants
<1>4. ASSUME NEW w \in BOOLEAN
      PROVE  /\ Journal!Added(line(w)) \in Seq(Journal!Lines) /\ Len(Journal!Added(line(w))) = K + 1
             /\ \A i \in 1 .. K : Journal!Added(line(w))[i] = lines[i]
             /\ Journal!Added(line(w))[K + 1] = line(w)
  <2>1. line(w) \in Journal!Lines BY <1>1, <1>3 DEF Journal!Lines
  <2> HIDE DEF line
  <2> QED BY <1>1, <2>1 DEF Journal!Added
<1>5. deletion = "none"
  <2>1. Journal!Readable # <<>> BY DEF Journal!AppendWrite
  <2>2. Journal!Readable \in Seq(Journal!Entries) BY JournalShape DEF Shape
  <2>3. K # 0 BY <1>1, <2>1, <2>2
  <2>4. Len(lines) \in Nat /\ K \in {Len(lines) - 1, Len(lines)} BY JournalShape DEF Shape, JournalInv, Journal!TypeOK
  <2>5. lines # <<>> BY <1>1, <2>3, <2>4
  <2> QED BY <2>5 DEF JournalInv, RemovedInv
<1>6. synced' = IF synced > K THEN K ELSE synced BY DEF Journal!AppendWrite
<1>7. synced' \in 0 .. K BY <1>1, <1>6 DEF JournalInv, Journal!TypeOK
<1>8. \/ /\ lines' = Journal!Added(line(TRUE)) /\ where' = [where EXCEPT ![p] = "written"]
         /\ current' = [current EXCEPT ![p] = [id |-> drawn + 1, seq |-> K + 1]]
      \/ /\ lines' = Journal!Kept \/ \E w \in BOOLEAN : lines' = Journal!Added(line(w))
         /\ where' = where /\ current' = current
  BY <1>1 DEF Journal!AppendWrite, Journal!Goto
<1>9. ended' \in BOOLEAN BY DEF Journal!AppendWrite, JournalInv, Journal!TypeOK, Journal!DamagedTail
<1>10. faults' \in 0 .. MaxFailures BY LeaveTypes DEF Journal!AppendWrite
<1>11. CASE lines' = Journal!Added(line(TRUE)) /\ where' = [where EXCEPT ![p] = "written"]
            /\ current' = [current EXCEPT ![p] = [id |-> drawn + 1, seq |-> K + 1]]
  <2>1. /\ lines' \in Seq(Journal!Lines) /\ Len(lines') = K + 1 /\ \A i \in 1 .. K : lines'[i] = lines[i]
        /\ lines'[K + 1] = line(TRUE)
    BY <1>4, <1>11
  <2>2. lines'[K + 1].id = drawn + 1 /\ lines'[K + 1].seq = K + 1 /\ lines'[K + 1].whole BY <2>1
  <2>3. Len(lines') \in Nat /\ K \in Nat BY <1>1, <2>1
  <2>4. /\ where' = [where EXCEPT ![p] = "written"]
        /\ current' = [current EXCEPT ![p] = [id |-> drawn + 1, seq |-> K + 1]]
        /\ Len(lines') = K + 1 /\ lines'[K + 1].whole
    BY <1>11, <2>1, <2>2
  <2>5. lines' \in Seq(Journal!Lines) /\ \A i \in 1 .. K : lines'[i] = lines[i] BY <2>1
  <2>6. Len(lines') = K + 1 /\ lines'[K + 1].id = drawn + 1 /\ lines'[K + 1].seq = K + 1 BY <2>1, <2>2
  <2> HIDE DEF line, K
  <2> QED BY <1>2, <1>3, <1>5, <1>6, <1>7, <1>9, <1>10, <2>3, <2>4, <2>5, <2>6 DEF K
<1>12. CASE lines' = Journal!Kept /\ where' = where /\ current' = current
  BY <1>1, <1>2, <1>3, <1>5, <1>6, <1>7, <1>9, <1>10, <1>12
<1>13. CASE (\E w \in BOOLEAN : lines' = Journal!Added(line(w))) /\ where' = where /\ current' = current
  <2>1. PICK w \in BOOLEAN : lines' = Journal!Added(line(w)) BY <1>13
  <2>2. /\ lines' \in Seq(Journal!Lines) /\ Len(lines') = K + 1 /\ \A i \in 1 .. K : lines'[i] = lines[i]
        /\ lines'[K + 1] = line(w)
    BY <1>4, <2>1
  <2>3. lines'[K + 1].id = drawn + 1 /\ lines'[K + 1].seq = K + 1 BY <2>2
  <2>4. lines' \in Seq(Journal!Lines) /\ Len(lines') = K + 1 /\ Len(lines') \in Nat BY <1>1, <2>2
  <2>5. where' = where /\ current' = current BY <1>13
  <2>6. \A i \in 1 .. K : lines'[i] = lines[i] BY <2>2
  <2> HIDE DEF line
  <2> QED BY <1>1, <1>2, <1>3, <1>5, <1>6, <1>7, <1>9, <1>10, <2>3, <2>4, <2>5, <2>6
<1> QED BY <1>8, <1>11, <1>12, <1>13

LEMMA AppendWritePreserves ==
  ASSUME JournalConstants, JournalInv, NEW p \in Openers, Journal!AppendWrite(p)
  PROVE  JournalInv'
<1> DEFINE K == Len(Journal!Kept)
<1>1. /\ lines' \in Seq(Journal!Lines) /\ Len(lines') \in Nat /\ K \in Nat
      /\ deletion = "none" /\ drawn' = drawn + 1 /\ drawn' \in Journal!Ids
      /\ synced' \in 0 .. K /\ synced' = IF synced > K THEN K ELSE synced
      /\ ended' \in BOOLEAN /\ faults' \in 0 .. MaxFailures
      /\ where[p] = "open" /\ UNCHANGED <<row, indexed, lease, snapshot, acked, deletion>>
  BY AppendFacts
<1>2. \A i \in 1 .. K : lines'[i] = lines[i] BY AppendFacts
<1>3. \/ Len(lines') = K
      \/ Len(lines') = K + 1 /\ lines'[K + 1].id = drawn + 1 /\ lines'[K + 1].seq = K + 1
  BY AppendFacts
<1>4. \/ where' = where /\ current' = current
      \/ /\ where' = [where EXCEPT ![p] = "written"]
         /\ current' = [current EXCEPT ![p] = [id |-> drawn + 1, seq |-> K + 1]]
         /\ Len(lines') = K + 1 /\ lines'[K + 1].whole
  BY AppendFacts
<1>5. /\ K \in {Len(lines) - 1, Len(lines)} /\ Len(lines) \in Nat
      /\ K = Len(lines) - 1 => ~Good(Len(lines))
      /\ \A i \in 1 .. K : Good(i)
  BY JournalShape DEF Shape, JournalInv, Journal!TypeOK
<1>6. /\ drawn \in Nat /\ synced \in 0 .. Len(lines) /\ drawn + 1 \in Journal!Ids
      /\ \A i \in 1 .. Len(lines) : lines[i].id <= drawn /\ lines[i].id \in Nat
      /\ \A i, j \in 1 .. Len(lines) : i # j => lines[i].id # lines[j].id
      /\ where \in [Openers -> Journal!Places] /\ current \in [Openers -> Journal!Entries]
  <2>1. /\ lines \in Seq(Journal!Lines) /\ drawn \in Journal!Ids /\ synced \in 0 .. Len(lines)
        /\ where \in [Openers -> Journal!Places] /\ current \in [Openers -> Journal!Entries]
    BY DEF JournalInv, Journal!TypeOK
  <2>2. drawn \in Nat /\ drawn + 1 \in Journal!Ids BY <1>1, <2>1 DEF Journal!Ids
  <2>3. \A i \in 1 .. Len(lines) : lines[i].id \in Nat
    <3>1. \A i \in 1 .. Len(lines) : lines[i] \in Journal!Lines BY <2>1
    <3>2. \A x \in Journal!Lines : x.id \in Nat BY DEF Journal!Lines, Journal!Ids
    <3> QED BY <3>1, <3>2
  <2> QED BY <2>1, <2>2, <2>3 DEF JournalInv, Distinct
<1> HIDE DEF K
<1>7. \A i \in 1 .. K : Good(i)' BY <1>2, <1>5 DEF Good
<1>8. current' \in [Openers -> Journal!Entries] /\ where' \in [Openers -> Journal!Places]
  <2>1. [id |-> drawn + 1, seq |-> K + 1] \in Journal!Entries BY <1>1, <1>6 DEF Journal!Entries
  <2>2. "written" \in Journal!Places BY DEF Journal!Places
  <2> QED BY <1>4, <1>6, <2>1, <2>2
<1>9. Journal!TypeOK' BY <1>1, <1>3, <1>8 DEF JournalInv, Journal!TypeOK
<1>10. Orderly' BY <1>1, <1>3, <1>7 DEF Orderly
<1>11. Distinct'
  <2>1. 1 .. K \subseteq 1 .. Len(lines) BY <1>1, <1>5
  <2>2. \A i \in 1 .. K : lines'[i].id <= drawn /\ lines'[i].id \in Nat BY <1>2, <1>6, <2>1
  <2>3. \A i, j \in 1 .. K : i # j => lines'[i].id # lines'[j].id BY <1>2, <1>6, <2>1
  <2>4. CASE Len(lines') = K BY <1>1, <1>6, <2>2, <2>3, <2>4 DEF Distinct
  <2>5. CASE Len(lines') = K + 1 /\ lines'[K + 1].id = drawn + 1
    <3>1. \A i \in 1 .. K + 1 : i \in 1 .. K \/ i = K + 1 BY <1>1
    <3>2. \A i \in 1 .. K : lines'[i].id # drawn + 1 BY <1>6, <2>2
    <3>3. \A i \in 1 .. K + 1 : lines'[i].id <= drawn + 1 BY <1>6, <2>2, <2>5, <3>1
    <3>4. \A i, j \in 1 .. K + 1 : i # j => lines'[i].id # lines'[j].id BY <2>3, <2>5, <3>1, <3>2
    <3> QED BY <1>1, <2>5, <3>3, <3>4 DEF Distinct
  <2> QED BY <1>3, <2>4, <2>5
<1>12. ASSUME NEW id, Recorded(id, synced) PROVE Recorded(id, synced)'
  <2>1. PICK i \in 1 .. synced : Good(i) /\ lines[i].id = id BY <1>12 DEF Recorded
  <2>2. i \in 1 .. K BY <1>5, <1>6, <2>1
  <2>3. i \in 1 .. synced' BY <1>1, <1>6, <2>1, <2>2
  <2> QED BY <1>2, <1>7, <2>1, <2>2, <2>3 DEF Recorded
<1>13. ASSUME NEW id, Recorded(id, Len(lines)) PROVE Recorded(id, Len(lines))'
  <2>1. PICK i \in 1 .. Len(lines) : Good(i) /\ lines[i].id = id BY <1>13 DEF Recorded
  <2>2. i \in 1 .. K BY <1>5, <2>1
  <2>3. i \in 1 .. Len(lines') BY <1>1, <1>3, <2>2
  <2> QED BY <1>2, <1>7, <2>1, <2>2, <2>3 DEF Recorded
<1>14. AckedInv' BY <1>1, <1>12 DEF JournalInv, AckedInv
<1>15. AppendInv'
  <2>1. ASSUME NEW q \in Openers, where'[q] = where[q], current'[q] = current[q]
        PROVE  /\ where'[q] = "written" => Recorded(current[q].id, Len(lines))'
               /\ where'[q] \in {"synced", "reconciling"} => Recorded(current[q].id, synced)'
    BY <1>1, <1>12, <1>13, <2>1 DEF JournalInv, AppendInv
  <2>2. CASE where' = where /\ current' = current BY <2>1, <2>2 DEF AppendInv
  <2>3. CASE /\ where' = [where EXCEPT ![p] = "written"]
             /\ current' = [current EXCEPT ![p] = [id |-> drawn + 1, seq |-> K + 1]]
             /\ Len(lines') = K + 1 /\ lines'[K + 1].whole
    <3>1. \A q \in Openers \ {p} : where'[q] = where[q] /\ current'[q] = current[q] BY <1>6, <2>3
    <3>2. where'[p] = "written" /\ current'[p].id = drawn + 1 BY <1>6, <2>3
    <3>3. lines'[K + 1].id = drawn + 1 /\ lines'[K + 1].seq = K + 1 BY <1>1, <1>3, <2>3
    <3>4. K + 1 \in 1 .. Len(lines') BY <1>1, <2>3
    <3>5. lines'[K + 1].whole /\ lines'[K + 1].seq = K + 1 BY <2>3, <3>3
    <3>6. \E i \in 1 .. Len(lines') : (lines'[i].whole /\ lines'[i].seq = i) /\ lines'[i].id = current'[p].id
      BY <3>2, <3>3, <3>4, <3>5
    <3>7. Recorded(current[p].id, Len(lines))' BY <3>6 DEF Recorded, Good
    <3> QED BY <2>1, <3>1, <3>2, <3>7 DEF AppendInv
  <2> QED BY <1>4, <2>2, <2>3
<1>16. RemovedInv' BY <1>1 DEF RemovedInv
<1> QED BY <1>9, <1>10, <1>11, <1>14, <1>15, <1>16 DEF JournalInv

\* After the sync the disk holds every line.
LEMMA SyncPreserves ==
  ASSUME JournalConstants, JournalInv, NEW p \in Openers, Journal!Sync(p)
  PROVE  JournalInv'
<1>1. /\ where[p] = "written"
      /\ UNCHANGED <<lines, ended, row, indexed, lease, snapshot, current, acked, drawn, deletion>>
  BY DEF Journal!Sync, Journal!rows
<1>2. CASE Journal!Fault /\ Journal!Goto(p, "open") /\ UNCHANGED synced BY <1>1, <1>2, LeaveTypes, LeavePreserves
<1>3. CASE synced' = Len(lines) /\ Journal!Goto(p, "synced") /\ UNCHANGED faults
  <2>1. /\ lines \in Seq(Journal!Lines) /\ Len(lines) \in Nat /\ synced \in 0 .. Len(lines)
        /\ where' = [where EXCEPT ![p] = "synced"] /\ where \in [Openers -> Journal!Places]
    BY <1>3 DEF Journal!Goto, JournalInv, Journal!TypeOK
  <2>2. Journal!TypeOK' BY <1>1, <1>3, <2>1 DEF JournalInv, Journal!TypeOK, Journal!Places
  <2>3. \A i : Good(i)' <=> Good(i) BY <1>1 DEF Good
  <2>4. ASSUME NEW id, NEW n \in 0 .. Len(lines), Recorded(id, n) PROVE Recorded(id, synced)'
    BY <1>3, <2>1, <2>3, <2>4, <1>1 DEF Recorded
  <2>5. Orderly' BY <1>1, <2>3 DEF JournalInv, Orderly
  <2>6. Distinct' BY <1>1 DEF JournalInv, Distinct
  <2>7. AckedInv' BY <1>1, <2>1, <2>4 DEF JournalInv, AckedInv
  <2>8. ASSUME deletion = "none", NEW q \in Openers
        PROVE  /\ where'[q] = "written" => Recorded(current[q].id, Len(lines))'
               /\ where'[q] \in {"synced", "reconciling"} => Recorded(current[q].id, synced)'
    <3>1. where[q] = "written" => Recorded(current[q].id, Len(lines)) BY <2>8 DEF JournalInv, AppendInv
    <3>2. where[q] \in {"synced", "reconciling"} => Recorded(current[q].id, synced) BY <2>8 DEF JournalInv, AppendInv
    <3>3. Len(lines) \in 0 .. Len(lines) BY <2>1
    <3>4. where[q] = "written" \/ where[q] \in {"synced", "reconciling"} => Recorded(current[q].id, synced)'
      BY <1>1, <2>1, <2>4, <3>1, <3>2, <3>3
    <3>5. where'[q] = "written" => where[q] = "written" BY <2>1
    <3>6. where'[q] \in {"synced", "reconciling"} => where[q] = "written" \/ where[q] \in {"synced", "reconciling"}
      BY <1>1, <2>1
    <3>7. Len(lines)' = synced' BY <1>1, <1>3
    <3> QED BY <3>4, <3>5, <3>6, <3>7 DEF Recorded
  <2>9. AppendInv' BY <1>1, <2>8 DEF AppendInv
  <2>10. RemovedInv' BY <1>1 DEF JournalInv, RemovedInv
  <2> QED BY <2>2, <2>5, <2>6, <2>7, <2>9, <2>10 DEF JournalInv
<1> QED BY <1>2, <1>3 DEF Journal!Sync

LEMMA CommitPreserves ==
  ASSUME JournalConstants, JournalInv, NEW p \in Openers, Journal!Commit(p)
  PROVE  JournalInv'
<1>1. where[p] = "synced" /\ UNCHANGED <<lines, ended, synced, lease, snapshot, current, drawn, deletion>>
  BY DEF Journal!Commit, Journal!file
<1>2. deletion = "none" => Recorded(current[p].id, synced) BY <1>1 DEF JournalInv, AppendInv
<1>3. CASE /\ Journal!Project({current[p]}) /\ acked' = acked \cup {current[p].id}
           /\ Journal!Goto(p, "open") /\ UNCHANGED faults
  <2>1. row' = TRUE /\ indexed' \subseteq Journal!Entries /\ acked' \subseteq Journal!Ids
    BY <1>3, LeaveTypes DEF Journal!Project
  <2>2. deletion = "none" => \A id \in acked' : id \in acked \/ Recorded(id, synced) BY <1>2, <1>3
  <2> QED BY <1>1, <1>3, <2>1, <2>2, LeaveTypes, LeavePreserves
<1>4. CASE (UNCHANGED faults \/ Journal!Fault) /\ Journal!Goto(p, "reconciling") /\ UNCHANGED <<row, indexed, acked>>
  BY <1>1, <1>4, LeaveTypes, LeavePreserves
<1> QED BY <1>3, <1>4 DEF Journal!Commit

LEMMA RepairPreserves ==
  ASSUME JournalConstants, JournalInv, NEW p \in Openers, Journal!Repair(p)
  PROVE  JournalInv'
<1>1. /\ where[p] = "reconciling" /\ acked' = acked \cup {current[p].id} /\ Journal!Goto(p, "open")
      /\ UNCHANGED <<lines, ended, synced, lease, snapshot, current, drawn, deletion, faults>>
  BY DEF Journal!Repair, Journal!file
<1>2. deletion = "none" => Recorded(current[p].id, synced) BY <1>1 DEF JournalInv, AppendInv
<1>3. deletion = "none" => \A id \in acked' : id \in acked \/ Recorded(id, synced) BY <1>1, <1>2
<1>4. acked' \subseteq Journal!Ids BY <1>1, LeaveTypes
<1>5. CASE UNCHANGED <<row, indexed>> BY <1>1, <1>3, <1>4, <1>5, LeaveTypes, LeavePreserves
<1>6. CASE Journal!Project(Journal!EntriesOf(Journal!Readable))
  <2>1. row' = TRUE /\ indexed' \subseteq Journal!Entries BY <1>6, LeaveTypes, ReadableTyped DEF Journal!Project
  <2> QED BY <1>1, <1>3, <1>4, <2>1, LeaveTypes, LeavePreserves
<1> QED BY <1>5, <1>6 DEF Journal!Repair

-----------------------------------------------------------------------------
(* Deletion *)

LEMMA PurgePreserves ==
  ASSUME JournalConstants, JournalInv, NEW p \in Openers, Journal!Purge(p)
  PROVE  JournalInv'
<1>1. UNCHANGED <<lines, ended, synced, snapshot, current, acked, drawn, deletion>> BY DEF Journal!Purge, Journal!file
<1>2. CASE row' = FALSE /\ indexed' = {} /\ lease' = None /\ Journal!Goto(p, "purged") /\ UNCHANGED faults
  BY <1>1, <1>2, LeaveTypes, LeavePreserves
<1>3. CASE Journal!Fault /\ Journal!Goto(p, "undoing") /\ UNCHANGED <<row, indexed, lease>>
  BY <1>1, <1>3, LeaveTypes, LeavePreserves
<1> QED BY <1>2, <1>3 DEF Journal!Purge, Journal!rows

\* A journal that is gone has nothing to keep.
LEMMA EmptyJournal ==
  ASSUME lines' = <<>>, deletion' # "none", Journal!TypeOK'
  PROVE  JournalInv'
<1>1. Len(lines') = 0 BY Zenon, EmptySeq
<1> QED BY <1>1 DEF JournalInv, Orderly, Distinct, AckedInv, AppendInv, RemovedInv

LEMMA RemoveDirectoryPreserves ==
  ASSUME JournalConstants, JournalInv, NEW p \in Openers, Journal!RemoveDirectory(p)
  PROVE  JournalInv'
<1>1. UNCHANGED <<row, indexed, lease, snapshot, current, acked, drawn>> BY DEF Journal!RemoveDirectory, Journal!rows
<1>2. CASE /\ lines' = <<>> /\ ended' = TRUE /\ synced' = 0 /\ deletion' \in {"removed", "done"}
           /\ faults' \in 0 .. MaxFailures /\ (Journal!Goto(p, "out") \/ Journal!Goto(p, "undoing"))
  <2>1. lines' \in Seq(Journal!Lines) /\ Len(lines') = 0 BY <1>2
  <2>2. where' \in [Openers -> Journal!Places] BY <1>2 DEF Journal!Goto, Journal!Places, JournalInv, Journal!TypeOK
  <2>3. synced' \in 0 .. Len(lines') BY <1>2, <2>1
  <2>4. Journal!TypeOK' BY <1>1, <1>2, <2>1, <2>2, <2>3 DEF JournalInv, Journal!TypeOK
  <2> QED BY <1>2, <2>4, EmptyJournal
<1>3. CASE UNCHANGED <<lines, ended, synced, deletion>> /\ faults' \in 0 .. MaxFailures /\ Journal!Goto(p, "undoing")
  BY <1>1, <1>3, LeaveTypes, LeavePreserves
<1> QED BY <1>2, <1>3, LeaveTypes DEF Journal!RemoveDirectory, Journal!file

LEMMA UndoDeletePreserves ==
  ASSUME JournalConstants, JournalInv, NEW p \in Openers, Journal!UndoDelete(p)
  PROVE  JournalInv'
<1>1. /\ Journal!Goto(p, "out")
      /\ UNCHANGED <<lines, ended, synced, snapshot, current, acked, drawn, deletion, faults>>
  BY DEF Journal!UndoDelete, Journal!file
<1>2. CASE UNCHANGED <<row, indexed, lease>> BY <1>1, <1>2, LeaveTypes, LeavePreserves
<1>3. CASE Journal!Project(Journal!EntriesOf(Journal!Readable)) /\ Journal!GiveBack(p)
  <2>1. row' = TRUE /\ indexed' \subseteq Journal!Entries BY <1>3, LeaveTypes, ReadableTyped DEF Journal!Project
  <2> QED BY <1>1, <1>3, <2>1, LeaveTypes, LeavePreserves
<1> QED BY <1>2, <1>3 DEF Journal!UndoDelete, Journal!rows

-----------------------------------------------------------------------------
(* Crashes *)

LEMMA CrashPreserves ==
  ASSUME JournalConstants, JournalInv, NEW p \in Openers, Journal!Crash(p)
  PROVE  JournalInv'
<1>1. /\ Journal!Fault /\ Journal!Goto(p, "out") /\ snapshot' = [snapshot EXCEPT ![p] = <<>>]
      /\ lease' = Gone \/ lease' = lease
      /\ lease' # None => lease # None
      /\ UNCHANGED <<lines, ended, synced, row, indexed, current, acked, drawn, deletion>>
  BY DEF Journal!Crash, Journal!file, JournalConstants
<1>2. lease' \in Openers \cup {None, Gone} BY <1>1, LeaveTypes
<1> QED BY <1>1, <1>2, LeaveTypes, LeavePreserves

\* What is left is a beginning of the file that has every line the disk held.
LEMMA PowerFacts ==
  ASSUME JournalInv, Journal!PowerLoss
  PROVE  \E n \in synced .. Len(lines) :
           /\ lines' \in Seq(Journal!Lines) /\ Len(lines') \in n .. Len(lines) /\ synced' = Len(lines')
           /\ \A i \in 1 .. n : lines'[i] = lines[i]
           /\ \A i \in 1 .. Len(lines') : lines'[i].id = lines[i].id
           /\ Len(lines') = n \/ (Len(lines') = n + 1 /\ ~lines'[n + 1].whole)
<1>1. /\ lines \in Seq(Journal!Lines) /\ Len(lines) \in Nat /\ synced \in 0 .. Len(lines)
      /\ \A i \in 1 .. Len(lines) : lines[i] \in Journal!Lines
  BY DEF JournalInv, Journal!TypeOK
<1>2. PICK n \in synced .. Len(lines) :
        \/ lines' = SubSeq(lines, 1, n) /\ synced' = n
        \/ /\ n < Len(lines)
           /\ lines' = [SubSeq(lines, 1, n + 1) EXCEPT ![n + 1].whole = FALSE]
           /\ synced' = n + 1
  BY DEF Journal!PowerLoss
<1>3. n \in Nat /\ n <= Len(lines) BY <1>1, <1>2
<1>4. CASE lines' = SubSeq(lines, 1, n) /\ synced' = n
  <2>1. /\ lines' \in Seq(Journal!Lines) /\ Len(lines') = n /\ \A i \in 1 .. n : lines'[i] = lines[i]
    BY <1>1, <1>3, <1>4
  <2>2. \A i \in 1 .. Len(lines') : lines'[i].id = lines[i].id BY <2>1
  <2>3. Len(lines') \in n .. Len(lines) BY <1>1, <1>3, <2>1
  <2> QED BY <1>2, <1>4, <2>1, <2>2, <2>3
<1>5. CASE /\ n < Len(lines)
           /\ lines' = [SubSeq(lines, 1, n + 1) EXCEPT ![n + 1].whole = FALSE]
           /\ synced' = n + 1
  <2> DEFINE kept == SubSeq(lines, 1, n + 1)
             torn == [lines[n + 1] EXCEPT !.whole = FALSE]
  <2>1. kept \in Seq(Journal!Lines) /\ Len(kept) = n + 1 /\ \A i \in 1 .. n + 1 : kept[i] = lines[i]
    BY <1>1, <1>3, <1>5
  <2>2. n + 1 \in 1 .. Len(lines) /\ n + 1 \in 1 .. n + 1 BY <1>1, <1>3, <1>5
  <2>3. torn \in Journal!Lines /\ torn.id = lines[n + 1].id /\ torn.whole = FALSE BY <1>1, <2>2 DEF Journal!Lines
  <2>4. lines' = [kept EXCEPT ![n + 1] = torn] BY <1>5, <2>1, <2>2
  <2> HIDE DEF kept, torn
  <2>5. /\ lines' \in Seq(Journal!Lines) /\ Len(lines') = n + 1
        /\ \A i \in 1 .. n + 1 : lines'[i] = IF i = n + 1 THEN torn ELSE kept[i]
    BY <2>1, <2>2, <2>3, <2>4, ExceptSeq
  <2>6. \A i \in 1 .. n : lines'[i] = lines[i] BY <1>3, <2>1, <2>5
  <2>7. \A i \in 1 .. Len(lines') : lines'[i].id = lines[i].id BY <2>1, <2>3, <2>5
  <2>8. ~lines'[n + 1].whole BY <2>2, <2>3, <2>5
  <2>9. Len(lines') \in n .. Len(lines) BY <1>1, <1>3, <1>5, <2>5
  <2> QED BY <1>2, <1>5, <2>5, <2>6, <2>7, <2>8, <2>9
<1> QED BY <1>2, <1>4, <1>5

LEMMA PowerLossPreserves ==
  ASSUME JournalConstants, JournalInv, Journal!PowerLoss
  PROVE  JournalInv'
<1>1. PICK n \in synced .. Len(lines) :
        /\ lines' \in Seq(Journal!Lines) /\ Len(lines') \in n .. Len(lines) /\ synced' = Len(lines')
        /\ \A i \in 1 .. n : lines'[i] = lines[i]
        /\ \A i \in 1 .. Len(lines') : lines'[i].id = lines[i].id
        /\ Len(lines') = n \/ (Len(lines') = n + 1 /\ ~lines'[n + 1].whole)
  BY PowerFacts
<1>2. /\ lease' \in Openers \cup {None, Gone} /\ (lease' # None => lease # None)
      /\ where' = [p \in Openers |-> "out"] /\ snapshot' = [p \in Openers |-> <<>>]
      /\ ended' \in BOOLEAN /\ faults' \in 0 .. MaxFailures
      /\ UNCHANGED <<row, indexed, current, acked, drawn, deletion>>
  <2>1. ended' \in BOOLEAN
    <3>1. ended \in BOOLEAN BY DEF JournalInv, Journal!TypeOK
    <3> QED BY <3>1 DEF Journal!PowerLoss
  <2>2. faults' \in 0 .. MaxFailures
    BY DEF Journal!PowerLoss, Journal!Fault, JournalConstants, JournalInv, Journal!TypeOK
  <2>3. lease' = (IF lease = None THEN None ELSE Gone) BY DEF Journal!PowerLoss
  <2> QED BY <2>1, <2>2, <2>3 DEF Journal!PowerLoss
<1>3. /\ lines \in Seq(Journal!Lines) /\ Len(lines) \in Nat /\ synced \in 0 .. Len(lines) /\ Len(lines') \in Nat
      /\ n \in Nat /\ n <= Len(lines)
  BY <1>1 DEF JournalInv, Journal!TypeOK
<1>4. synced' \in 0 .. Len(lines') BY <1>1, <1>3
<1>5. Journal!TypeOK' BY <1>1, <1>2, <1>4 DEF JournalInv, Journal!TypeOK, Journal!Places
<1>6. \A i \in 1 .. n : Good(i)' <=> Good(i) BY <1>1 DEF Good
<1>7. Orderly'
  <2>1. ASSUME NEW i \in 1 .. Len(lines') - 1 PROVE Good(i)'
    <3>1. i \in 1 .. n /\ i \in 1 .. Len(lines) BY <1>1, <1>3
    <3>2. CASE i \in 1 .. Len(lines) - 1 BY <1>6, <3>1, <3>2 DEF JournalInv, Orderly
    <3>3. CASE i = Len(lines) BY <1>1, <1>3, <3>3
    <3> QED BY <1>3, <3>1, <3>2, <3>3
  <2> QED BY <2>1 DEF Orderly
<1>8. Distinct'
  <2>1. 1 .. Len(lines') \subseteq 1 .. Len(lines) BY <1>1, <1>3
  <2> QED BY <1>1, <1>2, <2>1 DEF JournalInv, Distinct
<1>9. AckedInv'
  <2>1. ASSUME NEW id, Recorded(id, synced) PROVE Recorded(id, synced)'
    <3>1. PICK i \in 1 .. synced : Good(i) /\ lines[i].id = id BY <2>1 DEF Recorded
    <3>2. i \in 1 .. n /\ i \in 1 .. synced' BY <1>1, <1>3, <3>1
    <3> QED BY <1>1, <1>6, <3>1, <3>2 DEF Recorded
  <2> QED BY <1>2, <2>1 DEF JournalInv, AckedInv
<1>10. AppendInv' BY <1>2 DEF AppendInv
<1>11. RemovedInv'
  <2>1. ASSUME lines = <<>> PROVE lines' = <<>>
    <3>1. Len(lines) = 0 BY <2>1
    <3>2. Len(lines') = 0 BY <1>1, <1>3, <3>1
    <3> QED BY <1>1, <3>2, EmptySeq
  <2> QED BY <1>2, <2>1 DEF JournalInv, RemovedInv
<1> QED BY <1>5, <1>7, <1>8, <1>9, <1>10, <1>11 DEF JournalInv

LEMMA NextPreserves ==
  ASSUME JournalConstants, JournalInv, [Journal!Next]_(Journal!vars)
  PROVE  JournalInv'
<1>1. CASE UNCHANGED Journal!vars BY <1>1, StutterInv
<1>2. CASE Journal!PowerLoss BY <1>2, PowerLossPreserves
<1>3. ASSUME NEW p \in Openers, Journal!Open(p) \/ Journal!Read(p) \/ Journal!ReadFails(p) \/ Journal!Reconcile(p)
          \/ Journal!Close(p) \/ Journal!StartDelete(p)
      PROVE  JournalInv'
  BY <1>3, AcquirePreserves, ReadPreserves, ReadFailsPreserves, ReconcilePreserves, ClosePreserves
     DEF Journal!Open, Journal!StartDelete
<1>4. ASSUME NEW p \in Openers, Journal!AppendWrite(p) \/ Journal!Sync(p) \/ Journal!Commit(p) \/ Journal!Repair(p)
      PROVE  JournalInv'
  BY <1>4, AppendWritePreserves, SyncPreserves, CommitPreserves, RepairPreserves
<1>5. ASSUME NEW p \in Openers, Journal!Purge(p) \/ Journal!RemoveDirectory(p) \/ Journal!UndoDelete(p)
          \/ Journal!Crash(p)
      PROVE  JournalInv'
  BY <1>5, PurgePreserves, RemoveDirectoryPreserves, UndoDeletePreserves, CrashPreserves
<1> QED BY <1>1, <1>2, <1>3, <1>4, <1>5 DEF Journal!Next

-----------------------------------------------------------------------------
(* The journal implements the log *)

Names == [i \in DOMAIN Journal!Readable |-> Journal!Readable[i].id]
Promised == IF deletion = "none" THEN acked ELSE {}

\* The abstract log, in terms of the lines.
LogShape ==
  /\ Names \in Seq(Journal!Ids) /\ Len(Names) = Len(Journal!Kept) /\ DOMAIN Names = 1 .. Len(Journal!Kept)
  /\ \A i \in 1 .. Len(Journal!Kept) : Names[i] = lines[i].id

LEMMA NamesShape == JournalInv => LogShape
<1> SUFFICES ASSUME JournalInv PROVE LogShape OBVIOUS
<1>1. /\ Journal!Readable \in Seq(Journal!Entries) /\ Len(Journal!Readable) = Len(Journal!Kept)
      /\ Len(Journal!Kept) \in Nat
      /\ \A i \in 1 .. Len(Journal!Kept) : Journal!Readable[i] = Journal!Entry(lines[i])
  BY JournalShape DEF Shape
<1>2. DOMAIN Journal!Readable = 1 .. Len(Journal!Kept) BY <1>1
<1>3. \A i \in 1 .. Len(Journal!Kept) : Journal!Readable[i] \in Journal!Entries BY <1>1
<1>4. \A i \in 1 .. Len(Journal!Kept) : Journal!Readable[i].id \in Journal!Ids /\ Journal!Readable[i].id = lines[i].id
  <2>1. \A x \in Journal!Entries : x.id \in Journal!Ids BY DEF Journal!Entries
  <2>2. \A i \in 1 .. Len(Journal!Kept) : Journal!Entry(lines[i]).id = lines[i].id BY DEF Journal!Entry
  <2> QED BY <1>1, <1>3, <2>1, <2>2
<1>5. Names = [i \in 1 .. Len(Journal!Kept) |-> Journal!Readable[i].id] BY <1>2 DEF Names
<1> QED BY <1>1, <1>4, <1>5 DEF LogShape

LEMMA SameLines == ASSUME UNCHANGED <<lines, deletion, acked>> PROVE Names' = Names /\ Promised' = Promised
BY DEF Names, Promised, Journal!Readable, Journal!Corrupt, Journal!DamagedTail, Journal!Unreadable

LEMMA InitLog == ASSUME JournalConstants, Journal!Init PROVE Journal!Log!Init
<1>1. lines = <<[id |-> 1, seq |-> 1, whole |-> TRUE]>> /\ acked = {1} /\ deletion = "none" BY DEF Journal!Init
<1>2. Len(lines) = 1 /\ lines[1].whole /\ lines[1].seq = 1 /\ lines[1].id = 1 BY <1>1
<1>3. LogShape /\ Shape BY InitInv, NamesShape, JournalShape
<1>4. Len(Journal!Kept) = 1 BY <1>2, <1>3 DEF Shape, Good
<1>5. Names \in Seq(Journal!Ids) /\ Len(Names) = 1 /\ DOMAIN Names = {1} /\ Names[1] = 1
  BY <1>2, <1>3, <1>4 DEF LogShape
<1>6. Promised = {Names[i] : i \in DOMAIN Names} BY <1>1, <1>5 DEF Promised
<1> QED BY <1>5, <1>6 DEF Journal!Log!Init, Journal!Log!Readable, Names, Promised

\* A write adds the event that was drawn, or nothing that can be read.
LEMMA AppendRecords ==
  ASSUME JournalConstants, JournalInv, JournalInv', NEW p \in Openers, Journal!AppendWrite(p)
  PROVE  (\E e \in Journal!Ids : Journal!Log!Record(e)) \/ UNCHANGED Journal!Log!logVars
<1> DEFINE K == Len(Journal!Kept)
<1>1. Shape /\ LogShape BY JournalShape, NamesShape
<1>2. Shape' /\ LogShape' BY JournalShape, NamesShape, PTL
<1>3. /\ \A i \in 1 .. K : lines'[i] = lines[i]
      /\ \/ Len(lines') = K
         \/ Len(lines') = K + 1 /\ lines'[K + 1].id = drawn + 1 /\ lines'[K + 1].seq = K + 1
      /\ drawn' = drawn + 1 /\ drawn' \in Journal!Ids /\ K \in Nat /\ UNCHANGED <<acked, deletion>>
  BY AppendFacts
<1>4. Promised' = Promised BY <1>3 DEF Promised
<1>5. Len(Journal!Kept)' \in {K, K + 1} /\ (Len(Journal!Kept)' = K + 1 => Len(lines') = K + 1)
  <2>1. Len(Journal!Kept)' \in {Len(lines') - 1, Len(lines')} BY <1>2 DEF Shape
  <2>2. CASE Len(lines') = K + 1 BY <1>3, <2>1, <2>2
  <2>3. CASE Len(lines') = K
    <3>1. Len(Journal!Kept)' # K - 1
      <4>1. SUFFICES ASSUME Len(Journal!Kept)' = K - 1 PROVE FALSE OBVIOUS
      <4>2. ~Good(Len(lines))' BY <2>3, <4>1, <1>2 DEF Shape
      <4>3. K # 0 BY <1>2, <1>3, <4>1 DEF Shape
      <4>4. Good(K) /\ K \in 1 .. K BY <1>1, <1>3, <4>3 DEF Shape
      <4> QED BY <1>3, <2>3, <4>2, <4>4 DEF Good
    <3> QED BY <1>3, <2>1, <2>3, <3>1
  <2> QED BY <1>3, <2>2, <2>3
<1>6. CASE Len(Journal!Kept)' = K
  <2>1. Names' \in Seq(Journal!Ids) /\ Names \in Seq(Journal!Ids) /\ Len(Names') = Len(Names)
    BY <1>1, <1>2, <1>6 DEF LogShape
  <2>2. \A i \in 1 .. Len(Names) : Names'[i] = Names[i] BY <1>1, <1>2, <1>3, <1>6 DEF LogShape
  <2>3. Names' = Names BY <2>1, <2>2, SeqEqual
  <2> QED BY <1>4, <2>3 DEF Journal!Log!logVars, Names, Promised
<1>7. CASE Len(Journal!Kept)' = K + 1
  <2>1. PICK e \in Journal!Ids : e = drawn + 1 BY <1>3
  <2>2. e \in Journal!Ids /\ Names \in Seq(Journal!Ids) /\ Names' \in Seq(Journal!Ids) /\ Len(Names) = K
            /\ Len(Names') = K + 1
    BY <1>1, <1>2, <1>3, <1>7 DEF LogShape
  <2>3. /\ \A i \in 1 .. K : Names[i] = lines[i].id
        /\ \A i \in 1 .. K + 1 : Names'[i] = lines'[i].id
    BY <1>1, <1>2, <1>7 DEF LogShape
  <2>4. lines'[K + 1].id = e BY <1>3, <1>5, <1>7, <2>1
  <2>5. Append(Names, e) \in Seq(Journal!Ids) /\ Len(Append(Names, e)) = K + 1 BY <2>2
  <2>6. \A i \in 1 .. K + 1 : Names'[i] = Append(Names, e)[i]
    <3>1. \A i \in 1 .. K : Append(Names, e)[i] = Names[i] BY <2>2
    <3>2. Append(Names, e)[K + 1] = e BY <2>2
    <3>3. \A i \in 1 .. K + 1 : i \in 1 .. K \/ i = K + 1 BY <1>3
    <3>4. \A i \in 1 .. K : i \in 1 .. K + 1 BY <1>3
    <3>5. K + 1 \in 1 .. K + 1 BY <1>3
    <3> QED BY <1>3, <2>3, <2>4, <3>1, <3>2, <3>3, <3>4, <3>5
  <2>7. Names' = Append(Names, e) BY <2>2, <2>5, <2>6, SeqEqual
  <2>8. e \notin {Names[i] : i \in DOMAIN Names}
    <3>1. \A i \in 1 .. K : i \in 1 .. Len(lines) BY <1>1 DEF Shape, JournalInv, Journal!TypeOK
    <3>2. \A i \in 1 .. K : Names[i] <= drawn BY <2>3, <3>1 DEF JournalInv, Distinct
    <3>3. drawn \in Nat BY DEF JournalInv, Journal!TypeOK, Journal!Ids
    <3> QED BY <1>1, <2>1, <3>2, <3>3 DEF LogShape
  <2>9. Journal!Log!Record(e) BY <1>4, <2>7, <2>8 DEF Journal!Log!Record, Journal!Log!Readable, Names, Promised
  <2> QED BY <2>2, <2>9
<1> QED BY <1>5, <1>6, <1>7

\* What is recorded can be read.
LEMMA RecordedIsNamed ==
  JournalInv => \A id : Recorded(id, synced) => id \in {Names[i] : i \in DOMAIN Names}
<1> SUFFICES ASSUME JournalInv, NEW id, Recorded(id, synced) PROVE id \in {Names[i] : i \in DOMAIN Names}
  OBVIOUS
<1>1. Shape /\ LogShape BY JournalShape, NamesShape
<1>2. PICK i \in 1 .. synced : Good(i) /\ lines[i].id = id BY DEF Recorded
<1>3. Len(lines) \in Nat /\ synced \in 0 .. Len(lines) BY DEF JournalInv, Journal!TypeOK
<1>4. Len(Journal!Kept) \in {Len(lines) - 1, Len(lines)} /\ (Len(Journal!Kept) = Len(lines) - 1 => ~Good(Len(lines)))
  BY <1>1 DEF Shape
<1>5. i \in 1 .. Len(Journal!Kept) BY <1>2, <1>3, <1>4
<1> QED BY <1>1, <1>2, <1>5 DEF LogShape

\* An event that is acknowledged is in the log, unless the thread is being deleted.
LEMMA AcknowledgePromises ==
  ASSUME JournalInv, NEW p \in Openers, where[p] \in {"synced", "reconciling"},
         acked' = acked \cup {current[p].id}, UNCHANGED <<lines, deletion>>
  PROVE  (\E e \in Journal!Ids : Journal!Log!Promise(e)) \/ UNCHANGED Journal!Log!logVars
<1>1. Names' = Names BY DEF Names, Journal!Readable, Journal!Corrupt, Journal!DamagedTail, Journal!Unreadable
<1> DEFINE e == current[p].id
<1>2. e \in Journal!Ids BY LeaveTypes DEF JournalInv, Journal!TypeOK, Journal!Entries
<1>3. CASE deletion = "none"
  <2>1. e \in {Names[i] : i \in DOMAIN Names} BY <1>3, RecordedIsNamed DEF JournalInv, AppendInv
  <2>2. Promised' = Promised \cup {e} BY <1>3 DEF Promised
  <2> HIDE DEF e
  <2>3. Journal!Log!Promise(e) BY <1>1, <2>1, <2>2 DEF Journal!Log!Promise, Journal!Log!Readable, Names, Promised
  <2> QED BY <1>2, <2>3
<1>4. CASE deletion # "none"
  <2>1. Promised' = Promised BY <1>4 DEF Promised
  <2> QED BY <1>1, <2>1 DEF Journal!Log!logVars, Names, Promised
<1> QED BY <1>3, <1>4

\* A power loss takes away the end of the log, and nothing that was promised.
LEMMA PowerLossLoses ==
  ASSUME JournalConstants, JournalInv, JournalInv', Journal!PowerLoss
  PROVE  Journal!Log!Lose
<1>1. Shape /\ LogShape BY JournalShape, NamesShape
<1>2. Shape' /\ LogShape' BY JournalShape, NamesShape, PTL
<1>3. PICK n \in synced .. Len(lines) :
        /\ lines' \in Seq(Journal!Lines) /\ Len(lines') \in n .. Len(lines) /\ synced' = Len(lines')
        /\ \A i \in 1 .. n : lines'[i] = lines[i]
        /\ \A i \in 1 .. Len(lines') : lines'[i].id = lines[i].id
        /\ Len(lines') = n \/ (Len(lines') = n + 1 /\ ~lines'[n + 1].whole)
  BY PowerFacts
<1>4. UNCHANGED <<acked, deletion>> BY DEF Journal!PowerLoss
<1> DEFINE m == Len(Journal!Kept)'
<1>5. /\ Len(lines) \in Nat /\ Len(lines') \in Nat /\ n \in Nat /\ synced \in Nat
      /\ Len(Journal!Kept) \in Nat /\ m \in Nat
  BY <1>1, <1>2, <1>3 DEF Shape, JournalInv, Journal!TypeOK
<1>6. /\ m \in {Len(lines') - 1, Len(lines')} /\ Len(Journal!Kept) \in {Len(lines) - 1, Len(lines)}
      /\ Len(Journal!Kept) = Len(lines) - 1 => ~Good(Len(lines))
      /\ \A i \in 1 .. m : Good(i)'
  BY <1>1, <1>2 DEF Shape
<1>7. m <= Len(Journal!Kept)
  <2>1. CASE m <= Len(lines) - 1 BY <1>5, <1>6, <2>1
  <2>2. CASE m = Len(lines)
    <3>1. Len(lines') = Len(lines) BY <1>3, <1>5, <1>6, <2>2
    <3>2. CASE Len(lines) = 0 BY <1>5, <2>2, <3>2, <1>6
    <3>3. CASE Len(lines) > 0
      <4>1. Good(Len(lines))' BY <1>5, <1>6, <2>2, <3>1, <3>3
      <4>2. n = Len(lines) BY <1>3, <1>5, <3>1, <4>1 DEF Good
      <4>3. Good(Len(lines)) BY <1>3, <1>5, <3>1, <3>3, <4>1, <4>2 DEF Good
      <4> QED BY <1>5, <1>6, <2>2, <4>3
    <3> QED BY <1>5, <3>2, <3>3
  <2> QED BY <1>3, <1>5, <1>6, <2>1, <2>2
<1>8. /\ Names \in Seq(Journal!Ids) /\ Names' \in Seq(Journal!Ids) /\ Len(Names) = Len(Journal!Kept) /\ Len(Names') = m
  BY <1>1, <1>2 DEF LogShape
<1>9. Names' = SubSeq(Names, 1, m)
  <2>1. \A i \in 1 .. m : i \in 1 .. Len(Journal!Kept) /\ i \in 1 .. Len(lines') BY <1>5, <1>6, <1>7
  <2>2. \A i \in 1 .. m : Names'[i] = lines'[i].id BY <1>2 DEF LogShape
  <2>3. \A i \in 1 .. m : Names[i] = lines[i].id BY <1>1, <2>1 DEF LogShape
  <2>4. \A i \in 1 .. m : Names'[i] = Names[i] BY <1>3, <2>1, <2>2, <2>3
  <2> HIDE DEF m
  <2>5. /\ SubSeq(Names, 1, m) \in Seq(Journal!Ids) /\ Len(SubSeq(Names, 1, m)) = m
        /\ \A i \in 1 .. m : SubSeq(Names, 1, m)[i] = Names[i]
    BY <1>5, <1>7, <1>8
  <2> QED BY <1>8, <2>4, <2>5, SeqEqual
<1>10. m \in 0 .. Len(Names) BY <1>5, <1>7, <1>8
<1>11. Promised' = Promised BY <1>4 DEF Promised
<1>12. Promised \subseteq {Names'[i] : i \in DOMAIN Names'}
  <2>1. (\A id : Recorded(id, synced) => id \in {Names[i] : i \in DOMAIN Names})' BY RecordedIsNamed, PTL
  <2>2. deletion = "none" => \A id \in acked : Recorded(id, synced)' BY <1>4 DEF JournalInv, AckedInv
  <2> QED BY <2>1, <2>2 DEF Promised
<1> HIDE DEF m
<1> QED BY <1>9, <1>10, <1>11, <1>12 DEF Journal!Log!Lose, Names, Promised

\* Removing the journal is the deletion of the log.
LEMMA RemoveDirectoryDeletes ==
  ASSUME JournalConstants, JournalInv, JournalInv', NEW p \in Openers, Journal!RemoveDirectory(p)
  PROVE  Journal!Log!Delete \/ UNCHANGED Journal!Log!logVars
<1>1. \/ lines' = <<>> /\ deletion' # "none"
      \/ UNCHANGED <<lines, deletion, acked>>
  BY DEF Journal!RemoveDirectory, Journal!file
<1>2. CASE lines' = <<>> /\ deletion' # "none"
  <2>1. Shape' /\ LogShape' BY JournalShape, NamesShape, PTL
  <2>2. Len(lines') = 0 BY <1>2
  <2>3. Len(Journal!Kept)' = 0
    <3>1. Len(Journal!Kept)' \in Nat /\ Len(Journal!Kept)' \in {Len(lines') - 1, Len(lines')} BY <2>1 DEF Shape
    <3> QED BY <2>2, <3>1
  <2>4. Names' \in Seq(Journal!Ids) /\ Len(Names') = 0 BY <2>1, <2>3 DEF LogShape
  <2>5. Names' = <<>> BY <2>4, EmptySeq
  <2>6. Promised' = {} BY <1>2 DEF Promised
  <2> QED BY <2>5, <2>6 DEF Journal!Log!Delete, Names, Promised
<1>3. CASE UNCHANGED <<lines, deletion, acked>>
  BY <1>3, SameLines DEF Journal!Log!logVars, Names, Promised
<1> QED BY <1>1, <1>2, <1>3

\* Every step of the journal is a step of the log, or none.
LEMMA StepImplements ==
  ASSUME JournalConstants, JournalInv, JournalInv', [Journal!Next]_(Journal!vars)
  PROVE  [Journal!Log!Next]_(Journal!Log!logVars)
<1>1. CASE UNCHANGED <<lines, deletion, acked>>
  BY <1>1, SameLines DEF Journal!Log!logVars, Names, Promised
<1>2. CASE Journal!PowerLoss BY <1>2, PowerLossLoses DEF Journal!Log!Next
<1>3. ASSUME NEW p \in Openers,
             Journal!Open(p) \/ Journal!Read(p) \/ Journal!ReadFails(p) \/ Journal!Reconcile(p) \/ Journal!Close(p)
                 \/ Journal!StartDelete(p) \/ Journal!Sync(p)
               \/ Journal!Purge(p) \/ Journal!UndoDelete(p) \/ Journal!Crash(p)
      PROVE  UNCHANGED <<lines, deletion, acked>>
  BY <1>3 DEF Journal!Open, Journal!Acquire, Journal!Read, Journal!ReadFails, Journal!Reconcile, Journal!Close,
    Journal!StartDelete, Journal!Sync, Journal!Purge, Journal!UndoDelete, Journal!Crash, Journal!file
<1>4. ASSUME NEW p \in Openers, Journal!AppendWrite(p) PROVE [Journal!Log!Next]_(Journal!Log!logVars)
  <2>1. CASE \E e \in Journal!Ids : Journal!Log!Record(e) BY <2>1 DEF Journal!Log!Next
  <2>2. CASE UNCHANGED Journal!Log!logVars BY <2>2
  <2> QED BY <1>4, <2>1, <2>2, AppendRecords
<1>5. ASSUME NEW p \in Openers, Journal!Commit(p) \/ Journal!Repair(p) PROVE [Journal!Log!Next]_(Journal!Log!logVars)
  <2>1. UNCHANGED <<lines, deletion>> /\ where[p] \in {"synced", "reconciling"}
        /\ (acked' = acked \cup {current[p].id} \/ UNCHANGED acked)
    BY <1>5 DEF Journal!Commit, Journal!Repair, Journal!file
  <2>2. CASE acked' = acked \cup {current[p].id}
    <3>1. CASE \E e \in Journal!Ids : Journal!Log!Promise(e) BY <3>1 DEF Journal!Log!Next
    <3>2. CASE UNCHANGED Journal!Log!logVars BY <3>2
    <3> QED BY <2>1, <2>2, <3>1, <3>2, AcknowledgePromises
  <2>3. CASE UNCHANGED acked BY <1>1, <2>1, <2>3
  <2> QED BY <2>1, <2>2, <2>3
<1>6. ASSUME NEW p \in Openers, Journal!RemoveDirectory(p) PROVE [Journal!Log!Next]_(Journal!Log!logVars)
  <2>1. CASE Journal!Log!Delete BY <2>1 DEF Journal!Log!Next
  <2>2. CASE UNCHANGED Journal!Log!logVars BY <2>2
  <2> QED BY <1>6, <2>1, <2>2, RemoveDirectoryDeletes
<1>7. CASE UNCHANGED Journal!vars BY <1>1, <1>7 DEF Journal!vars, Journal!file
<1> QED BY <1>1, <1>2, <1>3, <1>4, <1>5, <1>6, <1>7 DEF Journal!Next

-----------------------------------------------------------------------------
(* Maintenance of the context *)

MaintenanceBounds == Retain \in Nat /\ MaxAttempts \in Nat /\ MaxHistory \in Nat /\ MaxFacts \in Nat
     /\ MaxDeaths \in Nat

Digests == {Compaction!NoDigest} \cup (Nat \X Nat \X BOOLEAN)
Keys == Nat \X BOOLEAN \X Nat
Transactions ==
  [pending : BOOLEAN, manual : BOOLEAN, start : Nat, end : Nat, attempts : Nat, answered : Nat,
          candidate : Compaction!Bodies,
   body : BOOLEAN, feedback : BOOLEAN, semantic : BOOLEAN, snapshot : Digests]
Runs ==
  [manual : BOOLEAN, requests : Nat, committed : BOOLEAN, end : Nat, snapshot : Digests, stop : BOOLEAN, key : Keys]

MaintenanceTyped ==
  /\ Compaction!TypeOK
  /\ tx \in Transactions /\ run \in Runs
  /\ queued => history < MaxHistory

\* An answer belongs to a request, a body to an answer, and a transaction that is gone leaves nothing.
TransactionInv ==
  /\ Compaction!Pending \/ tx = Compaction!NoTransaction
  /\ tx.body => tx.candidate # "none"

\* Where the process asks and commits, the transaction is pending, starts where the conversation is compacted and has
\* the facts the process has, which are the present ones until a request fails.
Working == {"collect", "attempt", "accept", "commit"}
StageInv ==
  /\ stage \in Working => Compaction!Pending /\ (run.stop \/ tx.snapshot = Compaction!Digest(known))
  /\ stage \in Working \cup {"asking"} /\ Compaction!Pending => tx.start = compacted /\ run.snapshot = tx.snapshot
  /\ stage \in {"collect", "attempt"} /\ ~run.stop => tx.attempts = tx.answered
  /\ stage \in {"accept", "commit"} => tx.semantic /\ tx.candidate # "none"
  /\ stage = "commit" => ~tx.feedback
  /\ stage = "open" /\ ~Compaction!Pending => compacted < run.end /\ run.end <= history
  /\ stage = "boundary" /\ run.manual => compacted < history
  /\ stage \in {"preflight", "gate"} => ~run.manual

CompactionInv == MaintenanceTyped /\ TransactionInv /\ StageInv /\ Compaction!JournalAcceptsEvents

\* What NeverAskedAgain says of a step.
AskedOnce == run'.requests > run.requests => tx.attempts = tx.answered

LEMMA InitCompaction ==
  ASSUME MaintenanceBounds, Compaction!Init
  PROVE  CompactionInv
<1>1. Compaction!NoTransaction \in Transactions
  BY DEF Compaction!NoTransaction, Transactions, Compaction!Bodies, Digests
<1>2. Compaction!NoRun \in Runs
  BY DEF Compaction!NoRun, Runs, Keys, Digests
<1>3. Compaction!TypeOK
  <2>1. /\ Compaction!NoTransaction.pending = FALSE /\ Compaction!NoTransaction.start = 0
        /\ Compaction!NoTransaction.end = 0
        /\ Compaction!NoTransaction.candidate \in Compaction!Bodies /\ Compaction!NoTransaction.answered = 0
        /\ Compaction!NoTransaction.attempts = 0
    BY DEF Compaction!NoTransaction, Compaction!Bodies
  <2>2. "idle" \in Compaction!Steps
    BY DEF Compaction!Steps
  <2>3. /\ history \in 0..MaxHistory /\ facts \in 0..MaxFacts /\ deaths \in 0..MaxDeaths /\ compacted \in 0..history
        /\ 0 <= MaxAttempts
    BY DEF MaintenanceBounds, Compaction!Init
  <2>4. tx = Compaction!NoTransaction /\ stage = "idle" /\ history = 0
    BY DEF Compaction!Init
  <2>5. /\ queued \in BOOLEAN /\ known \in BOOLEAN /\ referenced \in BOOLEAN /\ reset \in BOOLEAN
        /\ rebased \in BOOLEAN /\ summary \in BOOLEAN
    BY DEF Compaction!Init
  <2>6. tx.start = 0 /\ tx.end = 0 /\ tx.answered = 0 /\ tx.attempts = 0
    BY <2>1, <2>4
  <2>7. tx.start <= tx.end /\ tx.end <= history /\ tx.answered <= tx.attempts
    BY <2>4, <2>6
  <2>8. tx.attempts <= MaxAttempts
    BY <2>3, <2>6
  <2>9. tx.pending \in BOOLEAN /\ tx.candidate \in Compaction!Bodies /\ stage \in Compaction!Steps
    BY <2>1, <2>2, <2>4
  <2> QED
    BY <2>3, <2>5, <2>7, <2>8, <2>9 DEF Compaction!TypeOK
<1>4. MaintenanceTyped
  BY <1>1, <1>2, <1>3 DEF Compaction!Init, MaintenanceTyped
<1> QED
  BY <1>4 DEF Compaction!Init, CompactionInv, TransactionInv, StageInv, Compaction!JournalAcceptsEvents,
    Compaction!NoTransaction, Compaction!NoRun, Compaction!Pending, Working

LEMMA Digesting ==
  ASSUME MaintenanceBounds, CompactionInv
  PROVE  /\ history \in Nat /\ facts \in Nat /\ compacted \in Nat /\ compacted <= history
         /\ Compaction!Digest(known) \in Digests /\ Compaction!Digest(queued) \in Digests
         /\ \A a, b : Compaction!Digest(a) = Compaction!Digest(b) <=> a = b
         /\ Compaction!Key \in Keys /\ tx \in Transactions /\ run \in Runs /\ Compaction!NoTransaction \in Transactions
         /\ Compaction!NoRun \in Runs
<1>1. /\ history \in Nat /\ facts \in Nat /\ compacted \in Nat /\ compacted <= history
      /\ known \in BOOLEAN /\ queued \in BOOLEAN /\ referenced \in BOOLEAN
  BY DEF MaintenanceBounds, CompactionInv, MaintenanceTyped, Compaction!TypeOK
<1>2. Compaction!Digest(known) \in Digests /\ Compaction!Digest(queued) \in Digests /\ Compaction!Key \in Keys
  BY <1>1 DEF Compaction!Digest, Digests, Compaction!Key, Keys
<1>3. Compaction!NoTransaction \in Transactions
  BY DEF Compaction!NoTransaction, Transactions, Compaction!Bodies, Digests
<1>4. Compaction!NoRun \in Runs
  BY DEF Compaction!NoRun, Runs, Keys, Digests
<1>5. \A a, b : Compaction!Digest(a) = Compaction!Digest(b) <=> a = b
  BY DEF Compaction!Digest
<1>6. QED
  BY <1>1, <1>2, <1>3, <1>4, <1>5 DEF CompactionInv, MaintenanceTyped

LEMMA ChangeFactsStep ==
  ASSUME MaintenanceBounds, CompactionInv, Compaction!ChangeFacts
  PROVE  CompactionInv' /\ AskedOnce
<1>1. MaintenanceTyped'
  <2>1. tx' \in Transactions
    BY Digesting DEF Compaction!ChangeFacts, Compaction!Quiet, Transactions, Compaction!Bodies, Compaction!shape,
      Compaction!journal
  <2>2. run' \in Runs
    BY Digesting DEF Compaction!ChangeFacts, Compaction!Quiet, Runs, Compaction!shape, Compaction!journal, StageInv,
      CompactionInv, MaintenanceTyped, Working
  <2>3. stage' \in Compaction!Steps
    BY DEF Compaction!ChangeFacts, Compaction!Quiet, Compaction!Steps, CompactionInv, MaintenanceTyped,
      Compaction!TypeOK, Compaction!shape, Compaction!journal
  <2>4. /\ tx'.start <= tx'.end /\ tx'.end <= history' /\ tx'.answered <= tx'.attempts /\ tx'.attempts <= MaxAttempts
    BY Digesting DEF Compaction!ChangeFacts, Compaction!Quiet, CompactionInv, MaintenanceTyped, Compaction!TypeOK,
      TransactionInv, StageInv, MaintenanceBounds, Compaction!NoTransaction, Transactions, Runs, Compaction!Pending,
      Compaction!shape, Compaction!journal
  <2>5. compacted' \in 0..history'
    BY Digesting DEF Compaction!ChangeFacts, Compaction!Quiet, CompactionInv, MaintenanceTyped, Compaction!TypeOK,
      MaintenanceBounds, Compaction!shape, Compaction!journal
  <2>6. /\ history' \in 0..MaxHistory /\ facts' \in 0..MaxFacts /\ deaths' \in 0..MaxDeaths
        /\ (queued' => history' < MaxHistory)
    BY Digesting DEF Compaction!ChangeFacts, Compaction!Quiet, CompactionInv, MaintenanceTyped, Compaction!TypeOK,
      MaintenanceBounds, Compaction!shape, Compaction!journal
  <2>7. /\ queued' \in BOOLEAN /\ known' \in BOOLEAN /\ referenced' \in BOOLEAN /\ reset' \in BOOLEAN
        /\ rebased' \in BOOLEAN /\ summary' \in BOOLEAN
    BY DEF Compaction!ChangeFacts, Compaction!Quiet, CompactionInv, MaintenanceTyped, Compaction!TypeOK,
      Compaction!shape, Compaction!journal
  <2> QED
    BY <2>1, <2>2, <2>3, <2>4, <2>5, <2>6, <2>7 DEF MaintenanceTyped, Compaction!TypeOK, Transactions
<1>2. TransactionInv'
  BY Digesting DEF Compaction!ChangeFacts, Compaction!Quiet, CompactionInv, MaintenanceTyped, TransactionInv, StageInv,
    Transactions, Runs, Compaction!Bodies, Compaction!NoTransaction, Compaction!NoRun, Compaction!Pending,
    Compaction!shape, Compaction!journal
<1>3. StageInv'
  BY Digesting DEF Compaction!ChangeFacts, Compaction!Quiet, CompactionInv, MaintenanceTyped, Compaction!TypeOK,
    TransactionInv, StageInv, Transactions, Runs, Working, Compaction!NoTransaction, Compaction!NoRun,
    Compaction!Pending, Compaction!Digest, Compaction!shape, Compaction!journal
<1>4. Compaction!JournalAcceptsEvents' /\ AskedOnce
  BY Digesting DEF Compaction!ChangeFacts, Compaction!Quiet, CompactionInv, MaintenanceTyped, TransactionInv, StageInv,
    Transactions, Runs, Working, Compaction!NoTransaction, Compaction!NoRun, Compaction!Pending, Compaction!Digest,
    Compaction!JournalAcceptsEvents, AskedOnce, Compaction!shape, Compaction!journal
<1> QED
  BY <1>1, <1>2, <1>3, <1>4 DEF CompactionInv

LEMMA ExchangeStep ==
  ASSUME MaintenanceBounds, CompactionInv, Compaction!Exchange
  PROVE  CompactionInv' /\ AskedOnce
<1>1. MaintenanceTyped'
  <2>1. tx' \in Transactions
    BY Digesting DEF Compaction!Exchange, Compaction!Quiet, Transactions, Compaction!Bodies, Compaction!shape,
      Compaction!journal
  <2>2. run' \in Runs
    BY Digesting DEF Compaction!Exchange, Compaction!Quiet, Runs, Compaction!shape, Compaction!journal, StageInv,
      CompactionInv, MaintenanceTyped, Working
  <2>3. stage' \in Compaction!Steps
    BY DEF Compaction!Exchange, Compaction!Quiet, Compaction!Steps, CompactionInv, MaintenanceTyped, Compaction!TypeOK,
      Compaction!shape, Compaction!journal
  <2>4. /\ tx'.start <= tx'.end /\ tx'.end <= history' /\ tx'.answered <= tx'.attempts /\ tx'.attempts <= MaxAttempts
    BY Digesting DEF Compaction!Exchange, Compaction!Quiet, CompactionInv, MaintenanceTyped, Compaction!TypeOK,
      TransactionInv, StageInv, MaintenanceBounds, Compaction!NoTransaction, Transactions, Runs, Compaction!Pending,
      Compaction!shape, Compaction!journal
  <2>5. compacted' \in 0..history'
    BY Digesting DEF Compaction!Exchange, Compaction!Quiet, CompactionInv, MaintenanceTyped, Compaction!TypeOK,
      MaintenanceBounds, Compaction!shape, Compaction!journal
  <2>6. /\ history' \in 0..MaxHistory /\ facts' \in 0..MaxFacts /\ deaths' \in 0..MaxDeaths
        /\ (queued' => history' < MaxHistory)
    BY Digesting DEF Compaction!Exchange, Compaction!Quiet, CompactionInv, MaintenanceTyped, Compaction!TypeOK,
      MaintenanceBounds, Compaction!shape, Compaction!journal
  <2>7. /\ queued' \in BOOLEAN /\ known' \in BOOLEAN /\ referenced' \in BOOLEAN /\ reset' \in BOOLEAN
        /\ rebased' \in BOOLEAN /\ summary' \in BOOLEAN
    BY DEF Compaction!Exchange, Compaction!Quiet, CompactionInv, MaintenanceTyped, Compaction!TypeOK, Compaction!shape,
      Compaction!journal
  <2> QED
    BY <2>1, <2>2, <2>3, <2>4, <2>5, <2>6, <2>7 DEF MaintenanceTyped, Compaction!TypeOK, Transactions
<1>2. TransactionInv'
  BY Digesting DEF Compaction!Exchange, Compaction!Quiet, CompactionInv, MaintenanceTyped, TransactionInv, StageInv,
    Transactions, Runs, Compaction!Bodies, Compaction!NoTransaction, Compaction!NoRun, Compaction!Pending,
    Compaction!shape, Compaction!journal
<1>3. StageInv'
  BY Digesting DEF Compaction!Exchange, Compaction!Quiet, CompactionInv, MaintenanceTyped, Compaction!TypeOK,
    TransactionInv, StageInv, Transactions, Runs, Working, Compaction!NoTransaction, Compaction!NoRun,
    Compaction!Pending, Compaction!Digest, Compaction!shape, Compaction!journal
<1>4. Compaction!JournalAcceptsEvents' /\ AskedOnce
  BY Digesting DEF Compaction!Exchange, Compaction!Quiet, CompactionInv, MaintenanceTyped, TransactionInv, StageInv,
    Transactions, Runs, Working, Compaction!NoTransaction, Compaction!NoRun, Compaction!Pending, Compaction!Digest,
    Compaction!JournalAcceptsEvents, AskedOnce, Compaction!shape, Compaction!journal
<1> QED
  BY <1>1, <1>2, <1>3, <1>4 DEF CompactionInv

LEMMA QueueStep ==
  ASSUME MaintenanceBounds, CompactionInv, Compaction!Queue
  PROVE  CompactionInv' /\ AskedOnce
<1>1. MaintenanceTyped'
  <2>1. tx' \in Transactions
    BY Digesting DEF Compaction!Queue, Compaction!Quiet, Transactions, Compaction!Bodies, Compaction!shape,
      Compaction!journal
  <2>2. run' \in Runs
    BY Digesting DEF Compaction!Queue, Compaction!Quiet, Runs, Compaction!shape, Compaction!journal, StageInv,
      CompactionInv, MaintenanceTyped, Working
  <2>3. stage' \in Compaction!Steps
    BY DEF Compaction!Queue, Compaction!Quiet, Compaction!Steps, CompactionInv, MaintenanceTyped, Compaction!TypeOK,
      Compaction!shape, Compaction!journal
  <2>4. /\ tx'.start <= tx'.end /\ tx'.end <= history' /\ tx'.answered <= tx'.attempts /\ tx'.attempts <= MaxAttempts
    BY Digesting DEF Compaction!Queue, Compaction!Quiet, CompactionInv, MaintenanceTyped, Compaction!TypeOK,
      TransactionInv, StageInv, MaintenanceBounds, Compaction!NoTransaction, Transactions, Runs, Compaction!Pending,
      Compaction!shape, Compaction!journal
  <2>5. compacted' \in 0..history'
    BY Digesting DEF Compaction!Queue, Compaction!Quiet, CompactionInv, MaintenanceTyped, Compaction!TypeOK,
      MaintenanceBounds, Compaction!shape, Compaction!journal
  <2>6. /\ history' \in 0..MaxHistory /\ facts' \in 0..MaxFacts /\ deaths' \in 0..MaxDeaths
        /\ (queued' => history' < MaxHistory)
    BY Digesting DEF Compaction!Queue, Compaction!Quiet, CompactionInv, MaintenanceTyped, Compaction!TypeOK,
      MaintenanceBounds, Compaction!shape, Compaction!journal
  <2>7. /\ queued' \in BOOLEAN /\ known' \in BOOLEAN /\ referenced' \in BOOLEAN /\ reset' \in BOOLEAN
        /\ rebased' \in BOOLEAN /\ summary' \in BOOLEAN
    BY DEF Compaction!Queue, Compaction!Quiet, CompactionInv, MaintenanceTyped, Compaction!TypeOK, Compaction!shape,
      Compaction!journal
  <2> QED
    BY <2>1, <2>2, <2>3, <2>4, <2>5, <2>6, <2>7 DEF MaintenanceTyped, Compaction!TypeOK, Transactions
<1>2. TransactionInv'
  BY Digesting DEF Compaction!Queue, Compaction!Quiet, CompactionInv, MaintenanceTyped, TransactionInv, StageInv,
    Transactions, Runs, Compaction!Bodies, Compaction!NoTransaction, Compaction!NoRun, Compaction!Pending,
    Compaction!shape, Compaction!journal
<1>3. StageInv'
  BY Digesting DEF Compaction!Queue, Compaction!Quiet, CompactionInv, MaintenanceTyped, Compaction!TypeOK,
    TransactionInv, StageInv, Transactions, Runs, Working, Compaction!NoTransaction, Compaction!NoRun,
    Compaction!Pending, Compaction!Digest, Compaction!shape, Compaction!journal
<1>4. Compaction!JournalAcceptsEvents' /\ AskedOnce
  <2>1. stage' # "refused"
    BY DEF Compaction!Queue, Compaction!Quiet
  <2>2. ~(run'.requests > run.requests)
    <3>1. run' \in {run, Compaction!NoRun} /\ run.requests \in Nat /\ Compaction!NoRun.requests = 0
      BY Digesting DEF Compaction!Queue, Compaction!Quiet, Compaction!NoRun, Runs
    <3> QED
      BY <3>1
  <2> QED
    BY <2>1, <2>2 DEF Compaction!JournalAcceptsEvents, AskedOnce
<1> QED
  BY <1>1, <1>2, <1>3, <1>4 DEF CompactionInv

LEMMA BeginStepStep ==
  ASSUME MaintenanceBounds, CompactionInv, Compaction!BeginStep
  PROVE  CompactionInv' /\ AskedOnce
<1>1. MaintenanceTyped'
  <2>1. tx' \in Transactions
    BY Digesting DEF Compaction!BeginStep, Compaction!Goto, Compaction!Quiet, Transactions, Compaction!Bodies,
      Compaction!shape, Compaction!journal
  <2>2. run' \in Runs
    BY Digesting DEF Compaction!BeginStep, Compaction!Goto, Compaction!Quiet, Runs, Compaction!shape,
      Compaction!journal, StageInv, CompactionInv, MaintenanceTyped, Working
  <2>3. stage' \in Compaction!Steps
    BY DEF Compaction!BeginStep, Compaction!Goto, Compaction!Quiet, Compaction!Steps, CompactionInv, MaintenanceTyped,
      Compaction!TypeOK, Compaction!shape, Compaction!journal
  <2>4. /\ tx'.start <= tx'.end /\ tx'.end <= history' /\ tx'.answered <= tx'.attempts /\ tx'.attempts <= MaxAttempts
    BY Digesting DEF Compaction!BeginStep, Compaction!Goto, Compaction!Quiet, CompactionInv, MaintenanceTyped,
      Compaction!TypeOK, TransactionInv, StageInv, MaintenanceBounds, Compaction!NoTransaction, Transactions, Runs,
      Compaction!Pending, Compaction!shape, Compaction!journal
  <2>5. compacted' \in 0..history'
    BY Digesting DEF Compaction!BeginStep, Compaction!Goto, Compaction!Quiet, CompactionInv, MaintenanceTyped,
      Compaction!TypeOK, MaintenanceBounds, Compaction!shape, Compaction!journal
  <2>6. /\ history' \in 0..MaxHistory /\ facts' \in 0..MaxFacts /\ deaths' \in 0..MaxDeaths
        /\ (queued' => history' < MaxHistory)
    BY Digesting DEF Compaction!BeginStep, Compaction!Goto, Compaction!Quiet, CompactionInv, MaintenanceTyped,
      Compaction!TypeOK, MaintenanceBounds, Compaction!shape, Compaction!journal
  <2>7. /\ queued' \in BOOLEAN /\ known' \in BOOLEAN /\ referenced' \in BOOLEAN /\ reset' \in BOOLEAN
        /\ rebased' \in BOOLEAN /\ summary' \in BOOLEAN
    BY DEF Compaction!BeginStep, Compaction!Goto, Compaction!Quiet, CompactionInv, MaintenanceTyped, Compaction!TypeOK,
      Compaction!shape, Compaction!journal
  <2> QED
    BY <2>1, <2>2, <2>3, <2>4, <2>5, <2>6, <2>7 DEF MaintenanceTyped, Compaction!TypeOK, Transactions
<1>2. TransactionInv'
  BY Digesting DEF Compaction!BeginStep, Compaction!Goto, Compaction!Quiet, CompactionInv, MaintenanceTyped,
    TransactionInv, StageInv, Transactions, Runs, Compaction!Bodies, Compaction!NoTransaction, Compaction!NoRun,
    Compaction!Pending, Compaction!shape, Compaction!journal
<1>3. StageInv'
  BY Digesting DEF Compaction!BeginStep, Compaction!Goto, Compaction!Quiet, CompactionInv, MaintenanceTyped,
    Compaction!TypeOK, TransactionInv, StageInv, Transactions, Runs, Working, Compaction!NoTransaction,
    Compaction!NoRun, Compaction!Pending, Compaction!Digest, Compaction!shape, Compaction!journal
<1>4. Compaction!JournalAcceptsEvents' /\ AskedOnce
  BY Digesting DEF Compaction!BeginStep, Compaction!Goto, Compaction!Quiet, CompactionInv, MaintenanceTyped,
    TransactionInv, StageInv, Transactions, Runs, Working, Compaction!NoTransaction, Compaction!NoRun,
    Compaction!Pending, Compaction!Digest, Compaction!JournalAcceptsEvents, AskedOnce, Compaction!shape,
    Compaction!journal
<1> QED
  BY <1>1, <1>2, <1>3, <1>4 DEF CompactionInv

LEMMA MaintainStep ==
  ASSUME MaintenanceBounds, CompactionInv, Compaction!Maintain
  PROVE  CompactionInv' /\ AskedOnce
<1>1. MaintenanceTyped'
  <2>1. tx' \in Transactions
    BY Digesting DEF Compaction!Maintain, Compaction!Goto, Transactions, Compaction!Bodies, Compaction!shape,
      Compaction!journal
  <2>2. run' \in Runs
    BY Digesting DEF Compaction!Maintain, Compaction!Goto, Runs, Compaction!shape, Compaction!journal, StageInv,
      CompactionInv, MaintenanceTyped, Working
  <2>3. stage' \in Compaction!Steps
    BY DEF Compaction!Maintain, Compaction!Goto, Compaction!Steps, CompactionInv, MaintenanceTyped, Compaction!TypeOK,
      Compaction!shape, Compaction!journal
  <2>4. /\ tx'.start <= tx'.end /\ tx'.end <= history' /\ tx'.answered <= tx'.attempts /\ tx'.attempts <= MaxAttempts
    BY Digesting DEF Compaction!Maintain, Compaction!Goto, CompactionInv, MaintenanceTyped, Compaction!TypeOK,
      TransactionInv, StageInv, MaintenanceBounds, Compaction!NoTransaction, Transactions, Runs, Compaction!Pending,
      Compaction!shape, Compaction!journal
  <2>5. compacted' \in 0..history'
    BY Digesting DEF Compaction!Maintain, Compaction!Goto, CompactionInv, MaintenanceTyped, Compaction!TypeOK,
      MaintenanceBounds, Compaction!shape, Compaction!journal
  <2>6. /\ history' \in 0..MaxHistory /\ facts' \in 0..MaxFacts /\ deaths' \in 0..MaxDeaths
        /\ (queued' => history' < MaxHistory)
    BY Digesting DEF Compaction!Maintain, Compaction!Goto, CompactionInv, MaintenanceTyped, Compaction!TypeOK,
      MaintenanceBounds, Compaction!shape, Compaction!journal
  <2>7. /\ queued' \in BOOLEAN /\ known' \in BOOLEAN /\ referenced' \in BOOLEAN /\ reset' \in BOOLEAN
        /\ rebased' \in BOOLEAN /\ summary' \in BOOLEAN
    BY DEF Compaction!Maintain, Compaction!Goto, CompactionInv, MaintenanceTyped, Compaction!TypeOK, Compaction!shape,
      Compaction!journal
  <2> QED
    BY <2>1, <2>2, <2>3, <2>4, <2>5, <2>6, <2>7 DEF MaintenanceTyped, Compaction!TypeOK, Transactions
<1>2. TransactionInv'
  BY Digesting DEF Compaction!Maintain, Compaction!Goto, CompactionInv, MaintenanceTyped, TransactionInv, StageInv,
    Transactions, Runs, Compaction!Bodies, Compaction!NoTransaction, Compaction!NoRun, Compaction!Pending,
    Compaction!shape, Compaction!journal
<1>3. StageInv'
  BY Digesting DEF Compaction!Maintain, Compaction!Goto, CompactionInv, MaintenanceTyped, Compaction!TypeOK,
    TransactionInv, StageInv, Transactions, Runs, Working, Compaction!NoTransaction, Compaction!NoRun,
    Compaction!Pending, Compaction!Digest, Compaction!shape, Compaction!journal
<1>4. Compaction!JournalAcceptsEvents' /\ AskedOnce
  BY Digesting DEF Compaction!Maintain, Compaction!Goto, CompactionInv, MaintenanceTyped, TransactionInv, StageInv,
    Transactions, Runs, Working, Compaction!NoTransaction, Compaction!NoRun, Compaction!Pending, Compaction!Digest,
    Compaction!JournalAcceptsEvents, AskedOnce, Compaction!shape, Compaction!journal
<1> QED
  BY <1>1, <1>2, <1>3, <1>4 DEF CompactionInv

LEMMA CompactStep ==
  ASSUME MaintenanceBounds, CompactionInv, Compaction!Compact
  PROVE  CompactionInv' /\ AskedOnce
<1>1. MaintenanceTyped'
  <2>1. tx' \in Transactions
    BY Digesting DEF Compaction!Compact, Compaction!Superseded, Compaction!Goto, Transactions, Compaction!Bodies,
      Compaction!shape, Compaction!journal
  <2>2. run' \in Runs
    BY Digesting DEF Compaction!Compact, Compaction!Superseded, Compaction!Goto, Runs, Compaction!shape,
      Compaction!journal, StageInv, CompactionInv, MaintenanceTyped, Working
  <2>3. stage' \in Compaction!Steps
    BY DEF Compaction!Compact, Compaction!Superseded, Compaction!Goto, Compaction!Steps, CompactionInv,
      MaintenanceTyped, Compaction!TypeOK, Compaction!shape, Compaction!journal
  <2>4. /\ tx'.start <= tx'.end /\ tx'.end <= history' /\ tx'.answered <= tx'.attempts /\ tx'.attempts <= MaxAttempts
    BY Digesting DEF Compaction!Compact, Compaction!Superseded, Compaction!Goto, CompactionInv, MaintenanceTyped,
      Compaction!TypeOK, TransactionInv, StageInv, MaintenanceBounds, Compaction!NoTransaction, Transactions, Runs,
      Compaction!Pending, Compaction!shape, Compaction!journal
  <2>5. compacted' \in 0..history'
    BY Digesting DEF Compaction!Compact, Compaction!Superseded, Compaction!Goto, CompactionInv, MaintenanceTyped,
      Compaction!TypeOK, MaintenanceBounds, Compaction!shape, Compaction!journal
  <2>6. /\ history' \in 0..MaxHistory /\ facts' \in 0..MaxFacts /\ deaths' \in 0..MaxDeaths
        /\ (queued' => history' < MaxHistory)
    BY Digesting DEF Compaction!Compact, Compaction!Superseded, Compaction!Goto, CompactionInv, MaintenanceTyped,
      Compaction!TypeOK, MaintenanceBounds, Compaction!shape, Compaction!journal
  <2>7. /\ queued' \in BOOLEAN /\ known' \in BOOLEAN /\ referenced' \in BOOLEAN /\ reset' \in BOOLEAN
        /\ rebased' \in BOOLEAN /\ summary' \in BOOLEAN
    BY DEF Compaction!Compact, Compaction!Superseded, Compaction!Goto, CompactionInv, MaintenanceTyped,
      Compaction!TypeOK, Compaction!shape, Compaction!journal
  <2> QED
    BY <2>1, <2>2, <2>3, <2>4, <2>5, <2>6, <2>7 DEF MaintenanceTyped, Compaction!TypeOK, Transactions
<1>2. TransactionInv'
  BY Digesting DEF Compaction!Compact, Compaction!Superseded, Compaction!Goto, CompactionInv, MaintenanceTyped,
    TransactionInv, StageInv, Transactions, Runs, Compaction!Bodies, Compaction!NoTransaction, Compaction!NoRun,
    Compaction!Pending, Compaction!shape, Compaction!journal
<1>3. StageInv'
  BY Digesting DEF Compaction!Compact, Compaction!Superseded, Compaction!Goto, CompactionInv, MaintenanceTyped,
    Compaction!TypeOK, TransactionInv, StageInv, Transactions, Runs, Working, Compaction!NoTransaction,
    Compaction!NoRun, Compaction!Pending, Compaction!Digest, Compaction!shape, Compaction!journal
<1>4. Compaction!JournalAcceptsEvents' /\ AskedOnce
  BY Digesting DEF Compaction!Compact, Compaction!Superseded, Compaction!Goto, CompactionInv, MaintenanceTyped,
    TransactionInv, StageInv, Transactions, Runs, Working, Compaction!NoTransaction, Compaction!NoRun,
    Compaction!Pending, Compaction!Digest, Compaction!JournalAcceptsEvents, AskedOnce, Compaction!shape,
    Compaction!journal
<1> QED
  BY <1>1, <1>2, <1>3, <1>4 DEF CompactionInv

LEMMA EndTurnStep ==
  ASSUME MaintenanceBounds, CompactionInv, Compaction!EndTurn
  PROVE  CompactionInv' /\ AskedOnce
<1>1. MaintenanceTyped'
  <2>1. tx' \in Transactions
    BY Digesting DEF Compaction!EndTurn, Compaction!Goto, Transactions, Compaction!Bodies, Compaction!shape,
      Compaction!journal
  <2>2. run' \in Runs
    BY Digesting DEF Compaction!EndTurn, Compaction!Goto, Runs, Compaction!shape, Compaction!journal, StageInv,
      CompactionInv, MaintenanceTyped, Working
  <2>3. stage' \in Compaction!Steps
    BY DEF Compaction!EndTurn, Compaction!Goto, Compaction!Steps, CompactionInv, MaintenanceTyped, Compaction!TypeOK,
      Compaction!shape, Compaction!journal
  <2>4. /\ tx'.start <= tx'.end /\ tx'.end <= history' /\ tx'.answered <= tx'.attempts /\ tx'.attempts <= MaxAttempts
    BY Digesting DEF Compaction!EndTurn, Compaction!Goto, CompactionInv, MaintenanceTyped, Compaction!TypeOK,
      TransactionInv, StageInv, MaintenanceBounds, Compaction!NoTransaction, Transactions, Runs, Compaction!Pending,
      Compaction!shape, Compaction!journal
  <2>5. compacted' \in 0..history'
    BY Digesting DEF Compaction!EndTurn, Compaction!Goto, CompactionInv, MaintenanceTyped, Compaction!TypeOK,
      MaintenanceBounds, Compaction!shape, Compaction!journal
  <2>6. /\ history' \in 0..MaxHistory /\ facts' \in 0..MaxFacts /\ deaths' \in 0..MaxDeaths
        /\ (queued' => history' < MaxHistory)
    BY Digesting DEF Compaction!EndTurn, Compaction!Goto, CompactionInv, MaintenanceTyped, Compaction!TypeOK,
      MaintenanceBounds, Compaction!shape, Compaction!journal
  <2>7. /\ queued' \in BOOLEAN /\ known' \in BOOLEAN /\ referenced' \in BOOLEAN /\ reset' \in BOOLEAN
        /\ rebased' \in BOOLEAN /\ summary' \in BOOLEAN
    BY DEF Compaction!EndTurn, Compaction!Goto, CompactionInv, MaintenanceTyped, Compaction!TypeOK, Compaction!shape,
      Compaction!journal
  <2> QED
    BY <2>1, <2>2, <2>3, <2>4, <2>5, <2>6, <2>7 DEF MaintenanceTyped, Compaction!TypeOK, Transactions
<1>2. TransactionInv'
  BY Digesting DEF Compaction!EndTurn, Compaction!Goto, CompactionInv, MaintenanceTyped, TransactionInv, StageInv,
    Transactions, Runs, Compaction!Bodies, Compaction!NoTransaction, Compaction!NoRun, Compaction!Pending,
    Compaction!shape, Compaction!journal
<1>3. StageInv'
  BY Digesting DEF Compaction!EndTurn, Compaction!Goto, CompactionInv, MaintenanceTyped, Compaction!TypeOK,
    TransactionInv, StageInv, Transactions, Runs, Working, Compaction!NoTransaction, Compaction!NoRun,
    Compaction!Pending, Compaction!Digest, Compaction!shape, Compaction!journal
<1>4. Compaction!JournalAcceptsEvents' /\ AskedOnce
  BY Digesting DEF Compaction!EndTurn, Compaction!Goto, CompactionInv, MaintenanceTyped, TransactionInv, StageInv,
    Transactions, Runs, Working, Compaction!NoTransaction, Compaction!NoRun, Compaction!Pending, Compaction!Digest,
    Compaction!JournalAcceptsEvents, AskedOnce, Compaction!shape, Compaction!journal
<1> QED
  BY <1>1, <1>2, <1>3, <1>4 DEF CompactionInv

LEMMA DropManualStep ==
  ASSUME MaintenanceBounds, CompactionInv, Compaction!DropManual
  PROVE  CompactionInv' /\ AskedOnce
<1>1. MaintenanceTyped'
  <2>1. tx' \in Transactions
    BY Digesting DEF Compaction!DropManual, Compaction!Pending, Compaction!Emit, Compaction!Goto,
      Compaction!Superseded, Transactions, Compaction!Bodies, Compaction!shape, Compaction!journal
  <2>2. run' \in Runs
    BY Digesting DEF Compaction!DropManual, Compaction!Pending, Compaction!Emit, Compaction!Goto,
      Compaction!Superseded, Runs, Compaction!shape, Compaction!journal, StageInv, CompactionInv, MaintenanceTyped,
      Working
  <2>3. stage' \in Compaction!Steps
    BY DEF Compaction!DropManual, Compaction!Pending, Compaction!Emit, Compaction!Goto, Compaction!Superseded,
      Compaction!Steps, CompactionInv, MaintenanceTyped, Compaction!TypeOK, Compaction!shape, Compaction!journal
  <2>4. /\ tx'.start <= tx'.end /\ tx'.end <= history' /\ tx'.answered <= tx'.attempts /\ tx'.attempts <= MaxAttempts
    BY Digesting DEF Compaction!DropManual, Compaction!Pending, Compaction!Emit, Compaction!Goto,
      Compaction!Superseded, CompactionInv, MaintenanceTyped, Compaction!TypeOK, TransactionInv, StageInv,
      MaintenanceBounds, Compaction!NoTransaction, Transactions, Runs, Compaction!Pending, Compaction!shape,
      Compaction!journal
  <2>5. compacted' \in 0..history'
    BY Digesting DEF Compaction!DropManual, Compaction!Pending, Compaction!Emit, Compaction!Goto,
      Compaction!Superseded, CompactionInv, MaintenanceTyped, Compaction!TypeOK, MaintenanceBounds, Compaction!shape,
      Compaction!journal
  <2>6. /\ history' \in 0..MaxHistory /\ facts' \in 0..MaxFacts /\ deaths' \in 0..MaxDeaths
        /\ (queued' => history' < MaxHistory)
    BY Digesting DEF Compaction!DropManual, Compaction!Pending, Compaction!Emit, Compaction!Goto,
      Compaction!Superseded, CompactionInv, MaintenanceTyped, Compaction!TypeOK, MaintenanceBounds, Compaction!shape,
      Compaction!journal
  <2>7. /\ queued' \in BOOLEAN /\ known' \in BOOLEAN /\ referenced' \in BOOLEAN /\ reset' \in BOOLEAN
        /\ rebased' \in BOOLEAN /\ summary' \in BOOLEAN
    BY DEF Compaction!DropManual, Compaction!Pending, Compaction!Emit, Compaction!Goto, Compaction!Superseded,
      CompactionInv, MaintenanceTyped, Compaction!TypeOK, Compaction!shape, Compaction!journal
  <2> QED
    BY <2>1, <2>2, <2>3, <2>4, <2>5, <2>6, <2>7 DEF MaintenanceTyped, Compaction!TypeOK, Transactions
<1>2. TransactionInv'
  BY Digesting DEF Compaction!DropManual, Compaction!Pending, Compaction!Emit, Compaction!Goto, Compaction!Superseded,
    CompactionInv, MaintenanceTyped, TransactionInv, StageInv, Transactions, Runs, Compaction!Bodies,
    Compaction!NoTransaction, Compaction!NoRun, Compaction!Pending, Compaction!shape, Compaction!journal
<1>3. StageInv'
  BY Digesting DEF Compaction!DropManual, Compaction!Pending, Compaction!Emit, Compaction!Goto, Compaction!Superseded,
    CompactionInv, MaintenanceTyped, Compaction!TypeOK, TransactionInv, StageInv, Transactions, Runs, Working,
    Compaction!NoTransaction, Compaction!NoRun, Compaction!Pending, Compaction!Digest, Compaction!shape,
    Compaction!journal
<1>4. Compaction!JournalAcceptsEvents' /\ AskedOnce
  BY Digesting DEF Compaction!DropManual, Compaction!Pending, Compaction!Emit, Compaction!Goto, Compaction!Superseded,
    CompactionInv, MaintenanceTyped, TransactionInv, StageInv, Transactions, Runs, Working, Compaction!NoTransaction,
    Compaction!NoRun, Compaction!Pending, Compaction!Digest, Compaction!JournalAcceptsEvents, AskedOnce,
    Compaction!shape, Compaction!journal
<1> QED
  BY <1>1, <1>2, <1>3, <1>4 DEF CompactionInv

LEMMA SkipUnchangedStep ==
  ASSUME MaintenanceBounds, CompactionInv, Compaction!SkipUnchanged
  PROVE  CompactionInv' /\ AskedOnce
<1>1. MaintenanceTyped'
  <2>1. tx' \in Transactions
    BY Digesting DEF Compaction!SkipUnchanged, Compaction!Pending, Compaction!Unchanged, Compaction!Settle,
      Compaction!LetThrough, Compaction!Goto, Transactions, Compaction!Bodies, Compaction!shape, Compaction!journal
  <2>2. run' \in Runs
    BY Digesting DEF Compaction!SkipUnchanged, Compaction!Pending, Compaction!Unchanged, Compaction!Settle,
      Compaction!LetThrough, Compaction!Goto, Runs, Compaction!shape, Compaction!journal, StageInv, CompactionInv,
      MaintenanceTyped, Working
  <2>3. stage' \in Compaction!Steps
    BY DEF Compaction!SkipUnchanged, Compaction!Pending, Compaction!Unchanged, Compaction!Settle,
      Compaction!LetThrough, Compaction!Goto, Compaction!Steps, CompactionInv, MaintenanceTyped, Compaction!TypeOK,
      Compaction!shape, Compaction!journal
  <2>4. /\ tx'.start <= tx'.end /\ tx'.end <= history' /\ tx'.answered <= tx'.attempts /\ tx'.attempts <= MaxAttempts
    BY Digesting DEF Compaction!SkipUnchanged, Compaction!Pending, Compaction!Unchanged, Compaction!Settle,
      Compaction!LetThrough, Compaction!Goto, CompactionInv, MaintenanceTyped, Compaction!TypeOK, TransactionInv,
      StageInv, MaintenanceBounds, Compaction!NoTransaction, Transactions, Runs, Compaction!Pending, Compaction!shape,
      Compaction!journal
  <2>5. compacted' \in 0..history'
    BY Digesting DEF Compaction!SkipUnchanged, Compaction!Pending, Compaction!Unchanged, Compaction!Settle,
      Compaction!LetThrough, Compaction!Goto, CompactionInv, MaintenanceTyped, Compaction!TypeOK, MaintenanceBounds,
      Compaction!shape, Compaction!journal
  <2>6. /\ history' \in 0..MaxHistory /\ facts' \in 0..MaxFacts /\ deaths' \in 0..MaxDeaths
        /\ (queued' => history' < MaxHistory)
    BY Digesting DEF Compaction!SkipUnchanged, Compaction!Pending, Compaction!Unchanged, Compaction!Settle,
      Compaction!LetThrough, Compaction!Goto, CompactionInv, MaintenanceTyped, Compaction!TypeOK, MaintenanceBounds,
      Compaction!shape, Compaction!journal
  <2>7. /\ queued' \in BOOLEAN /\ known' \in BOOLEAN /\ referenced' \in BOOLEAN /\ reset' \in BOOLEAN
        /\ rebased' \in BOOLEAN /\ summary' \in BOOLEAN
    BY DEF Compaction!SkipUnchanged, Compaction!Pending, Compaction!Unchanged, Compaction!Settle,
      Compaction!LetThrough, Compaction!Goto, CompactionInv, MaintenanceTyped, Compaction!TypeOK, Compaction!shape,
      Compaction!journal
  <2> QED
    BY <2>1, <2>2, <2>3, <2>4, <2>5, <2>6, <2>7 DEF MaintenanceTyped, Compaction!TypeOK, Transactions
<1>2. TransactionInv'
  BY Digesting DEF Compaction!SkipUnchanged, Compaction!Pending, Compaction!Unchanged, Compaction!Settle,
    Compaction!LetThrough, Compaction!Goto, CompactionInv, MaintenanceTyped, TransactionInv, StageInv, Transactions,
    Runs, Compaction!Bodies, Compaction!NoTransaction, Compaction!NoRun, Compaction!Pending, Compaction!shape,
    Compaction!journal
<1>3. StageInv'
  BY Digesting DEF Compaction!SkipUnchanged, Compaction!Pending, Compaction!Unchanged, Compaction!Settle,
    Compaction!LetThrough, Compaction!Goto, CompactionInv, MaintenanceTyped, Compaction!TypeOK, TransactionInv,
    StageInv, Transactions, Runs, Working, Compaction!NoTransaction, Compaction!NoRun, Compaction!Pending,
    Compaction!Digest, Compaction!shape, Compaction!journal
<1>4. Compaction!JournalAcceptsEvents' /\ AskedOnce
  <2>1. stage' # "refused"
    BY DEF Compaction!SkipUnchanged, Compaction!Pending, Compaction!Unchanged, Compaction!Settle,
      Compaction!LetThrough, Compaction!Goto
  <2>2. ~(run'.requests > run.requests)
    <3>1. run' \in {run, Compaction!NoRun} /\ run.requests \in Nat /\ Compaction!NoRun.requests = 0
      BY Digesting DEF Compaction!SkipUnchanged, Compaction!Pending, Compaction!Unchanged, Compaction!Settle,
        Compaction!LetThrough, Compaction!Goto, Compaction!NoRun, Runs
    <3> QED
      BY <3>1
  <2> QED
    BY <2>1, <2>2 DEF Compaction!JournalAcceptsEvents, AskedOnce
<1> QED
  BY <1>1, <1>2, <1>3, <1>4 DEF CompactionInv

LEMMA ReferenceStep ==
  ASSUME MaintenanceBounds, CompactionInv, Compaction!Reference
  PROVE  CompactionInv' /\ AskedOnce
<1>1. MaintenanceTyped'
  <2>1. tx' \in Transactions
    BY Digesting DEF Compaction!Reference, Compaction!Pending, Compaction!Unchanged, Compaction!Evictable,
      Compaction!Goto, Transactions, Compaction!Bodies, Compaction!shape, Compaction!journal
  <2>2. run' \in Runs
    BY Digesting DEF Compaction!Reference, Compaction!Pending, Compaction!Unchanged, Compaction!Evictable,
      Compaction!Goto, Runs, Compaction!shape, Compaction!journal, StageInv, CompactionInv, MaintenanceTyped, Working
  <2>3. stage' \in Compaction!Steps
    BY DEF Compaction!Reference, Compaction!Pending, Compaction!Unchanged, Compaction!Evictable, Compaction!Goto,
      Compaction!Steps, CompactionInv, MaintenanceTyped, Compaction!TypeOK, Compaction!shape, Compaction!journal
  <2>4. /\ tx'.start <= tx'.end /\ tx'.end <= history' /\ tx'.answered <= tx'.attempts /\ tx'.attempts <= MaxAttempts
    BY Digesting DEF Compaction!Reference, Compaction!Pending, Compaction!Unchanged, Compaction!Evictable,
      Compaction!Goto, CompactionInv, MaintenanceTyped, Compaction!TypeOK, TransactionInv, StageInv, MaintenanceBounds,
      Compaction!NoTransaction, Transactions, Runs, Compaction!Pending, Compaction!shape, Compaction!journal
  <2>5. compacted' \in 0..history'
    BY Digesting DEF Compaction!Reference, Compaction!Pending, Compaction!Unchanged, Compaction!Evictable,
      Compaction!Goto, CompactionInv, MaintenanceTyped, Compaction!TypeOK, MaintenanceBounds, Compaction!shape,
      Compaction!journal
  <2>6. /\ history' \in 0..MaxHistory /\ facts' \in 0..MaxFacts /\ deaths' \in 0..MaxDeaths
        /\ (queued' => history' < MaxHistory)
    BY Digesting DEF Compaction!Reference, Compaction!Pending, Compaction!Unchanged, Compaction!Evictable,
      Compaction!Goto, CompactionInv, MaintenanceTyped, Compaction!TypeOK, MaintenanceBounds, Compaction!shape,
      Compaction!journal
  <2>7. /\ queued' \in BOOLEAN /\ known' \in BOOLEAN /\ referenced' \in BOOLEAN /\ reset' \in BOOLEAN
        /\ rebased' \in BOOLEAN /\ summary' \in BOOLEAN
    BY DEF Compaction!Reference, Compaction!Pending, Compaction!Unchanged, Compaction!Evictable, Compaction!Goto,
      CompactionInv, MaintenanceTyped, Compaction!TypeOK, Compaction!shape, Compaction!journal
  <2> QED
    BY <2>1, <2>2, <2>3, <2>4, <2>5, <2>6, <2>7 DEF MaintenanceTyped, Compaction!TypeOK, Transactions
<1>2. TransactionInv'
  BY Digesting DEF Compaction!Reference, Compaction!Pending, Compaction!Unchanged, Compaction!Evictable,
    Compaction!Goto, CompactionInv, MaintenanceTyped, TransactionInv, StageInv, Transactions, Runs, Compaction!Bodies,
    Compaction!NoTransaction, Compaction!NoRun, Compaction!Pending, Compaction!shape, Compaction!journal
<1>3. StageInv'
  BY Digesting DEF Compaction!Reference, Compaction!Pending, Compaction!Unchanged, Compaction!Evictable,
    Compaction!Goto, CompactionInv, MaintenanceTyped, Compaction!TypeOK, TransactionInv, StageInv, Transactions, Runs,
    Working, Compaction!NoTransaction, Compaction!NoRun, Compaction!Pending, Compaction!Digest, Compaction!shape,
    Compaction!journal
<1>4. Compaction!JournalAcceptsEvents' /\ AskedOnce
  BY Digesting DEF Compaction!Reference, Compaction!Pending, Compaction!Unchanged, Compaction!Evictable,
    Compaction!Goto, CompactionInv, MaintenanceTyped, TransactionInv, StageInv, Transactions, Runs, Working,
    Compaction!NoTransaction, Compaction!NoRun, Compaction!Pending, Compaction!Digest, Compaction!JournalAcceptsEvents,
    AskedOnce, Compaction!shape, Compaction!journal
<1> QED
  BY <1>1, <1>2, <1>3, <1>4 DEF CompactionInv

LEMMA ReferenceNothingStep ==
  ASSUME MaintenanceBounds, CompactionInv, Compaction!ReferenceNothing
  PROVE  CompactionInv' /\ AskedOnce
<1>1. MaintenanceTyped'
  <2>1. tx' \in Transactions
    BY Digesting DEF Compaction!ReferenceNothing, Compaction!Pending, Compaction!Unchanged, Compaction!Goto,
      Transactions, Compaction!Bodies, Compaction!shape, Compaction!journal
  <2>2. run' \in Runs
    BY Digesting DEF Compaction!ReferenceNothing, Compaction!Pending, Compaction!Unchanged, Compaction!Goto, Runs,
      Compaction!shape, Compaction!journal, StageInv, CompactionInv, MaintenanceTyped, Working
  <2>3. stage' \in Compaction!Steps
    BY DEF Compaction!ReferenceNothing, Compaction!Pending, Compaction!Unchanged, Compaction!Goto, Compaction!Steps,
      CompactionInv, MaintenanceTyped, Compaction!TypeOK, Compaction!shape, Compaction!journal
  <2>4. /\ tx'.start <= tx'.end /\ tx'.end <= history' /\ tx'.answered <= tx'.attempts /\ tx'.attempts <= MaxAttempts
    BY Digesting DEF Compaction!ReferenceNothing, Compaction!Pending, Compaction!Unchanged, Compaction!Goto,
      CompactionInv, MaintenanceTyped, Compaction!TypeOK, TransactionInv, StageInv, MaintenanceBounds,
      Compaction!NoTransaction, Transactions, Runs, Compaction!Pending, Compaction!shape, Compaction!journal
  <2>5. compacted' \in 0..history'
    BY Digesting DEF Compaction!ReferenceNothing, Compaction!Pending, Compaction!Unchanged, Compaction!Goto,
      CompactionInv, MaintenanceTyped, Compaction!TypeOK, MaintenanceBounds, Compaction!shape, Compaction!journal
  <2>6. /\ history' \in 0..MaxHistory /\ facts' \in 0..MaxFacts /\ deaths' \in 0..MaxDeaths
        /\ (queued' => history' < MaxHistory)
    BY Digesting DEF Compaction!ReferenceNothing, Compaction!Pending, Compaction!Unchanged, Compaction!Goto,
      CompactionInv, MaintenanceTyped, Compaction!TypeOK, MaintenanceBounds, Compaction!shape, Compaction!journal
  <2>7. /\ queued' \in BOOLEAN /\ known' \in BOOLEAN /\ referenced' \in BOOLEAN /\ reset' \in BOOLEAN
        /\ rebased' \in BOOLEAN /\ summary' \in BOOLEAN
    BY DEF Compaction!ReferenceNothing, Compaction!Pending, Compaction!Unchanged, Compaction!Goto, CompactionInv,
      MaintenanceTyped, Compaction!TypeOK, Compaction!shape, Compaction!journal
  <2> QED
    BY <2>1, <2>2, <2>3, <2>4, <2>5, <2>6, <2>7 DEF MaintenanceTyped, Compaction!TypeOK, Transactions
<1>2. TransactionInv'
  BY Digesting DEF Compaction!ReferenceNothing, Compaction!Pending, Compaction!Unchanged, Compaction!Goto,
    CompactionInv, MaintenanceTyped, TransactionInv, StageInv, Transactions, Runs, Compaction!Bodies,
    Compaction!NoTransaction, Compaction!NoRun, Compaction!Pending, Compaction!shape, Compaction!journal
<1>3. StageInv'
  BY Digesting DEF Compaction!ReferenceNothing, Compaction!Pending, Compaction!Unchanged, Compaction!Goto,
    CompactionInv, MaintenanceTyped, Compaction!TypeOK, TransactionInv, StageInv, Transactions, Runs, Working,
    Compaction!NoTransaction, Compaction!NoRun, Compaction!Pending, Compaction!Digest, Compaction!shape,
    Compaction!journal
<1>4. Compaction!JournalAcceptsEvents' /\ AskedOnce
  BY Digesting DEF Compaction!ReferenceNothing, Compaction!Pending, Compaction!Unchanged, Compaction!Goto,
    CompactionInv, MaintenanceTyped, TransactionInv, StageInv, Transactions, Runs, Working, Compaction!NoTransaction,
    Compaction!NoRun, Compaction!Pending, Compaction!Digest, Compaction!JournalAcceptsEvents, AskedOnce,
    Compaction!shape, Compaction!journal
<1> QED
  BY <1>1, <1>2, <1>3, <1>4 DEF CompactionInv

LEMMA GateStep ==
  ASSUME MaintenanceBounds, CompactionInv, Compaction!Gate
  PROVE  CompactionInv' /\ AskedOnce
<1>1. MaintenanceTyped'
  <2>1. tx' \in Transactions
    BY Digesting DEF Compaction!Gate, Compaction!Pending, Compaction!Goto, Compaction!Settle, Compaction!LetThrough,
      Transactions, Compaction!Bodies, Compaction!shape, Compaction!journal
  <2>2. run' \in Runs
    BY Digesting DEF Compaction!Gate, Compaction!Pending, Compaction!Goto, Compaction!Settle, Compaction!LetThrough,
      Runs, Compaction!shape, Compaction!journal, StageInv, CompactionInv, MaintenanceTyped, Working
  <2>3. stage' \in Compaction!Steps
    BY DEF Compaction!Gate, Compaction!Pending, Compaction!Goto, Compaction!Settle, Compaction!LetThrough,
      Compaction!Steps, CompactionInv, MaintenanceTyped, Compaction!TypeOK, Compaction!shape, Compaction!journal
  <2>4. /\ tx'.start <= tx'.end /\ tx'.end <= history' /\ tx'.answered <= tx'.attempts /\ tx'.attempts <= MaxAttempts
    BY Digesting DEF Compaction!Gate, Compaction!Pending, Compaction!Goto, Compaction!Settle, Compaction!LetThrough,
      CompactionInv, MaintenanceTyped, Compaction!TypeOK, TransactionInv, StageInv, MaintenanceBounds,
      Compaction!NoTransaction, Transactions, Runs, Compaction!Pending, Compaction!shape, Compaction!journal
  <2>5. compacted' \in 0..history'
    BY Digesting DEF Compaction!Gate, Compaction!Pending, Compaction!Goto, Compaction!Settle, Compaction!LetThrough,
      CompactionInv, MaintenanceTyped, Compaction!TypeOK, MaintenanceBounds, Compaction!shape, Compaction!journal
  <2>6. /\ history' \in 0..MaxHistory /\ facts' \in 0..MaxFacts /\ deaths' \in 0..MaxDeaths
        /\ (queued' => history' < MaxHistory)
    BY Digesting DEF Compaction!Gate, Compaction!Pending, Compaction!Goto, Compaction!Settle, Compaction!LetThrough,
      CompactionInv, MaintenanceTyped, Compaction!TypeOK, MaintenanceBounds, Compaction!shape, Compaction!journal
  <2>7. /\ queued' \in BOOLEAN /\ known' \in BOOLEAN /\ referenced' \in BOOLEAN /\ reset' \in BOOLEAN
        /\ rebased' \in BOOLEAN /\ summary' \in BOOLEAN
    BY DEF Compaction!Gate, Compaction!Pending, Compaction!Goto, Compaction!Settle, Compaction!LetThrough,
      CompactionInv, MaintenanceTyped, Compaction!TypeOK, Compaction!shape, Compaction!journal
  <2> QED
    BY <2>1, <2>2, <2>3, <2>4, <2>5, <2>6, <2>7 DEF MaintenanceTyped, Compaction!TypeOK, Transactions
<1>2. TransactionInv'
  BY Digesting DEF Compaction!Gate, Compaction!Pending, Compaction!Goto, Compaction!Settle, Compaction!LetThrough,
    CompactionInv, MaintenanceTyped, TransactionInv, StageInv, Transactions, Runs, Compaction!Bodies,
    Compaction!NoTransaction, Compaction!NoRun, Compaction!Pending, Compaction!shape, Compaction!journal
<1>3. StageInv'
  BY Digesting DEF Compaction!Gate, Compaction!Pending, Compaction!Goto, Compaction!Settle, Compaction!LetThrough,
    CompactionInv, MaintenanceTyped, Compaction!TypeOK, TransactionInv, StageInv, Transactions, Runs, Working,
    Compaction!NoTransaction, Compaction!NoRun, Compaction!Pending, Compaction!Digest, Compaction!shape,
    Compaction!journal
<1>4. Compaction!JournalAcceptsEvents' /\ AskedOnce
  <2>1. stage' # "refused"
    BY DEF Compaction!Gate, Compaction!Pending, Compaction!Goto, Compaction!Settle, Compaction!LetThrough
  <2>2. ~(run'.requests > run.requests)
    <3>1. run' \in {run, Compaction!NoRun} /\ run.requests \in Nat /\ Compaction!NoRun.requests = 0
      BY Digesting DEF Compaction!Gate, Compaction!Pending, Compaction!Goto, Compaction!Settle, Compaction!LetThrough,
        Compaction!NoRun, Runs
    <3> QED
      BY <3>1
  <2> QED
    BY <2>1, <2>2 DEF Compaction!JournalAcceptsEvents, AskedOnce
<1> QED
  BY <1>1, <1>2, <1>3, <1>4 DEF CompactionInv

LEMMA SelectBoundaryStep ==
  ASSUME MaintenanceBounds, CompactionInv, Compaction!SelectBoundary
  PROVE  CompactionInv' /\ AskedOnce
<1>1. MaintenanceTyped'
  <2>1. tx' \in Transactions
    BY Digesting DEF Compaction!SelectBoundary, Compaction!Boundaries, Compaction!Pending, Compaction!Goto,
      Transactions, Compaction!Bodies, Compaction!shape, Compaction!journal
  <2>2. run' \in Runs
    <3>1. \A e \in Compaction!Boundaries : e \in Nat
      BY Digesting DEF Compaction!Boundaries, Transactions
    <3> QED
      BY <3>1, Digesting DEF Compaction!SelectBoundary, Runs
  <2>3. stage' \in Compaction!Steps
    BY DEF Compaction!SelectBoundary, Compaction!Boundaries, Compaction!Pending, Compaction!Goto, Compaction!Steps,
      CompactionInv, MaintenanceTyped, Compaction!TypeOK, Compaction!shape, Compaction!journal
  <2>4. /\ tx'.start <= tx'.end /\ tx'.end <= history' /\ tx'.answered <= tx'.attempts /\ tx'.attempts <= MaxAttempts
    BY Digesting DEF Compaction!SelectBoundary, Compaction!Boundaries, Compaction!Pending, Compaction!Goto,
      CompactionInv, MaintenanceTyped, Compaction!TypeOK, TransactionInv, StageInv, MaintenanceBounds,
      Compaction!NoTransaction, Transactions, Runs, Compaction!Pending, Compaction!shape, Compaction!journal
  <2>5. compacted' \in 0..history'
    BY Digesting DEF Compaction!SelectBoundary, Compaction!Boundaries, Compaction!Pending, Compaction!Goto,
      CompactionInv, MaintenanceTyped, Compaction!TypeOK, MaintenanceBounds, Compaction!shape, Compaction!journal
  <2>6. /\ history' \in 0..MaxHistory /\ facts' \in 0..MaxFacts /\ deaths' \in 0..MaxDeaths
        /\ (queued' => history' < MaxHistory)
    BY Digesting DEF Compaction!SelectBoundary, Compaction!Boundaries, Compaction!Pending, Compaction!Goto,
      CompactionInv, MaintenanceTyped, Compaction!TypeOK, MaintenanceBounds, Compaction!shape, Compaction!journal
  <2>7. /\ queued' \in BOOLEAN /\ known' \in BOOLEAN /\ referenced' \in BOOLEAN /\ reset' \in BOOLEAN
        /\ rebased' \in BOOLEAN /\ summary' \in BOOLEAN
    BY DEF Compaction!SelectBoundary, Compaction!Boundaries, Compaction!Pending, Compaction!Goto, CompactionInv,
      MaintenanceTyped, Compaction!TypeOK, Compaction!shape, Compaction!journal
  <2> QED
    BY <2>1, <2>2, <2>3, <2>4, <2>5, <2>6, <2>7 DEF MaintenanceTyped, Compaction!TypeOK, Transactions
<1>2. TransactionInv'
  BY Digesting DEF Compaction!SelectBoundary, Compaction!Boundaries, Compaction!Pending, Compaction!Goto,
    CompactionInv, MaintenanceTyped, TransactionInv, StageInv, Transactions, Runs, Compaction!Bodies,
    Compaction!NoTransaction, Compaction!NoRun, Compaction!Pending, Compaction!shape, Compaction!journal
<1>3. StageInv'
  BY Digesting DEF Compaction!SelectBoundary, Compaction!Boundaries, Compaction!Pending, Compaction!Goto,
    CompactionInv, MaintenanceTyped, Compaction!TypeOK, TransactionInv, StageInv, Transactions, Runs, Working,
    Compaction!NoTransaction, Compaction!NoRun, Compaction!Pending, Compaction!Digest, Compaction!shape,
    Compaction!journal
<1>4. Compaction!JournalAcceptsEvents' /\ AskedOnce
  BY Digesting DEF Compaction!SelectBoundary, Compaction!Boundaries, Compaction!Pending, Compaction!Goto,
    CompactionInv, MaintenanceTyped, TransactionInv, StageInv, Transactions, Runs, Working, Compaction!NoTransaction,
    Compaction!NoRun, Compaction!Pending, Compaction!Digest, Compaction!JournalAcceptsEvents, AskedOnce,
    Compaction!shape, Compaction!journal
<1> QED
  BY <1>1, <1>2, <1>3, <1>4 DEF CompactionInv

LEMMA StartStep ==
  ASSUME MaintenanceBounds, CompactionInv, Compaction!Start
  PROVE  CompactionInv' /\ AskedOnce
<1> DEFINE new == [Compaction!NoTransaction EXCEPT !.pending = TRUE, !.manual = run.manual, !.start = compacted,
                                        !.end = run.end, !.snapshot = Compaction!Digest(known)]
<1>0. /\ new \in Transactions /\ new.pending /\ new.start = compacted /\ new.end = run.end /\ new.attempts = 0
      /\ new.answered = 0 /\ new.snapshot = Compaction!Digest(known) /\ ~new.body
      /\ (tx' = new /\ stage' = "open" /\ Compaction!Startable(new))
           \/ (tx' = tx /\ stage' = "refused" /\ ~Compaction!Startable(new))
      /\ UNCHANGED <<Compaction!shape, compacted, checked, run, deaths>> /\ stage = "open" /\ ~Compaction!Pending
  <2>1. new \in Transactions
    <3>1. /\ compacted \in Nat /\ run.end \in Nat /\ run.manual \in BOOLEAN /\ Compaction!Digest(known) \in Digests
          /\ Compaction!NoTransaction \in Transactions
      BY Digesting DEF Runs
    <3> QED
      BY <3>1 DEF Transactions
  <2>2. /\ new.pending /\ new.start = compacted /\ new.end = run.end /\ new.attempts = 0
        /\ new.answered = 0 /\ new.snapshot = Compaction!Digest(known) /\ ~new.body
    BY DEF Compaction!NoTransaction
  <2>3. /\ (tx' = new /\ stage' = "open" /\ Compaction!Startable(new))
             \/ (tx' = tx /\ stage' = "refused" /\ ~Compaction!Startable(new))
        /\ UNCHANGED <<Compaction!shape, compacted, checked, run, deaths>> /\ stage = "open" /\ ~Compaction!Pending
    BY DEF Compaction!Start, Compaction!Emit, Compaction!Goto
  <2> QED
    BY <2>1, <2>2, <2>3
<1> HIDE DEF new
<1>1. MaintenanceTyped'
  <2>1. tx' \in Transactions
    BY <1>0, Digesting
  <2>2. run' \in Runs
    BY Digesting DEF Compaction!Start, Compaction!Pending, Compaction!Emit, Compaction!Goto, Compaction!Startable,
      Runs, Compaction!shape, Compaction!journal, StageInv, CompactionInv, MaintenanceTyped, Working
  <2>3. stage' \in Compaction!Steps
    BY DEF Compaction!Start, Compaction!Pending, Compaction!Emit, Compaction!Goto, Compaction!Startable,
      Compaction!Steps, CompactionInv, MaintenanceTyped, Compaction!TypeOK, Compaction!shape, Compaction!journal
  <2>4. /\ tx'.start <= tx'.end /\ tx'.end <= history' /\ tx'.answered <= tx'.attempts /\ tx'.attempts <= MaxAttempts
    <3>1. CASE tx' = tx
      BY <1>0, <3>1 DEF Compaction!shape, CompactionInv, MaintenanceTyped, Compaction!TypeOK
    <3>2. CASE tx' = new /\ Compaction!Startable(new)
      <4>1. new.start \in Nat /\ new.end \in Nat /\ new.end > new.start /\ new.end <= history
        BY <1>0, <3>2 DEF Compaction!Startable, Transactions
      <4> QED
        BY <1>0, <3>2, <4>1 DEF Compaction!shape, MaintenanceBounds
    <3> QED
      BY <1>0, <3>1, <3>2
  <2>5. compacted' \in 0..history'
    BY Digesting DEF Compaction!Start, Compaction!Pending, Compaction!Emit, Compaction!Goto, Compaction!Startable,
      CompactionInv, MaintenanceTyped, Compaction!TypeOK, MaintenanceBounds, Compaction!shape, Compaction!journal
  <2>6. /\ history' \in 0..MaxHistory /\ facts' \in 0..MaxFacts /\ deaths' \in 0..MaxDeaths
        /\ (queued' => history' < MaxHistory)
    BY Digesting DEF Compaction!Start, Compaction!Pending, Compaction!Emit, Compaction!Goto, Compaction!Startable,
      CompactionInv, MaintenanceTyped, Compaction!TypeOK, MaintenanceBounds, Compaction!shape, Compaction!journal
  <2>7. /\ queued' \in BOOLEAN /\ known' \in BOOLEAN /\ referenced' \in BOOLEAN /\ reset' \in BOOLEAN
        /\ rebased' \in BOOLEAN /\ summary' \in BOOLEAN
    BY DEF Compaction!Start, Compaction!Pending, Compaction!Emit, Compaction!Goto, Compaction!Startable, CompactionInv,
      MaintenanceTyped, Compaction!TypeOK, Compaction!shape, Compaction!journal
  <2> QED
    BY <2>1, <2>2, <2>3, <2>4, <2>5, <2>6, <2>7 DEF MaintenanceTyped, Compaction!TypeOK, Transactions
<1>2. TransactionInv'
  BY <1>0 DEF TransactionInv, CompactionInv, Compaction!Pending
<1>3. StageInv'
  BY <1>0, Digesting DEF StageInv, CompactionInv, Working, Compaction!Pending, Compaction!Startable, Compaction!shape
<1>4. Compaction!JournalAcceptsEvents' /\ AskedOnce
  BY <1>0, Digesting DEF StageInv, CompactionInv, Compaction!Pending, Compaction!Startable, Compaction!shape,
    Compaction!JournalAcceptsEvents, AskedOnce, Runs
<1> QED
  BY <1>1, <1>2, <1>3, <1>4 DEF CompactionInv

LEMMA NoBudgetStep ==
  ASSUME MaintenanceBounds, CompactionInv, Compaction!NoBudget
  PROVE  CompactionInv' /\ AskedOnce
<1>1. MaintenanceTyped'
  <2>1. tx' \in Transactions
    BY Digesting DEF Compaction!NoBudget, Compaction!Pending, Compaction!Goto, Transactions, Compaction!Bodies,
      Compaction!shape, Compaction!journal
  <2>2. run' \in Runs
    BY Digesting DEF Compaction!NoBudget, Compaction!Pending, Compaction!Goto, Runs, Compaction!shape,
      Compaction!journal, StageInv, CompactionInv, MaintenanceTyped, Working
  <2>3. stage' \in Compaction!Steps
    BY DEF Compaction!NoBudget, Compaction!Pending, Compaction!Goto, Compaction!Steps, CompactionInv, MaintenanceTyped,
      Compaction!TypeOK, Compaction!shape, Compaction!journal
  <2>4. /\ tx'.start <= tx'.end /\ tx'.end <= history' /\ tx'.answered <= tx'.attempts /\ tx'.attempts <= MaxAttempts
    BY Digesting DEF Compaction!NoBudget, Compaction!Pending, Compaction!Goto, CompactionInv, MaintenanceTyped,
      Compaction!TypeOK, TransactionInv, StageInv, MaintenanceBounds, Compaction!NoTransaction, Transactions, Runs,
      Compaction!Pending, Compaction!shape, Compaction!journal
  <2>5. compacted' \in 0..history'
    BY Digesting DEF Compaction!NoBudget, Compaction!Pending, Compaction!Goto, CompactionInv, MaintenanceTyped,
      Compaction!TypeOK, MaintenanceBounds, Compaction!shape, Compaction!journal
  <2>6. /\ history' \in 0..MaxHistory /\ facts' \in 0..MaxFacts /\ deaths' \in 0..MaxDeaths
        /\ (queued' => history' < MaxHistory)
    BY Digesting DEF Compaction!NoBudget, Compaction!Pending, Compaction!Goto, CompactionInv, MaintenanceTyped,
      Compaction!TypeOK, MaintenanceBounds, Compaction!shape, Compaction!journal
  <2>7. /\ queued' \in BOOLEAN /\ known' \in BOOLEAN /\ referenced' \in BOOLEAN /\ reset' \in BOOLEAN
        /\ rebased' \in BOOLEAN /\ summary' \in BOOLEAN
    BY DEF Compaction!NoBudget, Compaction!Pending, Compaction!Goto, CompactionInv, MaintenanceTyped,
      Compaction!TypeOK, Compaction!shape, Compaction!journal
  <2> QED
    BY <2>1, <2>2, <2>3, <2>4, <2>5, <2>6, <2>7 DEF MaintenanceTyped, Compaction!TypeOK, Transactions
<1>2. TransactionInv'
  BY Digesting DEF Compaction!NoBudget, Compaction!Pending, Compaction!Goto, CompactionInv, MaintenanceTyped,
    TransactionInv, StageInv, Transactions, Runs, Compaction!Bodies, Compaction!NoTransaction, Compaction!NoRun,
    Compaction!Pending, Compaction!shape, Compaction!journal
<1>3. StageInv'
  BY Digesting DEF Compaction!NoBudget, Compaction!Pending, Compaction!Goto, CompactionInv, MaintenanceTyped,
    Compaction!TypeOK, TransactionInv, StageInv, Transactions, Runs, Working, Compaction!NoTransaction,
    Compaction!NoRun, Compaction!Pending, Compaction!Digest, Compaction!shape, Compaction!journal
<1>4. Compaction!JournalAcceptsEvents' /\ AskedOnce
  BY Digesting DEF Compaction!NoBudget, Compaction!Pending, Compaction!Goto, CompactionInv, MaintenanceTyped,
    TransactionInv, StageInv, Transactions, Runs, Working, Compaction!NoTransaction, Compaction!NoRun,
    Compaction!Pending, Compaction!Digest, Compaction!JournalAcceptsEvents, AskedOnce, Compaction!shape,
    Compaction!journal
<1> QED
  BY <1>1, <1>2, <1>3, <1>4 DEF CompactionInv

LEMMA ResumeStep ==
  ASSUME MaintenanceBounds, CompactionInv, Compaction!Resume
  PROVE  CompactionInv' /\ AskedOnce
<1>0. /\ stage = "open" /\ Compaction!Pending /\ UNCHANGED <<Compaction!shape, compacted, checked, deaths>>
      /\ tx'.pending = tx.pending /\ tx'.start = tx.start /\ tx'.end = tx.end /\ tx'.attempts = tx.attempts
      /\ tx'.answered = tx.answered /\ tx'.candidate = tx.candidate /\ tx'.body = tx.body
      /\ run'.requests = run.requests /\ run'.manual = run.manual
      /\ \/ stage' = "recover" /\ UNCHANGED <<tx, run>>
         \/ stage' = "refused" /\ UNCHANGED tx /\ Compaction!Digest(known) # Compaction!Digest(queued)
         \/ /\ stage' = "collect" /\ tx.start = compacted /\ (run'.stop <=> tx.attempts > tx.answered)
            /\ tx'.snapshot = Compaction!Digest(known) /\ run'.snapshot = Compaction!Digest(known)
  <2>1. CASE (tx.attempts > 0 /\ tx.candidate = "none") \/ tx.start # compacted
    BY <2>1, Digesting DEF Compaction!Resume, Compaction!Goto
  <2>2. CASE ~((tx.attempts > 0 /\ tx.candidate = "none") \/ tx.start # compacted)
    <3>1. run' = [run EXCEPT !.snapshot = Compaction!Digest(known), !.stop = tx.attempts > tx.answered]
      BY <2>2 DEF Compaction!Resume
    <3>2. /\ run'.requests = run.requests /\ run'.manual = run.manual /\ run'.snapshot = Compaction!Digest(known)
          /\ (run'.stop <=> tx.attempts > tx.answered)
      BY <3>1, Digesting DEF Runs
    <3>3. CASE tx.snapshot = Compaction!Digest(known)
      BY <2>2, <3>2, <3>3 DEF Compaction!Resume, Compaction!Goto
    <3>4. CASE tx.snapshot # Compaction!Digest(known)
      <4>1. \/ tx' = [tx EXCEPT !.snapshot = Compaction!Digest(known), !.feedback = TRUE] /\ stage' = "collect"
            \/ tx' = tx /\ stage' = "refused" /\ Compaction!Digest(known) # Compaction!Digest(queued)
        BY <2>2, <3>4 DEF Compaction!Resume, Compaction!Emit, Compaction!Goto
      <4> QED
        BY <2>2, <3>2, <4>1, Digesting DEF Compaction!Resume, Transactions
    <3> QED
      BY <3>3, <3>4
  <2> QED
    BY <2>1, <2>2
<1>1. MaintenanceTyped'
  <2>1. tx' \in Transactions
    BY Digesting DEF Compaction!Resume, Compaction!Pending, Compaction!Goto, Compaction!Emit, Transactions,
      Compaction!Bodies, Compaction!shape, Compaction!journal
  <2>2. run' \in Runs
    <3>1. (tx.attempts > tx.answered) \in BOOLEAN
      OBVIOUS
    <3>2. run' = run \/ run' = [run EXCEPT !.snapshot = Compaction!Digest(known), !.stop = tx.attempts > tx.answered]
      BY DEF Compaction!Resume
    <3> QED
      BY <3>1, <3>2, Digesting DEF Runs
  <2>3. stage' \in Compaction!Steps
    BY DEF Compaction!Resume, Compaction!Pending, Compaction!Goto, Compaction!Emit, Compaction!Steps, CompactionInv,
      MaintenanceTyped, Compaction!TypeOK, Compaction!shape, Compaction!journal
  <2>4. /\ tx'.start <= tx'.end /\ tx'.end <= history' /\ tx'.answered <= tx'.attempts /\ tx'.attempts <= MaxAttempts
    BY <1>0, Digesting DEF Compaction!shape, CompactionInv, MaintenanceTyped, Compaction!TypeOK, MaintenanceBounds
  <2>5. compacted' \in 0..history'
    BY Digesting DEF Compaction!Resume, Compaction!Pending, Compaction!Goto, Compaction!Emit, CompactionInv,
      MaintenanceTyped, Compaction!TypeOK, MaintenanceBounds, Compaction!shape, Compaction!journal
  <2>6. /\ history' \in 0..MaxHistory /\ facts' \in 0..MaxFacts /\ deaths' \in 0..MaxDeaths
        /\ (queued' => history' < MaxHistory)
    BY Digesting DEF Compaction!Resume, Compaction!Pending, Compaction!Goto, Compaction!Emit, CompactionInv,
      MaintenanceTyped, Compaction!TypeOK, MaintenanceBounds, Compaction!shape, Compaction!journal
  <2>7. /\ queued' \in BOOLEAN /\ known' \in BOOLEAN /\ referenced' \in BOOLEAN /\ reset' \in BOOLEAN
        /\ rebased' \in BOOLEAN /\ summary' \in BOOLEAN
    BY DEF Compaction!Resume, Compaction!Pending, Compaction!Goto, Compaction!Emit, CompactionInv, MaintenanceTyped,
      Compaction!TypeOK, Compaction!shape, Compaction!journal
  <2> QED
    BY <2>1, <2>2, <2>3, <2>4, <2>5, <2>6, <2>7 DEF MaintenanceTyped, Compaction!TypeOK, Transactions
<1>2. TransactionInv'
  BY <1>0 DEF TransactionInv, CompactionInv, Compaction!Pending
<1>3. StageInv'
  <2>1. tx.attempts \in Nat /\ tx.answered \in Nat /\ tx.answered <= tx.attempts
    BY Digesting DEF Transactions, CompactionInv, MaintenanceTyped, Compaction!TypeOK
  <2> QED
    BY <1>0, <2>1, Digesting DEF StageInv, CompactionInv, Working, Compaction!Pending, Compaction!shape,
      Compaction!Digest
<1>4. Compaction!JournalAcceptsEvents' /\ AskedOnce
  BY <1>0, Digesting DEF Compaction!JournalAcceptsEvents, AskedOnce, Runs, Compaction!shape, Compaction!Digest
<1> QED
  BY <1>1, <1>2, <1>3, <1>4 DEF CompactionInv

LEMMA ValidateStep ==
  ASSUME MaintenanceBounds, CompactionInv, Compaction!Validate
  PROVE  CompactionInv' /\ AskedOnce
<1>1. MaintenanceTyped'
  <2>1. tx' \in Transactions
    BY Digesting DEF Compaction!Validate, Compaction!Emit, Compaction!Goto, Compaction!Pending, Transactions,
      Compaction!Bodies, Compaction!shape, Compaction!journal
  <2>2. run' \in Runs
    BY Digesting DEF Compaction!Validate, Compaction!Emit, Compaction!Goto, Compaction!Pending, Runs, Compaction!shape,
      Compaction!journal, StageInv, CompactionInv, MaintenanceTyped, Working
  <2>3. stage' \in Compaction!Steps
    BY DEF Compaction!Validate, Compaction!Emit, Compaction!Goto, Compaction!Pending, Compaction!Steps, CompactionInv,
      MaintenanceTyped, Compaction!TypeOK, Compaction!shape, Compaction!journal
  <2>4. /\ tx'.start <= tx'.end /\ tx'.end <= history' /\ tx'.answered <= tx'.attempts /\ tx'.attempts <= MaxAttempts
    BY Digesting DEF Compaction!Validate, Compaction!Emit, Compaction!Goto, Compaction!Pending, CompactionInv,
      MaintenanceTyped, Compaction!TypeOK, TransactionInv, StageInv, MaintenanceBounds, Compaction!NoTransaction,
      Transactions, Runs, Compaction!Pending, Compaction!shape, Compaction!journal
  <2>5. compacted' \in 0..history'
    BY Digesting DEF Compaction!Validate, Compaction!Emit, Compaction!Goto, Compaction!Pending, CompactionInv,
      MaintenanceTyped, Compaction!TypeOK, MaintenanceBounds, Compaction!shape, Compaction!journal
  <2>6. /\ history' \in 0..MaxHistory /\ facts' \in 0..MaxFacts /\ deaths' \in 0..MaxDeaths
        /\ (queued' => history' < MaxHistory)
    BY Digesting DEF Compaction!Validate, Compaction!Emit, Compaction!Goto, Compaction!Pending, CompactionInv,
      MaintenanceTyped, Compaction!TypeOK, MaintenanceBounds, Compaction!shape, Compaction!journal
  <2>7. /\ queued' \in BOOLEAN /\ known' \in BOOLEAN /\ referenced' \in BOOLEAN /\ reset' \in BOOLEAN
        /\ rebased' \in BOOLEAN /\ summary' \in BOOLEAN
    BY DEF Compaction!Validate, Compaction!Emit, Compaction!Goto, Compaction!Pending, CompactionInv, MaintenanceTyped,
      Compaction!TypeOK, Compaction!shape, Compaction!journal
  <2> QED
    BY <2>1, <2>2, <2>3, <2>4, <2>5, <2>6, <2>7 DEF MaintenanceTyped, Compaction!TypeOK, Transactions
<1>2. TransactionInv'
  BY Digesting DEF Compaction!Validate, Compaction!Emit, Compaction!Goto, Compaction!Pending, CompactionInv,
    MaintenanceTyped, TransactionInv, StageInv, Transactions, Runs, Compaction!Bodies, Compaction!NoTransaction,
    Compaction!NoRun, Compaction!Pending, Compaction!shape, Compaction!journal
<1>3. StageInv'
  BY Digesting DEF Compaction!Validate, Compaction!Emit, Compaction!Goto, Compaction!Pending, CompactionInv,
    MaintenanceTyped, Compaction!TypeOK, TransactionInv, StageInv, Transactions, Runs, Working,
    Compaction!NoTransaction, Compaction!NoRun, Compaction!Pending, Compaction!Digest, Compaction!shape,
    Compaction!journal
<1>4. Compaction!JournalAcceptsEvents' /\ AskedOnce
  BY Digesting DEF Compaction!Validate, Compaction!Emit, Compaction!Goto, Compaction!Pending, CompactionInv,
    MaintenanceTyped, TransactionInv, StageInv, Transactions, Runs, Working, Compaction!NoTransaction,
    Compaction!NoRun, Compaction!Pending, Compaction!Digest, Compaction!JournalAcceptsEvents, AskedOnce,
    Compaction!shape, Compaction!journal
<1> QED
  BY <1>1, <1>2, <1>3, <1>4 DEF CompactionInv

LEMMA SalvageStep ==
  ASSUME MaintenanceBounds, CompactionInv, Compaction!Salvage
  PROVE  CompactionInv' /\ AskedOnce
<1>1. MaintenanceTyped'
  <2>1. tx' \in Transactions
    BY Digesting DEF Compaction!Salvage, Compaction!Asks, Compaction!Spent, Compaction!Goto, Compaction!Emit,
      Compaction!Pending, Transactions, Compaction!Bodies, Compaction!shape, Compaction!journal
  <2>2. run' \in Runs
    BY Digesting DEF Compaction!Salvage, Compaction!Asks, Compaction!Spent, Compaction!Goto, Compaction!Emit,
      Compaction!Pending, Runs, Compaction!shape, Compaction!journal, StageInv, CompactionInv, MaintenanceTyped, Working
  <2>3. stage' \in Compaction!Steps
    BY DEF Compaction!Salvage, Compaction!Asks, Compaction!Spent, Compaction!Goto, Compaction!Emit, Compaction!Pending,
      Compaction!Steps, CompactionInv, MaintenanceTyped, Compaction!TypeOK, Compaction!shape, Compaction!journal
  <2>4. /\ tx'.start <= tx'.end /\ tx'.end <= history' /\ tx'.answered <= tx'.attempts /\ tx'.attempts <= MaxAttempts
    BY Digesting DEF Compaction!Salvage, Compaction!Asks, Compaction!Spent, Compaction!Goto, Compaction!Emit,
      Compaction!Pending, CompactionInv, MaintenanceTyped, Compaction!TypeOK, TransactionInv, StageInv,
      MaintenanceBounds, Compaction!NoTransaction, Transactions, Runs, Compaction!Pending, Compaction!shape,
      Compaction!journal
  <2>5. compacted' \in 0..history'
    BY Digesting DEF Compaction!Salvage, Compaction!Asks, Compaction!Spent, Compaction!Goto, Compaction!Emit,
      Compaction!Pending, CompactionInv, MaintenanceTyped, Compaction!TypeOK, MaintenanceBounds, Compaction!shape,
      Compaction!journal
  <2>6. /\ history' \in 0..MaxHistory /\ facts' \in 0..MaxFacts /\ deaths' \in 0..MaxDeaths
        /\ (queued' => history' < MaxHistory)
    BY Digesting DEF Compaction!Salvage, Compaction!Asks, Compaction!Spent, Compaction!Goto, Compaction!Emit,
      Compaction!Pending, CompactionInv, MaintenanceTyped, Compaction!TypeOK, MaintenanceBounds, Compaction!shape,
      Compaction!journal
  <2>7. /\ queued' \in BOOLEAN /\ known' \in BOOLEAN /\ referenced' \in BOOLEAN /\ reset' \in BOOLEAN
        /\ rebased' \in BOOLEAN /\ summary' \in BOOLEAN
    BY DEF Compaction!Salvage, Compaction!Asks, Compaction!Spent, Compaction!Goto, Compaction!Emit, Compaction!Pending,
      CompactionInv, MaintenanceTyped, Compaction!TypeOK, Compaction!shape, Compaction!journal
  <2> QED
    BY <2>1, <2>2, <2>3, <2>4, <2>5, <2>6, <2>7 DEF MaintenanceTyped, Compaction!TypeOK, Transactions
<1>2. TransactionInv'
  BY Digesting DEF Compaction!Salvage, Compaction!Asks, Compaction!Spent, Compaction!Goto, Compaction!Emit,
    Compaction!Pending, CompactionInv, MaintenanceTyped, TransactionInv, StageInv, Transactions, Runs,
    Compaction!Bodies, Compaction!NoTransaction, Compaction!NoRun, Compaction!Pending, Compaction!shape,
    Compaction!journal
<1>3. StageInv'
  BY Digesting DEF Compaction!Salvage, Compaction!Asks, Compaction!Spent, Compaction!Goto, Compaction!Emit,
    Compaction!Pending, CompactionInv, MaintenanceTyped, Compaction!TypeOK, TransactionInv, StageInv, Transactions,
    Runs, Working, Compaction!NoTransaction, Compaction!NoRun, Compaction!Pending, Compaction!Digest, Compaction!shape,
    Compaction!journal
<1>4. Compaction!JournalAcceptsEvents' /\ AskedOnce
  BY Digesting DEF Compaction!Salvage, Compaction!Asks, Compaction!Spent, Compaction!Goto, Compaction!Emit,
    Compaction!Pending, CompactionInv, MaintenanceTyped, TransactionInv, StageInv, Transactions, Runs, Working,
    Compaction!NoTransaction, Compaction!NoRun, Compaction!Pending, Compaction!Digest, Compaction!JournalAcceptsEvents,
    AskedOnce, Compaction!shape, Compaction!journal
<1> QED
  BY <1>1, <1>2, <1>3, <1>4 DEF CompactionInv

LEMMA CannotAskStep ==
  ASSUME MaintenanceBounds, CompactionInv, Compaction!CannotAsk
  PROVE  CompactionInv' /\ AskedOnce
<1>1. MaintenanceTyped'
  <2>1. tx' \in Transactions
    BY Digesting DEF Compaction!CannotAsk, Compaction!Asks, Compaction!Spent, Compaction!Goto, Transactions,
      Compaction!Bodies, Compaction!shape, Compaction!journal
  <2>2. run' \in Runs
    BY Digesting DEF Compaction!CannotAsk, Compaction!Asks, Compaction!Spent, Compaction!Goto, Runs, Compaction!shape,
      Compaction!journal, StageInv, CompactionInv, MaintenanceTyped, Working
  <2>3. stage' \in Compaction!Steps
    BY DEF Compaction!CannotAsk, Compaction!Asks, Compaction!Spent, Compaction!Goto, Compaction!Steps, CompactionInv,
      MaintenanceTyped, Compaction!TypeOK, Compaction!shape, Compaction!journal
  <2>4. /\ tx'.start <= tx'.end /\ tx'.end <= history' /\ tx'.answered <= tx'.attempts /\ tx'.attempts <= MaxAttempts
    BY Digesting DEF Compaction!CannotAsk, Compaction!Asks, Compaction!Spent, Compaction!Goto, CompactionInv,
      MaintenanceTyped, Compaction!TypeOK, TransactionInv, StageInv, MaintenanceBounds, Compaction!NoTransaction,
      Transactions, Runs, Compaction!Pending, Compaction!shape, Compaction!journal
  <2>5. compacted' \in 0..history'
    BY Digesting DEF Compaction!CannotAsk, Compaction!Asks, Compaction!Spent, Compaction!Goto, CompactionInv,
      MaintenanceTyped, Compaction!TypeOK, MaintenanceBounds, Compaction!shape, Compaction!journal
  <2>6. /\ history' \in 0..MaxHistory /\ facts' \in 0..MaxFacts /\ deaths' \in 0..MaxDeaths
        /\ (queued' => history' < MaxHistory)
    BY Digesting DEF Compaction!CannotAsk, Compaction!Asks, Compaction!Spent, Compaction!Goto, CompactionInv,
      MaintenanceTyped, Compaction!TypeOK, MaintenanceBounds, Compaction!shape, Compaction!journal
  <2>7. /\ queued' \in BOOLEAN /\ known' \in BOOLEAN /\ referenced' \in BOOLEAN /\ reset' \in BOOLEAN
        /\ rebased' \in BOOLEAN /\ summary' \in BOOLEAN
    BY DEF Compaction!CannotAsk, Compaction!Asks, Compaction!Spent, Compaction!Goto, CompactionInv, MaintenanceTyped,
      Compaction!TypeOK, Compaction!shape, Compaction!journal
  <2> QED
    BY <2>1, <2>2, <2>3, <2>4, <2>5, <2>6, <2>7 DEF MaintenanceTyped, Compaction!TypeOK, Transactions
<1>2. TransactionInv'
  BY Digesting DEF Compaction!CannotAsk, Compaction!Asks, Compaction!Spent, Compaction!Goto, CompactionInv,
    MaintenanceTyped, TransactionInv, StageInv, Transactions, Runs, Compaction!Bodies, Compaction!NoTransaction,
    Compaction!NoRun, Compaction!Pending, Compaction!shape, Compaction!journal
<1>3. StageInv'
  BY Digesting DEF Compaction!CannotAsk, Compaction!Asks, Compaction!Spent, Compaction!Goto, CompactionInv,
    MaintenanceTyped, Compaction!TypeOK, TransactionInv, StageInv, Transactions, Runs, Working,
    Compaction!NoTransaction, Compaction!NoRun, Compaction!Pending, Compaction!Digest, Compaction!shape,
    Compaction!journal
<1>4. Compaction!JournalAcceptsEvents' /\ AskedOnce
  BY Digesting DEF Compaction!CannotAsk, Compaction!Asks, Compaction!Spent, Compaction!Goto, CompactionInv,
    MaintenanceTyped, TransactionInv, StageInv, Transactions, Runs, Working, Compaction!NoTransaction,
    Compaction!NoRun, Compaction!Pending, Compaction!Digest, Compaction!JournalAcceptsEvents, AskedOnce,
    Compaction!shape, Compaction!journal
<1> QED
  BY <1>1, <1>2, <1>3, <1>4 DEF CompactionInv

LEMMA AskStep ==
  ASSUME MaintenanceBounds, CompactionInv, Compaction!Ask
  PROVE  CompactionInv' /\ AskedOnce
<1>1. MaintenanceTyped'
  <2>1. tx' \in Transactions
    BY Digesting DEF Compaction!Ask, Compaction!Asks, Compaction!Spent, Compaction!Emit, Compaction!Goto,
      Compaction!Pending, Transactions, Compaction!Bodies, Compaction!shape, Compaction!journal
  <2>2. run' \in Runs
    BY Digesting DEF Compaction!Ask, Compaction!Asks, Compaction!Spent, Compaction!Emit, Compaction!Goto,
      Compaction!Pending, Runs, Compaction!shape, Compaction!journal, StageInv, CompactionInv, MaintenanceTyped, Working
  <2>3. stage' \in Compaction!Steps
    BY DEF Compaction!Ask, Compaction!Asks, Compaction!Spent, Compaction!Emit, Compaction!Goto, Compaction!Pending,
      Compaction!Steps, CompactionInv, MaintenanceTyped, Compaction!TypeOK, Compaction!shape, Compaction!journal
  <2>4. /\ tx'.start <= tx'.end /\ tx'.end <= history' /\ tx'.answered <= tx'.attempts /\ tx'.attempts <= MaxAttempts
    BY Digesting DEF Compaction!Ask, Compaction!Asks, Compaction!Spent, Compaction!Emit, Compaction!Goto,
      Compaction!Pending, CompactionInv, MaintenanceTyped, Compaction!TypeOK, TransactionInv, StageInv,
      MaintenanceBounds, Compaction!NoTransaction, Transactions, Runs, Compaction!Pending, Compaction!shape,
      Compaction!journal
  <2>5. compacted' \in 0..history'
    BY Digesting DEF Compaction!Ask, Compaction!Asks, Compaction!Spent, Compaction!Emit, Compaction!Goto,
      Compaction!Pending, CompactionInv, MaintenanceTyped, Compaction!TypeOK, MaintenanceBounds, Compaction!shape,
      Compaction!journal
  <2>6. /\ history' \in 0..MaxHistory /\ facts' \in 0..MaxFacts /\ deaths' \in 0..MaxDeaths
        /\ (queued' => history' < MaxHistory)
    BY Digesting DEF Compaction!Ask, Compaction!Asks, Compaction!Spent, Compaction!Emit, Compaction!Goto,
      Compaction!Pending, CompactionInv, MaintenanceTyped, Compaction!TypeOK, MaintenanceBounds, Compaction!shape,
      Compaction!journal
  <2>7. /\ queued' \in BOOLEAN /\ known' \in BOOLEAN /\ referenced' \in BOOLEAN /\ reset' \in BOOLEAN
        /\ rebased' \in BOOLEAN /\ summary' \in BOOLEAN
    BY DEF Compaction!Ask, Compaction!Asks, Compaction!Spent, Compaction!Emit, Compaction!Goto, Compaction!Pending,
      CompactionInv, MaintenanceTyped, Compaction!TypeOK, Compaction!shape, Compaction!journal
  <2> QED
    BY <2>1, <2>2, <2>3, <2>4, <2>5, <2>6, <2>7 DEF MaintenanceTyped, Compaction!TypeOK, Transactions
<1>2. TransactionInv'
  BY Digesting DEF Compaction!Ask, Compaction!Asks, Compaction!Spent, Compaction!Emit, Compaction!Goto,
    Compaction!Pending, CompactionInv, MaintenanceTyped, TransactionInv, StageInv, Transactions, Runs,
    Compaction!Bodies, Compaction!NoTransaction, Compaction!NoRun, Compaction!Pending, Compaction!shape,
    Compaction!journal
<1>3. StageInv'
  BY Digesting DEF Compaction!Ask, Compaction!Asks, Compaction!Spent, Compaction!Emit, Compaction!Goto,
    Compaction!Pending, CompactionInv, MaintenanceTyped, Compaction!TypeOK, TransactionInv, StageInv, Transactions,
    Runs, Working, Compaction!NoTransaction, Compaction!NoRun, Compaction!Pending, Compaction!Digest, Compaction!shape,
    Compaction!journal
<1>4. Compaction!JournalAcceptsEvents' /\ AskedOnce
  BY Digesting DEF Compaction!Ask, Compaction!Asks, Compaction!Spent, Compaction!Emit, Compaction!Goto,
    Compaction!Pending, CompactionInv, MaintenanceTyped, TransactionInv, StageInv, Transactions, Runs, Working,
    Compaction!NoTransaction, Compaction!NoRun, Compaction!Pending, Compaction!Digest, Compaction!JournalAcceptsEvents,
    AskedOnce, Compaction!shape, Compaction!journal
<1> QED
  BY <1>1, <1>2, <1>3, <1>4 DEF CompactionInv

LEMMA AnswerStep ==
  ASSUME MaintenanceBounds, CompactionInv, Compaction!Answer
  PROVE  CompactionInv' /\ AskedOnce
<1>0. /\ stage = "asking" /\ UNCHANGED <<Compaction!shape, compacted, checked, run, deaths>>
      /\ \/ stage' \in {"finish", "recover"} /\ UNCHANGED tx
         \/ /\ stage' = "collect" /\ Compaction!Pending /\ tx.snapshot = Compaction!Digest(known)
            /\ tx'.pending = tx.pending /\ tx'.start = tx.start /\ tx'.end = tx.end /\ tx'.attempts = tx.attempts
            /\ tx'.answered = tx.attempts /\ tx'.candidate # "none" /\ tx'.snapshot = tx.snapshot
  <2>1. \/ stage' \in {"finish", "recover"} /\ UNCHANGED tx
        \/ /\ stage' = "collect" /\ Compaction!Pending /\ tx.snapshot = Compaction!Digest(known)
           /\ \E content \in Compaction!Bodies \ {"none"} :
                tx' = [tx EXCEPT !.candidate = content, !.answered = tx.attempts, !.feedback = FALSE,
                                 !.body = @ \/ content # "empty"]
    BY DEF Compaction!Answer, Compaction!Emit, Compaction!Goto
  <2> QED
    BY <2>1, Digesting DEF Compaction!Answer, Transactions
<1>1. MaintenanceTyped'
  <2>1. tx' \in Transactions
    BY Digesting DEF Compaction!Answer, Compaction!Pending, Compaction!Goto, Compaction!Emit, Transactions,
      Compaction!Bodies, Compaction!shape, Compaction!journal
  <2>2. run' \in Runs
    BY Digesting DEF Compaction!Answer, Compaction!Pending, Compaction!Goto, Compaction!Emit, Runs, Compaction!shape,
      Compaction!journal, StageInv, CompactionInv, MaintenanceTyped, Working
  <2>3. stage' \in Compaction!Steps
    BY DEF Compaction!Answer, Compaction!Pending, Compaction!Goto, Compaction!Emit, Compaction!Steps, CompactionInv,
      MaintenanceTyped, Compaction!TypeOK, Compaction!shape, Compaction!journal
  <2>4. /\ tx'.start <= tx'.end /\ tx'.end <= history' /\ tx'.answered <= tx'.attempts /\ tx'.attempts <= MaxAttempts
    BY <1>0, Digesting DEF Compaction!shape, CompactionInv, MaintenanceTyped, Compaction!TypeOK, MaintenanceBounds,
      Transactions
  <2>5. compacted' \in 0..history'
    BY Digesting DEF Compaction!Answer, Compaction!Pending, Compaction!Goto, Compaction!Emit, CompactionInv,
      MaintenanceTyped, Compaction!TypeOK, MaintenanceBounds, Compaction!shape, Compaction!journal
  <2>6. /\ history' \in 0..MaxHistory /\ facts' \in 0..MaxFacts /\ deaths' \in 0..MaxDeaths
        /\ (queued' => history' < MaxHistory)
    BY Digesting DEF Compaction!Answer, Compaction!Pending, Compaction!Goto, Compaction!Emit, CompactionInv,
      MaintenanceTyped, Compaction!TypeOK, MaintenanceBounds, Compaction!shape, Compaction!journal
  <2>7. /\ queued' \in BOOLEAN /\ known' \in BOOLEAN /\ referenced' \in BOOLEAN /\ reset' \in BOOLEAN
        /\ rebased' \in BOOLEAN /\ summary' \in BOOLEAN
    BY DEF Compaction!Answer, Compaction!Pending, Compaction!Goto, Compaction!Emit, CompactionInv, MaintenanceTyped,
      Compaction!TypeOK, Compaction!shape, Compaction!journal
  <2> QED
    BY <2>1, <2>2, <2>3, <2>4, <2>5, <2>6, <2>7 DEF MaintenanceTyped, Compaction!TypeOK, Transactions
<1>2. TransactionInv'
  BY <1>0 DEF TransactionInv, CompactionInv, Compaction!Pending
<1>3. StageInv'
  BY <1>0, Digesting DEF StageInv, CompactionInv, Working, Compaction!Pending, Compaction!shape, Compaction!Digest
<1>4. Compaction!JournalAcceptsEvents' /\ AskedOnce
  BY <1>0, Digesting DEF Compaction!JournalAcceptsEvents, AskedOnce, Runs
<1> QED
  BY <1>1, <1>2, <1>3, <1>4 DEF CompactionInv

LEMMA ResetInRequestStep ==
  ASSUME MaintenanceBounds, CompactionInv, Compaction!ResetInRequest
  PROVE  CompactionInv' /\ AskedOnce
<1>1. MaintenanceTyped'
  <2>1. tx' \in Transactions
    BY Digesting DEF Compaction!ResetInRequest, Compaction!Superseded, Compaction!NoCheck, Transactions,
      Compaction!Bodies, Compaction!shape, Compaction!journal
  <2>2. run' \in Runs
    BY Digesting DEF Compaction!ResetInRequest, Compaction!Superseded, Compaction!NoCheck, Runs, Compaction!shape,
      Compaction!journal, StageInv, CompactionInv, MaintenanceTyped, Working
  <2>3. stage' \in Compaction!Steps
    BY DEF Compaction!ResetInRequest, Compaction!Superseded, Compaction!NoCheck, Compaction!Steps, CompactionInv,
      MaintenanceTyped, Compaction!TypeOK, Compaction!shape, Compaction!journal
  <2>4. /\ tx'.start <= tx'.end /\ tx'.end <= history' /\ tx'.answered <= tx'.attempts /\ tx'.attempts <= MaxAttempts
    BY Digesting DEF Compaction!ResetInRequest, Compaction!Superseded, Compaction!NoCheck, CompactionInv,
      MaintenanceTyped, Compaction!TypeOK, TransactionInv, StageInv, MaintenanceBounds, Compaction!NoTransaction,
      Transactions, Runs, Compaction!Pending, Compaction!shape, Compaction!journal
  <2>5. compacted' \in 0..history'
    BY Digesting DEF Compaction!ResetInRequest, Compaction!Superseded, Compaction!NoCheck, CompactionInv,
      MaintenanceTyped, Compaction!TypeOK, MaintenanceBounds, Compaction!shape, Compaction!journal
  <2>6. /\ history' \in 0..MaxHistory /\ facts' \in 0..MaxFacts /\ deaths' \in 0..MaxDeaths
        /\ (queued' => history' < MaxHistory)
    BY Digesting DEF Compaction!ResetInRequest, Compaction!Superseded, Compaction!NoCheck, CompactionInv,
      MaintenanceTyped, Compaction!TypeOK, MaintenanceBounds, Compaction!shape, Compaction!journal
  <2>7. /\ queued' \in BOOLEAN /\ known' \in BOOLEAN /\ referenced' \in BOOLEAN /\ reset' \in BOOLEAN
        /\ rebased' \in BOOLEAN /\ summary' \in BOOLEAN
    BY DEF Compaction!ResetInRequest, Compaction!Superseded, Compaction!NoCheck, CompactionInv, MaintenanceTyped,
      Compaction!TypeOK, Compaction!shape, Compaction!journal
  <2> QED
    BY <2>1, <2>2, <2>3, <2>4, <2>5, <2>6, <2>7 DEF MaintenanceTyped, Compaction!TypeOK, Transactions
<1>2. TransactionInv'
  BY Digesting DEF Compaction!ResetInRequest, Compaction!Superseded, Compaction!NoCheck, CompactionInv,
    MaintenanceTyped, TransactionInv, StageInv, Transactions, Runs, Compaction!Bodies, Compaction!NoTransaction,
    Compaction!NoRun, Compaction!Pending, Compaction!shape, Compaction!journal
<1>3. StageInv'
  BY Digesting DEF Compaction!ResetInRequest, Compaction!Superseded, Compaction!NoCheck, CompactionInv,
    MaintenanceTyped, Compaction!TypeOK, TransactionInv, StageInv, Transactions, Runs, Working,
    Compaction!NoTransaction, Compaction!NoRun, Compaction!Pending, Compaction!Digest, Compaction!shape,
    Compaction!journal
<1>4. Compaction!JournalAcceptsEvents' /\ AskedOnce
  BY Digesting DEF Compaction!ResetInRequest, Compaction!Superseded, Compaction!NoCheck, CompactionInv,
    MaintenanceTyped, TransactionInv, StageInv, Transactions, Runs, Working, Compaction!NoTransaction,
    Compaction!NoRun, Compaction!Pending, Compaction!Digest, Compaction!JournalAcceptsEvents, AskedOnce,
    Compaction!shape, Compaction!journal
<1> QED
  BY <1>1, <1>2, <1>3, <1>4 DEF CompactionInv

LEMMA TransportFailsStep ==
  ASSUME MaintenanceBounds, CompactionInv, Compaction!TransportFails
  PROVE  CompactionInv' /\ AskedOnce
<1>1. MaintenanceTyped'
  <2>1. tx' \in Transactions
    BY Digesting DEF Compaction!TransportFails, Compaction!Pending, Compaction!Goto, Compaction!Emit, Transactions,
      Compaction!Bodies, Compaction!shape, Compaction!journal
  <2>2. run' \in Runs
    BY Digesting DEF Compaction!TransportFails, Compaction!Pending, Compaction!Goto, Compaction!Emit, Runs,
      Compaction!shape, Compaction!journal, StageInv, CompactionInv, MaintenanceTyped, Working
  <2>3. stage' \in Compaction!Steps
    BY DEF Compaction!TransportFails, Compaction!Pending, Compaction!Goto, Compaction!Emit, Compaction!Steps,
      CompactionInv, MaintenanceTyped, Compaction!TypeOK, Compaction!shape, Compaction!journal
  <2>4. /\ tx'.start <= tx'.end /\ tx'.end <= history' /\ tx'.answered <= tx'.attempts /\ tx'.attempts <= MaxAttempts
    BY Digesting DEF Compaction!TransportFails, Compaction!Pending, Compaction!Goto, Compaction!Emit, CompactionInv,
      MaintenanceTyped, Compaction!TypeOK, TransactionInv, StageInv, MaintenanceBounds, Compaction!NoTransaction,
      Transactions, Runs, Compaction!Pending, Compaction!shape, Compaction!journal
  <2>5. compacted' \in 0..history'
    BY Digesting DEF Compaction!TransportFails, Compaction!Pending, Compaction!Goto, Compaction!Emit, CompactionInv,
      MaintenanceTyped, Compaction!TypeOK, MaintenanceBounds, Compaction!shape, Compaction!journal
  <2>6. /\ history' \in 0..MaxHistory /\ facts' \in 0..MaxFacts /\ deaths' \in 0..MaxDeaths
        /\ (queued' => history' < MaxHistory)
    BY Digesting DEF Compaction!TransportFails, Compaction!Pending, Compaction!Goto, Compaction!Emit, CompactionInv,
      MaintenanceTyped, Compaction!TypeOK, MaintenanceBounds, Compaction!shape, Compaction!journal
  <2>7. /\ queued' \in BOOLEAN /\ known' \in BOOLEAN /\ referenced' \in BOOLEAN /\ reset' \in BOOLEAN
        /\ rebased' \in BOOLEAN /\ summary' \in BOOLEAN
    BY DEF Compaction!TransportFails, Compaction!Pending, Compaction!Goto, Compaction!Emit, CompactionInv,
      MaintenanceTyped, Compaction!TypeOK, Compaction!shape, Compaction!journal
  <2> QED
    BY <2>1, <2>2, <2>3, <2>4, <2>5, <2>6, <2>7 DEF MaintenanceTyped, Compaction!TypeOK, Transactions
<1>2. TransactionInv'
  BY Digesting DEF Compaction!TransportFails, Compaction!Pending, Compaction!Goto, Compaction!Emit, CompactionInv,
    MaintenanceTyped, TransactionInv, StageInv, Transactions, Runs, Compaction!Bodies, Compaction!NoTransaction,
    Compaction!NoRun, Compaction!Pending, Compaction!shape, Compaction!journal
<1>3. StageInv'
  BY Digesting DEF Compaction!TransportFails, Compaction!Pending, Compaction!Goto, Compaction!Emit, CompactionInv,
    MaintenanceTyped, Compaction!TypeOK, TransactionInv, StageInv, Transactions, Runs, Working,
    Compaction!NoTransaction, Compaction!NoRun, Compaction!Pending, Compaction!Digest, Compaction!shape,
    Compaction!journal
<1>4. Compaction!JournalAcceptsEvents' /\ AskedOnce
  BY Digesting DEF Compaction!TransportFails, Compaction!Pending, Compaction!Goto, Compaction!Emit, CompactionInv,
    MaintenanceTyped, TransactionInv, StageInv, Transactions, Runs, Working, Compaction!NoTransaction,
    Compaction!NoRun, Compaction!Pending, Compaction!Digest, Compaction!JournalAcceptsEvents, AskedOnce,
    Compaction!shape, Compaction!journal
<1> QED
  BY <1>1, <1>2, <1>3, <1>4 DEF CompactionInv

LEMMA CapacityFailsStep ==
  ASSUME MaintenanceBounds, CompactionInv, Compaction!CapacityFails
  PROVE  CompactionInv' /\ AskedOnce
<1>1. MaintenanceTyped'
  <2>1. tx' \in Transactions
    BY Digesting DEF Compaction!CapacityFails, Compaction!Goto, Transactions, Compaction!Bodies, Compaction!shape,
      Compaction!journal
  <2>2. run' \in Runs
    BY Digesting DEF Compaction!CapacityFails, Compaction!Goto, Runs, Compaction!shape, Compaction!journal, StageInv,
      CompactionInv, MaintenanceTyped, Working
  <2>3. stage' \in Compaction!Steps
    BY DEF Compaction!CapacityFails, Compaction!Goto, Compaction!Steps, CompactionInv, MaintenanceTyped,
      Compaction!TypeOK, Compaction!shape, Compaction!journal
  <2>4. /\ tx'.start <= tx'.end /\ tx'.end <= history' /\ tx'.answered <= tx'.attempts /\ tx'.attempts <= MaxAttempts
    BY Digesting DEF Compaction!CapacityFails, Compaction!Goto, CompactionInv, MaintenanceTyped, Compaction!TypeOK,
      TransactionInv, StageInv, MaintenanceBounds, Compaction!NoTransaction, Transactions, Runs, Compaction!Pending,
      Compaction!shape, Compaction!journal
  <2>5. compacted' \in 0..history'
    BY Digesting DEF Compaction!CapacityFails, Compaction!Goto, CompactionInv, MaintenanceTyped, Compaction!TypeOK,
      MaintenanceBounds, Compaction!shape, Compaction!journal
  <2>6. /\ history' \in 0..MaxHistory /\ facts' \in 0..MaxFacts /\ deaths' \in 0..MaxDeaths
        /\ (queued' => history' < MaxHistory)
    BY Digesting DEF Compaction!CapacityFails, Compaction!Goto, CompactionInv, MaintenanceTyped, Compaction!TypeOK,
      MaintenanceBounds, Compaction!shape, Compaction!journal
  <2>7. /\ queued' \in BOOLEAN /\ known' \in BOOLEAN /\ referenced' \in BOOLEAN /\ reset' \in BOOLEAN
        /\ rebased' \in BOOLEAN /\ summary' \in BOOLEAN
    BY DEF Compaction!CapacityFails, Compaction!Goto, CompactionInv, MaintenanceTyped, Compaction!TypeOK,
      Compaction!shape, Compaction!journal
  <2> QED
    BY <2>1, <2>2, <2>3, <2>4, <2>5, <2>6, <2>7 DEF MaintenanceTyped, Compaction!TypeOK, Transactions
<1>2. TransactionInv'
  BY Digesting DEF Compaction!CapacityFails, Compaction!Goto, CompactionInv, MaintenanceTyped, TransactionInv,
    StageInv, Transactions, Runs, Compaction!Bodies, Compaction!NoTransaction, Compaction!NoRun, Compaction!Pending,
    Compaction!shape, Compaction!journal
<1>3. StageInv'
  BY Digesting DEF Compaction!CapacityFails, Compaction!Goto, CompactionInv, MaintenanceTyped, Compaction!TypeOK,
    TransactionInv, StageInv, Transactions, Runs, Working, Compaction!NoTransaction, Compaction!NoRun,
    Compaction!Pending, Compaction!Digest, Compaction!shape, Compaction!journal
<1>4. Compaction!JournalAcceptsEvents' /\ AskedOnce
  BY Digesting DEF Compaction!CapacityFails, Compaction!Goto, CompactionInv, MaintenanceTyped, TransactionInv,
    StageInv, Transactions, Runs, Working, Compaction!NoTransaction, Compaction!NoRun, Compaction!Pending,
    Compaction!Digest, Compaction!JournalAcceptsEvents, AskedOnce, Compaction!shape, Compaction!journal
<1> QED
  BY <1>1, <1>2, <1>3, <1>4 DEF CompactionInv

LEMMA AbortStep ==
  ASSUME MaintenanceBounds, CompactionInv, Compaction!Abort
  PROVE  CompactionInv' /\ AskedOnce
<1>1. MaintenanceTyped'
  <2>1. tx' \in Transactions
    BY Digesting DEF Compaction!Abort, Compaction!Goto, Compaction!Superseded, Transactions, Compaction!Bodies,
      Compaction!shape, Compaction!journal
  <2>2. run' \in Runs
    BY Digesting DEF Compaction!Abort, Compaction!Goto, Compaction!Superseded, Runs, Compaction!shape,
      Compaction!journal, StageInv, CompactionInv, MaintenanceTyped, Working
  <2>3. stage' \in Compaction!Steps
    BY DEF Compaction!Abort, Compaction!Goto, Compaction!Superseded, Compaction!Steps, CompactionInv, MaintenanceTyped,
      Compaction!TypeOK, Compaction!shape, Compaction!journal
  <2>4. /\ tx'.start <= tx'.end /\ tx'.end <= history' /\ tx'.answered <= tx'.attempts /\ tx'.attempts <= MaxAttempts
    BY Digesting DEF Compaction!Abort, Compaction!Goto, Compaction!Superseded, CompactionInv, MaintenanceTyped,
      Compaction!TypeOK, TransactionInv, StageInv, MaintenanceBounds, Compaction!NoTransaction, Transactions, Runs,
      Compaction!Pending, Compaction!shape, Compaction!journal
  <2>5. compacted' \in 0..history'
    BY Digesting DEF Compaction!Abort, Compaction!Goto, Compaction!Superseded, CompactionInv, MaintenanceTyped,
      Compaction!TypeOK, MaintenanceBounds, Compaction!shape, Compaction!journal
  <2>6. /\ history' \in 0..MaxHistory /\ facts' \in 0..MaxFacts /\ deaths' \in 0..MaxDeaths
        /\ (queued' => history' < MaxHistory)
    BY Digesting DEF Compaction!Abort, Compaction!Goto, Compaction!Superseded, CompactionInv, MaintenanceTyped,
      Compaction!TypeOK, MaintenanceBounds, Compaction!shape, Compaction!journal
  <2>7. /\ queued' \in BOOLEAN /\ known' \in BOOLEAN /\ referenced' \in BOOLEAN /\ reset' \in BOOLEAN
        /\ rebased' \in BOOLEAN /\ summary' \in BOOLEAN
    BY DEF Compaction!Abort, Compaction!Goto, Compaction!Superseded, CompactionInv, MaintenanceTyped,
      Compaction!TypeOK, Compaction!shape, Compaction!journal
  <2> QED
    BY <2>1, <2>2, <2>3, <2>4, <2>5, <2>6, <2>7 DEF MaintenanceTyped, Compaction!TypeOK, Transactions
<1>2. TransactionInv'
  BY Digesting DEF Compaction!Abort, Compaction!Goto, Compaction!Superseded, CompactionInv, MaintenanceTyped,
    TransactionInv, StageInv, Transactions, Runs, Compaction!Bodies, Compaction!NoTransaction, Compaction!NoRun,
    Compaction!Pending, Compaction!shape, Compaction!journal
<1>3. StageInv'
  BY Digesting DEF Compaction!Abort, Compaction!Goto, Compaction!Superseded, CompactionInv, MaintenanceTyped,
    Compaction!TypeOK, TransactionInv, StageInv, Transactions, Runs, Working, Compaction!NoTransaction,
    Compaction!NoRun, Compaction!Pending, Compaction!Digest, Compaction!shape, Compaction!journal
<1>4. Compaction!JournalAcceptsEvents' /\ AskedOnce
  BY Digesting DEF Compaction!Abort, Compaction!Goto, Compaction!Superseded, CompactionInv, MaintenanceTyped,
    TransactionInv, StageInv, Transactions, Runs, Working, Compaction!NoTransaction, Compaction!NoRun,
    Compaction!Pending, Compaction!Digest, Compaction!JournalAcceptsEvents, AskedOnce, Compaction!shape,
    Compaction!journal
<1> QED
  BY <1>1, <1>2, <1>3, <1>4 DEF CompactionInv

LEMMA DeclineStep ==
  ASSUME MaintenanceBounds, CompactionInv, Compaction!Decline
  PROVE  CompactionInv' /\ AskedOnce
<1>1. MaintenanceTyped'
  <2>1. tx' \in Transactions
    BY Digesting DEF Compaction!Decline, Compaction!Emit, Compaction!Goto, Compaction!Pending, Compaction!Superseded,
      Transactions, Compaction!Bodies, Compaction!shape, Compaction!journal
  <2>2. run' \in Runs
    BY Digesting DEF Compaction!Decline, Compaction!Emit, Compaction!Goto, Compaction!Pending, Compaction!Superseded,
      Runs, Compaction!shape, Compaction!journal, StageInv, CompactionInv, MaintenanceTyped, Working
  <2>3. stage' \in Compaction!Steps
    BY DEF Compaction!Decline, Compaction!Emit, Compaction!Goto, Compaction!Pending, Compaction!Superseded,
      Compaction!Steps, CompactionInv, MaintenanceTyped, Compaction!TypeOK, Compaction!shape, Compaction!journal
  <2>4. /\ tx'.start <= tx'.end /\ tx'.end <= history' /\ tx'.answered <= tx'.attempts /\ tx'.attempts <= MaxAttempts
    BY Digesting DEF Compaction!Decline, Compaction!Emit, Compaction!Goto, Compaction!Pending, Compaction!Superseded,
      CompactionInv, MaintenanceTyped, Compaction!TypeOK, TransactionInv, StageInv, MaintenanceBounds,
      Compaction!NoTransaction, Transactions, Runs, Compaction!Pending, Compaction!shape, Compaction!journal
  <2>5. compacted' \in 0..history'
    BY Digesting DEF Compaction!Decline, Compaction!Emit, Compaction!Goto, Compaction!Pending, Compaction!Superseded,
      CompactionInv, MaintenanceTyped, Compaction!TypeOK, MaintenanceBounds, Compaction!shape, Compaction!journal
  <2>6. /\ history' \in 0..MaxHistory /\ facts' \in 0..MaxFacts /\ deaths' \in 0..MaxDeaths
        /\ (queued' => history' < MaxHistory)
    BY Digesting DEF Compaction!Decline, Compaction!Emit, Compaction!Goto, Compaction!Pending, Compaction!Superseded,
      CompactionInv, MaintenanceTyped, Compaction!TypeOK, MaintenanceBounds, Compaction!shape, Compaction!journal
  <2>7. /\ queued' \in BOOLEAN /\ known' \in BOOLEAN /\ referenced' \in BOOLEAN /\ reset' \in BOOLEAN
        /\ rebased' \in BOOLEAN /\ summary' \in BOOLEAN
    BY DEF Compaction!Decline, Compaction!Emit, Compaction!Goto, Compaction!Pending, Compaction!Superseded,
      CompactionInv, MaintenanceTyped, Compaction!TypeOK, Compaction!shape, Compaction!journal
  <2> QED
    BY <2>1, <2>2, <2>3, <2>4, <2>5, <2>6, <2>7 DEF MaintenanceTyped, Compaction!TypeOK, Transactions
<1>2. TransactionInv'
  BY Digesting DEF Compaction!Decline, Compaction!Emit, Compaction!Goto, Compaction!Pending, Compaction!Superseded,
    CompactionInv, MaintenanceTyped, TransactionInv, StageInv, Transactions, Runs, Compaction!Bodies,
    Compaction!NoTransaction, Compaction!NoRun, Compaction!Pending, Compaction!shape, Compaction!journal
<1>3. StageInv'
  BY Digesting DEF Compaction!Decline, Compaction!Emit, Compaction!Goto, Compaction!Pending, Compaction!Superseded,
    CompactionInv, MaintenanceTyped, Compaction!TypeOK, TransactionInv, StageInv, Transactions, Runs, Working,
    Compaction!NoTransaction, Compaction!NoRun, Compaction!Pending, Compaction!Digest, Compaction!shape,
    Compaction!journal
<1>4. Compaction!JournalAcceptsEvents' /\ AskedOnce
  BY Digesting DEF Compaction!Decline, Compaction!Emit, Compaction!Goto, Compaction!Pending, Compaction!Superseded,
    CompactionInv, MaintenanceTyped, TransactionInv, StageInv, Transactions, Runs, Working, Compaction!NoTransaction,
    Compaction!NoRun, Compaction!Pending, Compaction!Digest, Compaction!JournalAcceptsEvents, AskedOnce,
    Compaction!shape, Compaction!journal
<1> QED
  BY <1>1, <1>2, <1>3, <1>4 DEF CompactionInv

LEMMA AcceptStep ==
  ASSUME MaintenanceBounds, CompactionInv, Compaction!Accept
  PROVE  CompactionInv' /\ AskedOnce
<1>1. MaintenanceTyped'
  <2>1. tx' \in Transactions
    BY Digesting DEF Compaction!Accept, Compaction!Emit, Compaction!Goto, Compaction!Pending, Transactions,
      Compaction!Bodies, Compaction!shape, Compaction!journal
  <2>2. run' \in Runs
    BY Digesting DEF Compaction!Accept, Compaction!Emit, Compaction!Goto, Compaction!Pending, Runs, Compaction!shape,
      Compaction!journal, StageInv, CompactionInv, MaintenanceTyped, Working
  <2>3. stage' \in Compaction!Steps
    BY DEF Compaction!Accept, Compaction!Emit, Compaction!Goto, Compaction!Pending, Compaction!Steps, CompactionInv,
      MaintenanceTyped, Compaction!TypeOK, Compaction!shape, Compaction!journal
  <2>4. /\ tx'.start <= tx'.end /\ tx'.end <= history' /\ tx'.answered <= tx'.attempts /\ tx'.attempts <= MaxAttempts
    BY Digesting DEF Compaction!Accept, Compaction!Emit, Compaction!Goto, Compaction!Pending, CompactionInv,
      MaintenanceTyped, Compaction!TypeOK, TransactionInv, StageInv, MaintenanceBounds, Compaction!NoTransaction,
      Transactions, Runs, Compaction!Pending, Compaction!shape, Compaction!journal
  <2>5. compacted' \in 0..history'
    BY Digesting DEF Compaction!Accept, Compaction!Emit, Compaction!Goto, Compaction!Pending, CompactionInv,
      MaintenanceTyped, Compaction!TypeOK, MaintenanceBounds, Compaction!shape, Compaction!journal
  <2>6. /\ history' \in 0..MaxHistory /\ facts' \in 0..MaxFacts /\ deaths' \in 0..MaxDeaths
        /\ (queued' => history' < MaxHistory)
    BY Digesting DEF Compaction!Accept, Compaction!Emit, Compaction!Goto, Compaction!Pending, CompactionInv,
      MaintenanceTyped, Compaction!TypeOK, MaintenanceBounds, Compaction!shape, Compaction!journal
  <2>7. /\ queued' \in BOOLEAN /\ known' \in BOOLEAN /\ referenced' \in BOOLEAN /\ reset' \in BOOLEAN
        /\ rebased' \in BOOLEAN /\ summary' \in BOOLEAN
    BY DEF Compaction!Accept, Compaction!Emit, Compaction!Goto, Compaction!Pending, CompactionInv, MaintenanceTyped,
      Compaction!TypeOK, Compaction!shape, Compaction!journal
  <2> QED
    BY <2>1, <2>2, <2>3, <2>4, <2>5, <2>6, <2>7 DEF MaintenanceTyped, Compaction!TypeOK, Transactions
<1>2. TransactionInv'
  BY Digesting DEF Compaction!Accept, Compaction!Emit, Compaction!Goto, Compaction!Pending, CompactionInv,
    MaintenanceTyped, TransactionInv, StageInv, Transactions, Runs, Compaction!Bodies, Compaction!NoTransaction,
    Compaction!NoRun, Compaction!Pending, Compaction!shape, Compaction!journal
<1>3. StageInv'
  BY Digesting DEF Compaction!Accept, Compaction!Emit, Compaction!Goto, Compaction!Pending, CompactionInv,
    MaintenanceTyped, Compaction!TypeOK, TransactionInv, StageInv, Transactions, Runs, Working,
    Compaction!NoTransaction, Compaction!NoRun, Compaction!Pending, Compaction!Digest, Compaction!shape,
    Compaction!journal
<1>4. Compaction!JournalAcceptsEvents' /\ AskedOnce
  BY Digesting DEF Compaction!Accept, Compaction!Emit, Compaction!Goto, Compaction!Pending, CompactionInv,
    MaintenanceTyped, TransactionInv, StageInv, Transactions, Runs, Working, Compaction!NoTransaction,
    Compaction!NoRun, Compaction!Pending, Compaction!Digest, Compaction!JournalAcceptsEvents, AskedOnce,
    Compaction!shape, Compaction!journal
<1> QED
  BY <1>1, <1>2, <1>3, <1>4 DEF CompactionInv

LEMMA CommitStep ==
  ASSUME MaintenanceBounds, CompactionInv, Compaction!Commit
  PROVE  CompactionInv' /\ AskedOnce
<1>1. MaintenanceTyped'
  <2>1. tx' \in Transactions
    BY Digesting DEF Compaction!Commit, Compaction!Committable, Compaction!Pending, Compaction!Goto, Transactions,
      Compaction!Bodies, Compaction!shape, Compaction!journal
  <2>2. run' \in Runs
    BY Digesting DEF Compaction!Commit, Compaction!Committable, Compaction!Pending, Compaction!Goto, Runs,
      Compaction!shape, Compaction!journal, StageInv, CompactionInv, MaintenanceTyped, Working
  <2>3. stage' \in Compaction!Steps
    BY DEF Compaction!Commit, Compaction!Committable, Compaction!Pending, Compaction!Goto, Compaction!Steps,
      CompactionInv, MaintenanceTyped, Compaction!TypeOK, Compaction!shape, Compaction!journal
  <2>4. /\ tx'.start <= tx'.end /\ tx'.end <= history' /\ tx'.answered <= tx'.attempts /\ tx'.attempts <= MaxAttempts
    BY Digesting DEF Compaction!Commit, Compaction!Committable, Compaction!Pending, Compaction!Goto, CompactionInv,
      MaintenanceTyped, Compaction!TypeOK, TransactionInv, StageInv, MaintenanceBounds, Compaction!NoTransaction,
      Transactions, Runs, Compaction!Pending, Compaction!shape, Compaction!journal
  <2>5. compacted' \in 0..history'
    <3>1. compacted' = compacted \/ compacted' = tx.end
      BY DEF Compaction!Commit
    <3> QED
      BY <3>1, Digesting DEF Compaction!Commit, CompactionInv, MaintenanceTyped, Compaction!TypeOK, Transactions
  <2>6. /\ history' \in 0..MaxHistory /\ facts' \in 0..MaxFacts /\ deaths' \in 0..MaxDeaths
        /\ (queued' => history' < MaxHistory)
    BY Digesting DEF Compaction!Commit, Compaction!Committable, Compaction!Pending, Compaction!Goto, CompactionInv,
      MaintenanceTyped, Compaction!TypeOK, MaintenanceBounds, Compaction!shape, Compaction!journal
  <2>7. /\ queued' \in BOOLEAN /\ known' \in BOOLEAN /\ referenced' \in BOOLEAN /\ reset' \in BOOLEAN
        /\ rebased' \in BOOLEAN /\ summary' \in BOOLEAN
    BY DEF Compaction!Commit, Compaction!Committable, Compaction!Pending, Compaction!Goto, CompactionInv,
      MaintenanceTyped, Compaction!TypeOK, Compaction!shape, Compaction!journal
  <2> QED
    BY <2>1, <2>2, <2>3, <2>4, <2>5, <2>6, <2>7 DEF MaintenanceTyped, Compaction!TypeOK, Transactions
<1>2. TransactionInv'
  BY Digesting DEF Compaction!Commit, Compaction!Committable, Compaction!Pending, Compaction!Goto, CompactionInv,
    MaintenanceTyped, TransactionInv, StageInv, Transactions, Runs, Compaction!Bodies, Compaction!NoTransaction,
    Compaction!NoRun, Compaction!Pending, Compaction!shape, Compaction!journal
<1>3. StageInv'
  BY Digesting DEF Compaction!Commit, Compaction!Committable, Compaction!Pending, Compaction!Goto, CompactionInv,
    MaintenanceTyped, Compaction!TypeOK, TransactionInv, StageInv, Transactions, Runs, Working,
    Compaction!NoTransaction, Compaction!NoRun, Compaction!Pending, Compaction!Digest, Compaction!shape,
    Compaction!journal
<1>4. Compaction!JournalAcceptsEvents' /\ AskedOnce
  BY Digesting DEF Compaction!Commit, Compaction!Committable, Compaction!Pending, Compaction!Goto, CompactionInv,
    MaintenanceTyped, TransactionInv, StageInv, Transactions, Runs, Working, Compaction!NoTransaction,
    Compaction!NoRun, Compaction!Pending, Compaction!Digest, Compaction!JournalAcceptsEvents, AskedOnce,
    Compaction!shape, Compaction!journal
<1> QED
  BY <1>1, <1>2, <1>3, <1>4 DEF CompactionInv

LEMMA RecoverManualStep ==
  ASSUME MaintenanceBounds, CompactionInv, Compaction!RecoverManual
  PROVE  CompactionInv' /\ AskedOnce
<1>1. MaintenanceTyped'
  <2>1. tx' \in Transactions
    BY Digesting DEF Compaction!RecoverManual, Compaction!Superseded, Compaction!Goto, Transactions, Compaction!Bodies,
      Compaction!shape, Compaction!journal
  <2>2. run' \in Runs
    BY Digesting DEF Compaction!RecoverManual, Compaction!Superseded, Compaction!Goto, Runs, Compaction!shape,
      Compaction!journal, StageInv, CompactionInv, MaintenanceTyped, Working
  <2>3. stage' \in Compaction!Steps
    BY DEF Compaction!RecoverManual, Compaction!Superseded, Compaction!Goto, Compaction!Steps, CompactionInv,
      MaintenanceTyped, Compaction!TypeOK, Compaction!shape, Compaction!journal
  <2>4. /\ tx'.start <= tx'.end /\ tx'.end <= history' /\ tx'.answered <= tx'.attempts /\ tx'.attempts <= MaxAttempts
    BY Digesting DEF Compaction!RecoverManual, Compaction!Superseded, Compaction!Goto, CompactionInv, MaintenanceTyped,
      Compaction!TypeOK, TransactionInv, StageInv, MaintenanceBounds, Compaction!NoTransaction, Transactions, Runs,
      Compaction!Pending, Compaction!shape, Compaction!journal
  <2>5. compacted' \in 0..history'
    BY Digesting DEF Compaction!RecoverManual, Compaction!Superseded, Compaction!Goto, CompactionInv, MaintenanceTyped,
      Compaction!TypeOK, MaintenanceBounds, Compaction!shape, Compaction!journal
  <2>6. /\ history' \in 0..MaxHistory /\ facts' \in 0..MaxFacts /\ deaths' \in 0..MaxDeaths
        /\ (queued' => history' < MaxHistory)
    BY Digesting DEF Compaction!RecoverManual, Compaction!Superseded, Compaction!Goto, CompactionInv, MaintenanceTyped,
      Compaction!TypeOK, MaintenanceBounds, Compaction!shape, Compaction!journal
  <2>7. /\ queued' \in BOOLEAN /\ known' \in BOOLEAN /\ referenced' \in BOOLEAN /\ reset' \in BOOLEAN
        /\ rebased' \in BOOLEAN /\ summary' \in BOOLEAN
    BY DEF Compaction!RecoverManual, Compaction!Superseded, Compaction!Goto, CompactionInv, MaintenanceTyped,
      Compaction!TypeOK, Compaction!shape, Compaction!journal
  <2> QED
    BY <2>1, <2>2, <2>3, <2>4, <2>5, <2>6, <2>7 DEF MaintenanceTyped, Compaction!TypeOK, Transactions
<1>2. TransactionInv'
  BY Digesting DEF Compaction!RecoverManual, Compaction!Superseded, Compaction!Goto, CompactionInv, MaintenanceTyped,
    TransactionInv, StageInv, Transactions, Runs, Compaction!Bodies, Compaction!NoTransaction, Compaction!NoRun,
    Compaction!Pending, Compaction!shape, Compaction!journal
<1>3. StageInv'
  BY Digesting DEF Compaction!RecoverManual, Compaction!Superseded, Compaction!Goto, CompactionInv, MaintenanceTyped,
    Compaction!TypeOK, TransactionInv, StageInv, Transactions, Runs, Working, Compaction!NoTransaction,
    Compaction!NoRun, Compaction!Pending, Compaction!Digest, Compaction!shape, Compaction!journal
<1>4. Compaction!JournalAcceptsEvents' /\ AskedOnce
  BY Digesting DEF Compaction!RecoverManual, Compaction!Superseded, Compaction!Goto, CompactionInv, MaintenanceTyped,
    TransactionInv, StageInv, Transactions, Runs, Working, Compaction!NoTransaction, Compaction!NoRun,
    Compaction!Pending, Compaction!Digest, Compaction!JournalAcceptsEvents, AskedOnce, Compaction!shape,
    Compaction!journal
<1> QED
  BY <1>1, <1>2, <1>3, <1>4 DEF CompactionInv

LEMMA EvictStep ==
  ASSUME MaintenanceBounds, CompactionInv, Compaction!Evict
  PROVE  CompactionInv' /\ AskedOnce
<1>1. MaintenanceTyped'
  <2>1. tx' \in Transactions
    BY Digesting DEF Compaction!Evict, Compaction!Evictable, Compaction!Superseded, Compaction!Goto, Transactions,
      Compaction!Bodies, Compaction!shape, Compaction!journal
  <2>2. run' \in Runs
    BY Digesting DEF Compaction!Evict, Compaction!Evictable, Compaction!Superseded, Compaction!Goto, Runs,
      Compaction!shape, Compaction!journal, StageInv, CompactionInv, MaintenanceTyped, Working
  <2>3. stage' \in Compaction!Steps
    BY DEF Compaction!Evict, Compaction!Evictable, Compaction!Superseded, Compaction!Goto, Compaction!Steps,
      CompactionInv, MaintenanceTyped, Compaction!TypeOK, Compaction!shape, Compaction!journal
  <2>4. /\ tx'.start <= tx'.end /\ tx'.end <= history' /\ tx'.answered <= tx'.attempts /\ tx'.attempts <= MaxAttempts
    BY Digesting DEF Compaction!Evict, Compaction!Evictable, Compaction!Superseded, Compaction!Goto, CompactionInv,
      MaintenanceTyped, Compaction!TypeOK, TransactionInv, StageInv, MaintenanceBounds, Compaction!NoTransaction,
      Transactions, Runs, Compaction!Pending, Compaction!shape, Compaction!journal
  <2>5. compacted' \in 0..history'
    BY Digesting DEF Compaction!Evict, Compaction!Evictable, Compaction!Superseded, Compaction!Goto, CompactionInv,
      MaintenanceTyped, Compaction!TypeOK, MaintenanceBounds, Compaction!shape, Compaction!journal
  <2>6. /\ history' \in 0..MaxHistory /\ facts' \in 0..MaxFacts /\ deaths' \in 0..MaxDeaths
        /\ (queued' => history' < MaxHistory)
    BY Digesting DEF Compaction!Evict, Compaction!Evictable, Compaction!Superseded, Compaction!Goto, CompactionInv,
      MaintenanceTyped, Compaction!TypeOK, MaintenanceBounds, Compaction!shape, Compaction!journal
  <2>7. /\ queued' \in BOOLEAN /\ known' \in BOOLEAN /\ referenced' \in BOOLEAN /\ reset' \in BOOLEAN
        /\ rebased' \in BOOLEAN /\ summary' \in BOOLEAN
    BY DEF Compaction!Evict, Compaction!Evictable, Compaction!Superseded, Compaction!Goto, CompactionInv,
      MaintenanceTyped, Compaction!TypeOK, Compaction!shape, Compaction!journal
  <2> QED
    BY <2>1, <2>2, <2>3, <2>4, <2>5, <2>6, <2>7 DEF MaintenanceTyped, Compaction!TypeOK, Transactions
<1>2. TransactionInv'
  BY Digesting DEF Compaction!Evict, Compaction!Evictable, Compaction!Superseded, Compaction!Goto, CompactionInv,
    MaintenanceTyped, TransactionInv, StageInv, Transactions, Runs, Compaction!Bodies, Compaction!NoTransaction,
    Compaction!NoRun, Compaction!Pending, Compaction!shape, Compaction!journal
<1>3. StageInv'
  BY Digesting DEF Compaction!Evict, Compaction!Evictable, Compaction!Superseded, Compaction!Goto, CompactionInv,
    MaintenanceTyped, Compaction!TypeOK, TransactionInv, StageInv, Transactions, Runs, Working,
    Compaction!NoTransaction, Compaction!NoRun, Compaction!Pending, Compaction!Digest, Compaction!shape,
    Compaction!journal
<1>4. Compaction!JournalAcceptsEvents' /\ AskedOnce
  BY Digesting DEF Compaction!Evict, Compaction!Evictable, Compaction!Superseded, Compaction!Goto, CompactionInv,
    MaintenanceTyped, TransactionInv, StageInv, Transactions, Runs, Working, Compaction!NoTransaction,
    Compaction!NoRun, Compaction!Pending, Compaction!Digest, Compaction!JournalAcceptsEvents, AskedOnce,
    Compaction!shape, Compaction!journal
<1> QED
  BY <1>1, <1>2, <1>3, <1>4 DEF CompactionInv

LEMMA AbandonAndGoOnStep ==
  ASSUME MaintenanceBounds, CompactionInv, Compaction!AbandonAndGoOn
  PROVE  CompactionInv' /\ AskedOnce
<1>1. MaintenanceTyped'
  <2>1. tx' \in Transactions
    BY Digesting DEF Compaction!AbandonAndGoOn, Compaction!Superseded, Compaction!Goto, Transactions,
      Compaction!Bodies, Compaction!shape, Compaction!journal
  <2>2. run' \in Runs
    BY Digesting DEF Compaction!AbandonAndGoOn, Compaction!Superseded, Compaction!Goto, Runs, Compaction!shape,
      Compaction!journal, StageInv, CompactionInv, MaintenanceTyped, Working
  <2>3. stage' \in Compaction!Steps
    BY DEF Compaction!AbandonAndGoOn, Compaction!Superseded, Compaction!Goto, Compaction!Steps, CompactionInv,
      MaintenanceTyped, Compaction!TypeOK, Compaction!shape, Compaction!journal
  <2>4. /\ tx'.start <= tx'.end /\ tx'.end <= history' /\ tx'.answered <= tx'.attempts /\ tx'.attempts <= MaxAttempts
    BY Digesting DEF Compaction!AbandonAndGoOn, Compaction!Superseded, Compaction!Goto, CompactionInv,
      MaintenanceTyped, Compaction!TypeOK, TransactionInv, StageInv, MaintenanceBounds, Compaction!NoTransaction,
      Transactions, Runs, Compaction!Pending, Compaction!shape, Compaction!journal
  <2>5. compacted' \in 0..history'
    BY Digesting DEF Compaction!AbandonAndGoOn, Compaction!Superseded, Compaction!Goto, CompactionInv,
      MaintenanceTyped, Compaction!TypeOK, MaintenanceBounds, Compaction!shape, Compaction!journal
  <2>6. /\ history' \in 0..MaxHistory /\ facts' \in 0..MaxFacts /\ deaths' \in 0..MaxDeaths
        /\ (queued' => history' < MaxHistory)
    BY Digesting DEF Compaction!AbandonAndGoOn, Compaction!Superseded, Compaction!Goto, CompactionInv,
      MaintenanceTyped, Compaction!TypeOK, MaintenanceBounds, Compaction!shape, Compaction!journal
  <2>7. /\ queued' \in BOOLEAN /\ known' \in BOOLEAN /\ referenced' \in BOOLEAN /\ reset' \in BOOLEAN
        /\ rebased' \in BOOLEAN /\ summary' \in BOOLEAN
    BY DEF Compaction!AbandonAndGoOn, Compaction!Superseded, Compaction!Goto, CompactionInv, MaintenanceTyped,
      Compaction!TypeOK, Compaction!shape, Compaction!journal
  <2> QED
    BY <2>1, <2>2, <2>3, <2>4, <2>5, <2>6, <2>7 DEF MaintenanceTyped, Compaction!TypeOK, Transactions
<1>2. TransactionInv'
  BY Digesting DEF Compaction!AbandonAndGoOn, Compaction!Superseded, Compaction!Goto, CompactionInv, MaintenanceTyped,
    TransactionInv, StageInv, Transactions, Runs, Compaction!Bodies, Compaction!NoTransaction, Compaction!NoRun,
    Compaction!Pending, Compaction!shape, Compaction!journal
<1>3. StageInv'
  BY Digesting DEF Compaction!AbandonAndGoOn, Compaction!Superseded, Compaction!Goto, CompactionInv, MaintenanceTyped,
    Compaction!TypeOK, TransactionInv, StageInv, Transactions, Runs, Working, Compaction!NoTransaction,
    Compaction!NoRun, Compaction!Pending, Compaction!Digest, Compaction!shape, Compaction!journal
<1>4. Compaction!JournalAcceptsEvents' /\ AskedOnce
  BY Digesting DEF Compaction!AbandonAndGoOn, Compaction!Superseded, Compaction!Goto, CompactionInv, MaintenanceTyped,
    TransactionInv, StageInv, Transactions, Runs, Working, Compaction!NoTransaction, Compaction!NoRun,
    Compaction!Pending, Compaction!Digest, Compaction!JournalAcceptsEvents, AskedOnce, Compaction!shape,
    Compaction!journal
<1> QED
  BY <1>1, <1>2, <1>3, <1>4 DEF CompactionInv

LEMMA ResetStep ==
  ASSUME MaintenanceBounds, CompactionInv, Compaction!Reset
  PROVE  CompactionInv' /\ AskedOnce
<1>1. MaintenanceTyped'
  <2>1. tx' \in Transactions
    BY Digesting DEF Compaction!Reset, Compaction!Superseded, Compaction!NoCheck, Compaction!Goto, Transactions,
      Compaction!Bodies, Compaction!shape, Compaction!journal
  <2>2. run' \in Runs
    BY Digesting DEF Compaction!Reset, Compaction!Superseded, Compaction!NoCheck, Compaction!Goto, Runs,
      Compaction!shape, Compaction!journal, StageInv, CompactionInv, MaintenanceTyped, Working
  <2>3. stage' \in Compaction!Steps
    BY DEF Compaction!Reset, Compaction!Superseded, Compaction!NoCheck, Compaction!Goto, Compaction!Steps,
      CompactionInv, MaintenanceTyped, Compaction!TypeOK, Compaction!shape, Compaction!journal
  <2>4. /\ tx'.start <= tx'.end /\ tx'.end <= history' /\ tx'.answered <= tx'.attempts /\ tx'.attempts <= MaxAttempts
    BY Digesting DEF Compaction!Reset, Compaction!Superseded, Compaction!NoCheck, Compaction!Goto, CompactionInv,
      MaintenanceTyped, Compaction!TypeOK, TransactionInv, StageInv, MaintenanceBounds, Compaction!NoTransaction,
      Transactions, Runs, Compaction!Pending, Compaction!shape, Compaction!journal
  <2>5. compacted' \in 0..history'
    BY Digesting DEF Compaction!Reset, Compaction!Superseded, Compaction!NoCheck, Compaction!Goto, CompactionInv,
      MaintenanceTyped, Compaction!TypeOK, MaintenanceBounds, Compaction!shape, Compaction!journal
  <2>6. /\ history' \in 0..MaxHistory /\ facts' \in 0..MaxFacts /\ deaths' \in 0..MaxDeaths
        /\ (queued' => history' < MaxHistory)
    BY Digesting DEF Compaction!Reset, Compaction!Superseded, Compaction!NoCheck, Compaction!Goto, CompactionInv,
      MaintenanceTyped, Compaction!TypeOK, MaintenanceBounds, Compaction!shape, Compaction!journal
  <2>7. /\ queued' \in BOOLEAN /\ known' \in BOOLEAN /\ referenced' \in BOOLEAN /\ reset' \in BOOLEAN
        /\ rebased' \in BOOLEAN /\ summary' \in BOOLEAN
    BY DEF Compaction!Reset, Compaction!Superseded, Compaction!NoCheck, Compaction!Goto, CompactionInv,
      MaintenanceTyped, Compaction!TypeOK, Compaction!shape, Compaction!journal
  <2> QED
    BY <2>1, <2>2, <2>3, <2>4, <2>5, <2>6, <2>7 DEF MaintenanceTyped, Compaction!TypeOK, Transactions
<1>2. TransactionInv'
  BY Digesting DEF Compaction!Reset, Compaction!Superseded, Compaction!NoCheck, Compaction!Goto, CompactionInv,
    MaintenanceTyped, TransactionInv, StageInv, Transactions, Runs, Compaction!Bodies, Compaction!NoTransaction,
    Compaction!NoRun, Compaction!Pending, Compaction!shape, Compaction!journal
<1>3. StageInv'
  BY Digesting DEF Compaction!Reset, Compaction!Superseded, Compaction!NoCheck, Compaction!Goto, CompactionInv,
    MaintenanceTyped, Compaction!TypeOK, TransactionInv, StageInv, Transactions, Runs, Working,
    Compaction!NoTransaction, Compaction!NoRun, Compaction!Pending, Compaction!Digest, Compaction!shape,
    Compaction!journal
<1>4. Compaction!JournalAcceptsEvents' /\ AskedOnce
  BY Digesting DEF Compaction!Reset, Compaction!Superseded, Compaction!NoCheck, Compaction!Goto, CompactionInv,
    MaintenanceTyped, TransactionInv, StageInv, Transactions, Runs, Working, Compaction!NoTransaction,
    Compaction!NoRun, Compaction!Pending, Compaction!Digest, Compaction!JournalAcceptsEvents, AskedOnce,
    Compaction!shape, Compaction!journal
<1> QED
  BY <1>1, <1>2, <1>3, <1>4 DEF CompactionInv

LEMMA PauseStep ==
  ASSUME MaintenanceBounds, CompactionInv, Compaction!Pause
  PROVE  CompactionInv' /\ AskedOnce
<1>1. MaintenanceTyped'
  <2>1. tx' \in Transactions
    BY Digesting DEF Compaction!Pause, Compaction!Goto, Transactions, Compaction!Bodies, Compaction!shape,
      Compaction!journal
  <2>2. run' \in Runs
    BY Digesting DEF Compaction!Pause, Compaction!Goto, Runs, Compaction!shape, Compaction!journal, StageInv,
      CompactionInv, MaintenanceTyped, Working
  <2>3. stage' \in Compaction!Steps
    BY DEF Compaction!Pause, Compaction!Goto, Compaction!Steps, CompactionInv, MaintenanceTyped, Compaction!TypeOK,
      Compaction!shape, Compaction!journal
  <2>4. /\ tx'.start <= tx'.end /\ tx'.end <= history' /\ tx'.answered <= tx'.attempts /\ tx'.attempts <= MaxAttempts
    BY Digesting DEF Compaction!Pause, Compaction!Goto, CompactionInv, MaintenanceTyped, Compaction!TypeOK,
      TransactionInv, StageInv, MaintenanceBounds, Compaction!NoTransaction, Transactions, Runs, Compaction!Pending,
      Compaction!shape, Compaction!journal
  <2>5. compacted' \in 0..history'
    BY Digesting DEF Compaction!Pause, Compaction!Goto, CompactionInv, MaintenanceTyped, Compaction!TypeOK,
      MaintenanceBounds, Compaction!shape, Compaction!journal
  <2>6. /\ history' \in 0..MaxHistory /\ facts' \in 0..MaxFacts /\ deaths' \in 0..MaxDeaths
        /\ (queued' => history' < MaxHistory)
    BY Digesting DEF Compaction!Pause, Compaction!Goto, CompactionInv, MaintenanceTyped, Compaction!TypeOK,
      MaintenanceBounds, Compaction!shape, Compaction!journal
  <2>7. /\ queued' \in BOOLEAN /\ known' \in BOOLEAN /\ referenced' \in BOOLEAN /\ reset' \in BOOLEAN
        /\ rebased' \in BOOLEAN /\ summary' \in BOOLEAN
    BY DEF Compaction!Pause, Compaction!Goto, CompactionInv, MaintenanceTyped, Compaction!TypeOK, Compaction!shape,
      Compaction!journal
  <2> QED
    BY <2>1, <2>2, <2>3, <2>4, <2>5, <2>6, <2>7 DEF MaintenanceTyped, Compaction!TypeOK, Transactions
<1>2. TransactionInv'
  BY Digesting DEF Compaction!Pause, Compaction!Goto, CompactionInv, MaintenanceTyped, TransactionInv, StageInv,
    Transactions, Runs, Compaction!Bodies, Compaction!NoTransaction, Compaction!NoRun, Compaction!Pending,
    Compaction!shape, Compaction!journal
<1>3. StageInv'
  BY Digesting DEF Compaction!Pause, Compaction!Goto, CompactionInv, MaintenanceTyped, Compaction!TypeOK,
    TransactionInv, StageInv, Transactions, Runs, Working, Compaction!NoTransaction, Compaction!NoRun,
    Compaction!Pending, Compaction!Digest, Compaction!shape, Compaction!journal
<1>4. Compaction!JournalAcceptsEvents' /\ AskedOnce
  BY Digesting DEF Compaction!Pause, Compaction!Goto, CompactionInv, MaintenanceTyped, TransactionInv, StageInv,
    Transactions, Runs, Working, Compaction!NoTransaction, Compaction!NoRun, Compaction!Pending, Compaction!Digest,
    Compaction!JournalAcceptsEvents, AskedOnce, Compaction!shape, Compaction!journal
<1> QED
  BY <1>1, <1>2, <1>3, <1>4 DEF CompactionInv

LEMMA FinishStep ==
  ASSUME MaintenanceBounds, CompactionInv, Compaction!Finish
  PROVE  CompactionInv' /\ AskedOnce
<1>1. MaintenanceTyped'
  <2>1. tx' \in Transactions
    BY Digesting DEF Compaction!Finish, Compaction!Settle, Compaction!LetThrough, Compaction!Goto, Transactions,
      Compaction!Bodies, Compaction!shape, Compaction!journal
  <2>2. run' \in Runs
    BY Digesting DEF Compaction!Finish, Compaction!Settle, Compaction!LetThrough, Compaction!Goto, Runs,
      Compaction!shape, Compaction!journal, StageInv, CompactionInv, MaintenanceTyped, Working
  <2>3. stage' \in Compaction!Steps
    BY DEF Compaction!Finish, Compaction!Settle, Compaction!LetThrough, Compaction!Goto, Compaction!Steps,
      CompactionInv, MaintenanceTyped, Compaction!TypeOK, Compaction!shape, Compaction!journal
  <2>4. /\ tx'.start <= tx'.end /\ tx'.end <= history' /\ tx'.answered <= tx'.attempts /\ tx'.attempts <= MaxAttempts
    BY Digesting DEF Compaction!Finish, Compaction!Settle, Compaction!LetThrough, Compaction!Goto, CompactionInv,
      MaintenanceTyped, Compaction!TypeOK, TransactionInv, StageInv, MaintenanceBounds, Compaction!NoTransaction,
      Transactions, Runs, Compaction!Pending, Compaction!shape, Compaction!journal
  <2>5. compacted' \in 0..history'
    BY Digesting DEF Compaction!Finish, Compaction!Settle, Compaction!LetThrough, Compaction!Goto, CompactionInv,
      MaintenanceTyped, Compaction!TypeOK, MaintenanceBounds, Compaction!shape, Compaction!journal
  <2>6. /\ history' \in 0..MaxHistory /\ facts' \in 0..MaxFacts /\ deaths' \in 0..MaxDeaths
        /\ (queued' => history' < MaxHistory)
    BY Digesting DEF Compaction!Finish, Compaction!Settle, Compaction!LetThrough, Compaction!Goto, CompactionInv,
      MaintenanceTyped, Compaction!TypeOK, MaintenanceBounds, Compaction!shape, Compaction!journal
  <2>7. /\ queued' \in BOOLEAN /\ known' \in BOOLEAN /\ referenced' \in BOOLEAN /\ reset' \in BOOLEAN
        /\ rebased' \in BOOLEAN /\ summary' \in BOOLEAN
    BY DEF Compaction!Finish, Compaction!Settle, Compaction!LetThrough, Compaction!Goto, CompactionInv,
      MaintenanceTyped, Compaction!TypeOK, Compaction!shape, Compaction!journal
  <2> QED
    BY <2>1, <2>2, <2>3, <2>4, <2>5, <2>6, <2>7 DEF MaintenanceTyped, Compaction!TypeOK, Transactions
<1>2. TransactionInv'
  BY Digesting DEF Compaction!Finish, Compaction!Settle, Compaction!LetThrough, Compaction!Goto, CompactionInv,
    MaintenanceTyped, TransactionInv, StageInv, Transactions, Runs, Compaction!Bodies, Compaction!NoTransaction,
    Compaction!NoRun, Compaction!Pending, Compaction!shape, Compaction!journal
<1>3. StageInv'
  BY Digesting DEF Compaction!Finish, Compaction!Settle, Compaction!LetThrough, Compaction!Goto, CompactionInv,
    MaintenanceTyped, Compaction!TypeOK, TransactionInv, StageInv, Transactions, Runs, Working,
    Compaction!NoTransaction, Compaction!NoRun, Compaction!Pending, Compaction!Digest, Compaction!shape,
    Compaction!journal
<1>4. Compaction!JournalAcceptsEvents' /\ AskedOnce
  BY Digesting DEF Compaction!Finish, Compaction!Settle, Compaction!LetThrough, Compaction!Goto, CompactionInv,
    MaintenanceTyped, TransactionInv, StageInv, Transactions, Runs, Working, Compaction!NoTransaction,
    Compaction!NoRun, Compaction!Pending, Compaction!Digest, Compaction!JournalAcceptsEvents, AskedOnce,
    Compaction!shape, Compaction!journal
<1> QED
  BY <1>1, <1>2, <1>3, <1>4 DEF CompactionInv

LEMMA CrashStep ==
  ASSUME MaintenanceBounds, CompactionInv, Compaction!Crash
  PROVE  CompactionInv' /\ AskedOnce
<1>1. MaintenanceTyped'
  <2>1. tx' \in Transactions
    BY Digesting DEF Compaction!Crash, Compaction!Goto, Transactions, Compaction!Bodies, Compaction!shape,
      Compaction!journal
  <2>2. run' \in Runs
    BY Digesting DEF Compaction!Crash, Compaction!Goto, Runs, Compaction!shape, Compaction!journal, StageInv,
      CompactionInv, MaintenanceTyped, Working
  <2>3. stage' \in Compaction!Steps
    BY DEF Compaction!Crash, Compaction!Goto, Compaction!Steps, CompactionInv, MaintenanceTyped, Compaction!TypeOK,
      Compaction!shape, Compaction!journal
  <2>4. /\ tx'.start <= tx'.end /\ tx'.end <= history' /\ tx'.answered <= tx'.attempts /\ tx'.attempts <= MaxAttempts
    BY Digesting DEF Compaction!Crash, Compaction!Goto, CompactionInv, MaintenanceTyped, Compaction!TypeOK,
      TransactionInv, StageInv, MaintenanceBounds, Compaction!NoTransaction, Transactions, Runs, Compaction!Pending,
      Compaction!shape, Compaction!journal
  <2>5. compacted' \in 0..history'
    BY Digesting DEF Compaction!Crash, Compaction!Goto, CompactionInv, MaintenanceTyped, Compaction!TypeOK,
      MaintenanceBounds, Compaction!shape, Compaction!journal
  <2>6. /\ history' \in 0..MaxHistory /\ facts' \in 0..MaxFacts /\ deaths' \in 0..MaxDeaths
        /\ (queued' => history' < MaxHistory)
    BY Digesting DEF Compaction!Crash, Compaction!Goto, CompactionInv, MaintenanceTyped, Compaction!TypeOK,
      MaintenanceBounds, Compaction!shape, Compaction!journal
  <2>7. /\ queued' \in BOOLEAN /\ known' \in BOOLEAN /\ referenced' \in BOOLEAN /\ reset' \in BOOLEAN
        /\ rebased' \in BOOLEAN /\ summary' \in BOOLEAN
    BY DEF Compaction!Crash, Compaction!Goto, CompactionInv, MaintenanceTyped, Compaction!TypeOK, Compaction!shape,
      Compaction!journal
  <2> QED
    BY <2>1, <2>2, <2>3, <2>4, <2>5, <2>6, <2>7 DEF MaintenanceTyped, Compaction!TypeOK, Transactions
<1>2. TransactionInv'
  BY Digesting DEF Compaction!Crash, Compaction!Goto, CompactionInv, MaintenanceTyped, TransactionInv, StageInv,
    Transactions, Runs, Compaction!Bodies, Compaction!NoTransaction, Compaction!NoRun, Compaction!Pending,
    Compaction!shape, Compaction!journal
<1>3. StageInv'
  BY Digesting DEF Compaction!Crash, Compaction!Goto, CompactionInv, MaintenanceTyped, Compaction!TypeOK,
    TransactionInv, StageInv, Transactions, Runs, Working, Compaction!NoTransaction, Compaction!NoRun,
    Compaction!Pending, Compaction!Digest, Compaction!shape, Compaction!journal
<1>4. Compaction!JournalAcceptsEvents' /\ AskedOnce
  BY Digesting DEF Compaction!Crash, Compaction!Goto, CompactionInv, MaintenanceTyped, TransactionInv, StageInv,
    Transactions, Runs, Working, Compaction!NoTransaction, Compaction!NoRun, Compaction!Pending, Compaction!Digest,
    Compaction!JournalAcceptsEvents, AskedOnce, Compaction!shape, Compaction!journal
<1> QED
  BY <1>1, <1>2, <1>3, <1>4 DEF CompactionInv

LEMMA RestartStep ==
  ASSUME MaintenanceBounds, CompactionInv, Compaction!Restart
  PROVE  CompactionInv' /\ AskedOnce
<1>1. MaintenanceTyped'
  <2>1. tx' \in Transactions
    BY Digesting DEF Compaction!Restart, Compaction!Goto, Transactions, Compaction!Bodies, Compaction!shape,
      Compaction!journal
  <2>2. run' \in Runs
    BY Digesting DEF Compaction!Restart, Compaction!Goto, Runs, Compaction!shape, Compaction!journal, StageInv,
      CompactionInv, MaintenanceTyped, Working
  <2>3. stage' \in Compaction!Steps
    BY DEF Compaction!Restart, Compaction!Goto, Compaction!Steps, CompactionInv, MaintenanceTyped, Compaction!TypeOK,
      Compaction!shape, Compaction!journal
  <2>4. /\ tx'.start <= tx'.end /\ tx'.end <= history' /\ tx'.answered <= tx'.attempts /\ tx'.attempts <= MaxAttempts
    BY Digesting DEF Compaction!Restart, Compaction!Goto, CompactionInv, MaintenanceTyped, Compaction!TypeOK,
      TransactionInv, StageInv, MaintenanceBounds, Compaction!NoTransaction, Transactions, Runs, Compaction!Pending,
      Compaction!shape, Compaction!journal
  <2>5. compacted' \in 0..history'
    BY Digesting DEF Compaction!Restart, Compaction!Goto, CompactionInv, MaintenanceTyped, Compaction!TypeOK,
      MaintenanceBounds, Compaction!shape, Compaction!journal
  <2>6. /\ history' \in 0..MaxHistory /\ facts' \in 0..MaxFacts /\ deaths' \in 0..MaxDeaths
        /\ (queued' => history' < MaxHistory)
    BY Digesting DEF Compaction!Restart, Compaction!Goto, CompactionInv, MaintenanceTyped, Compaction!TypeOK,
      MaintenanceBounds, Compaction!shape, Compaction!journal
  <2>7. /\ queued' \in BOOLEAN /\ known' \in BOOLEAN /\ referenced' \in BOOLEAN /\ reset' \in BOOLEAN
        /\ rebased' \in BOOLEAN /\ summary' \in BOOLEAN
    BY DEF Compaction!Restart, Compaction!Goto, CompactionInv, MaintenanceTyped, Compaction!TypeOK, Compaction!shape,
      Compaction!journal
  <2> QED
    BY <2>1, <2>2, <2>3, <2>4, <2>5, <2>6, <2>7 DEF MaintenanceTyped, Compaction!TypeOK, Transactions
<1>2. TransactionInv'
  BY Digesting DEF Compaction!Restart, Compaction!Goto, CompactionInv, MaintenanceTyped, TransactionInv, StageInv,
    Transactions, Runs, Compaction!Bodies, Compaction!NoTransaction, Compaction!NoRun, Compaction!Pending,
    Compaction!shape, Compaction!journal
<1>3. StageInv'
  BY Digesting DEF Compaction!Restart, Compaction!Goto, CompactionInv, MaintenanceTyped, Compaction!TypeOK,
    TransactionInv, StageInv, Transactions, Runs, Working, Compaction!NoTransaction, Compaction!NoRun,
    Compaction!Pending, Compaction!Digest, Compaction!shape, Compaction!journal
<1>4. Compaction!JournalAcceptsEvents' /\ AskedOnce
  BY Digesting DEF Compaction!Restart, Compaction!Goto, CompactionInv, MaintenanceTyped, TransactionInv, StageInv,
    Transactions, Runs, Working, Compaction!NoTransaction, Compaction!NoRun, Compaction!Pending, Compaction!Digest,
    Compaction!JournalAcceptsEvents, AskedOnce, Compaction!shape, Compaction!journal
<1> QED
  BY <1>1, <1>2, <1>3, <1>4 DEF CompactionInv

LEMMA NextCompaction ==
  ASSUME MaintenanceBounds, CompactionInv, [Compaction!Next]_(Compaction!vars)
  PROVE  CompactionInv' /\ AskedOnce
<1>1. CASE Compaction!ChangeFacts BY <1>1, ChangeFactsStep
<1>2. CASE Compaction!Exchange BY <1>2, ExchangeStep
<1>3. CASE Compaction!Queue BY <1>3, QueueStep
<1>4. CASE Compaction!BeginStep BY <1>4, BeginStepStep
<1>5. CASE Compaction!Maintain BY <1>5, MaintainStep
<1>6. CASE Compaction!Compact BY <1>6, CompactStep
<1>7. CASE Compaction!EndTurn BY <1>7, EndTurnStep
<1>8. CASE Compaction!DropManual BY <1>8, DropManualStep
<1>9. CASE Compaction!SkipUnchanged BY <1>9, SkipUnchangedStep
<1>10. CASE Compaction!Reference BY <1>10, ReferenceStep
<1>11. CASE Compaction!ReferenceNothing BY <1>11, ReferenceNothingStep
<1>12. CASE Compaction!Gate BY <1>12, GateStep
<1>13. CASE Compaction!SelectBoundary BY <1>13, SelectBoundaryStep
<1>14. CASE Compaction!Start BY <1>14, StartStep
<1>15. CASE Compaction!NoBudget BY <1>15, NoBudgetStep
<1>16. CASE Compaction!Resume BY <1>16, ResumeStep
<1>17. CASE Compaction!Validate BY <1>17, ValidateStep
<1>18. CASE Compaction!Salvage BY <1>18, SalvageStep
<1>19. CASE Compaction!CannotAsk BY <1>19, CannotAskStep
<1>20. CASE Compaction!Ask BY <1>20, AskStep
<1>21. CASE Compaction!Answer BY <1>21, AnswerStep
<1>22. CASE Compaction!ResetInRequest BY <1>22, ResetInRequestStep
<1>23. CASE Compaction!TransportFails BY <1>23, TransportFailsStep
<1>24. CASE Compaction!CapacityFails BY <1>24, CapacityFailsStep
<1>25. CASE Compaction!Abort BY <1>25, AbortStep
<1>26. CASE Compaction!Decline BY <1>26, DeclineStep
<1>27. CASE Compaction!Accept BY <1>27, AcceptStep
<1>28. CASE Compaction!Commit BY <1>28, CommitStep
<1>29. CASE Compaction!RecoverManual BY <1>29, RecoverManualStep
<1>30. CASE Compaction!Evict BY <1>30, EvictStep
<1>31. CASE Compaction!AbandonAndGoOn BY <1>31, AbandonAndGoOnStep
<1>32. CASE Compaction!Reset BY <1>32, ResetStep
<1>33. CASE Compaction!Pause BY <1>33, PauseStep
<1>34. CASE Compaction!Finish BY <1>34, FinishStep
<1>35. CASE Compaction!Crash BY <1>35, CrashStep
<1>36. CASE Compaction!Restart BY <1>36, RestartStep
<1>37. CASE UNCHANGED Compaction!vars
  BY <1>37, Digesting DEF Compaction!vars, Compaction!journal, CompactionInv, MaintenanceTyped, Compaction!TypeOK,
    TransactionInv, StageInv, Compaction!JournalAcceptsEvents, AskedOnce,
     Compaction!Pending, Compaction!Digest, Runs
<1> QED
  BY <1>1, <1>2, <1>3, <1>4, <1>5, <1>6, <1>7, <1>8, <1>9, <1>10, <1>11, <1>12, <1>13, <1>14, <1>15, <1>16, <1>17,
    <1>18, <1>19, <1>20, <1>21, <1>22, <1>23, <1>24, <1>25, <1>26, <1>27, <1>28, <1>29, <1>30, <1>31, <1>32, <1>33,
    <1>34, <1>35, <1>36, <1>37 DEF Compaction!Next, Compaction!Work

-----------------------------------------------------------------------------
(* The components side by side *)

LEMMA JournalRuns == SideBySide => Journal!Spec
<1>1. Start => Journal!Init
  BY DEF Start
<1>2. [Move]_all => [Journal!Next]_(Journal!vars)
  BY DEF Move, LockMoves, JournalMoves, CompactionMoves, all, journal, Journal!vars, Journal!file, Journal!rows
<1> QED
  BY <1>1, <1>2, PTL DEF SideBySide, Journal!Spec

LEMMA JournalNames == JournalConstants
BY JournalAssumption DEF JournalConstants

LEMMA MaintenanceIsSafe ==
  /\ SideBySide => Compaction!Init
  /\ SideBySide => [][Compaction!Next]_(Compaction!vars)
<1>1. Start => Compaction!Init
  BY DEF Start
<1>2. [Move]_all => [Compaction!Next]_(Compaction!vars)
  BY DEF Move, LockMoves, JournalMoves, CompactionMoves, all, maintenance, Compaction!vars, Compaction!journal
<1> QED
  BY <1>1, <1>2, PTL DEF SideBySide

\* The inductive invariant: at most the last line cannot be read, and what is
\* acknowledged stands among the lines the disk holds (EventJournal).
THEOREM JournalInvariant == Journal!Spec => []JournalInv
<1>1. Journal!Init => JournalInv BY InitInv, JournalNames
<1>2. JournalInv /\ [Journal!Next]_(Journal!vars) => JournalInv' BY NextPreserves, JournalNames
<1> QED BY <1>1, <1>2, PTL DEF Journal!Spec

\* Every variable of the thread has its type; a thread with an index or a lease
\* has a row.
THEOREM ThreadJournalTypeCorrect == Journal!Spec => []Journal!TypeOK
<1>1. JournalInv => Journal!TypeOK BY DEF JournalInv
<1> QED BY <1>1, JournalInvariant, PTL

\* No failed or torn write, crash or power loss leaves a journal that cannot be
\* read (scanFile): all that is ever damaged is its last line.
THEOREM JournalIsReadable == Journal!Spec => []~Journal!Corrupt
<1>1. JournalInv => ~Journal!Corrupt BY JournalShape DEF Shape
<1> QED BY <1>1, JournalInvariant, PTL

\* The journal is a log that loses nothing appendEvent has returned, until the
\* thread is deleted (appendEvent, PowerLoss, removePrivateDirectory).
THEOREM JournalImplementsLog == SideBySide => ImplementsLog
<1>1. Journal!Init => Journal!Log!Init BY InitLog, JournalNames
<1>2. JournalInv /\ JournalInv' /\ [Journal!Next]_(Journal!vars) => [Journal!Log!Next]_(Journal!Log!logVars)
  BY StepImplements, JournalNames
<1> QED BY <1>1, <1>2, JournalInvariant, JournalRuns, PTL DEF ImplementsLog, Journal!ImplementsLog, Journal!Log!Spec,
  Journal!Spec

\* The journal takes every event that maintenance derives from memory, so no turn fails on its own bookkeeping, whatever
\* crashes: but when an adjustment was queued since the last drain, or facts changed during a request that failed
\* (runtime/context-maintenance.ts and the reader of its events).
THEOREM EventsAccepted == SideBySide => []JournalAcceptsEvents
<1>1. MaintenanceBounds
  BY MaintenanceAssumption DEF MaintenanceBounds
<1>2. MaintenanceBounds => (Compaction!Init => CompactionInv)
  BY InitCompaction
<1>3. MaintenanceBounds /\ CompactionInv /\ [Compaction!Next]_(Compaction!vars) => CompactionInv'
  BY NextCompaction
<1>4. CompactionInv => JournalAcceptsEvents
  BY DEF CompactionInv, JournalAcceptsEvents
<1> QED
  BY <1>1, <1>2, <1>3, <1>4, MaintenanceIsSafe, PTL

\* No request for a summary is sent while an earlier one of the same transaction has no answer: after a crash the
\* process does not know whether it was answered and does not ask again.
THEOREM AskedAtMostOnce == SideBySide => NeverAskedAgain
<1>1. MaintenanceBounds
  BY MaintenanceAssumption DEF MaintenanceBounds
<1>2. MaintenanceBounds => (Compaction!Init => CompactionInv)
  BY InitCompaction
<1>3. MaintenanceBounds /\ CompactionInv /\ [Compaction!Next]_(Compaction!vars) => CompactionInv' /\ AskedOnce
  BY NextCompaction
<1>4. AskedOnce => [run'.requests > run.requests => tx.attempts = tx.answered]_(Compaction!vars)
  BY DEF AskedOnce
<1> QED
  BY <1>1, <1>2, <1>3, <1>4, MaintenanceIsSafe, PTL DEF NeverAskedAgain, Compaction!NeverAskedAgain
=============================================================================
