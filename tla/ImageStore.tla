----------------------------- MODULE ImageStore -----------------------------
(***************************************************************************)
(* The attachments of conversations (ImageStore and its users), in a data  *)
(* directory that several processes share. An image is a file; until its   *)
(* message is in a journal a marker names the process that may still need  *)
(* it. Every process collects garbage when it starts and when it ends,     *)
(* under a lock that a commit takes as well, and that is taken from a dead *)
(* process after a grace period.                                           *)
(*                                                                         *)
(* Ages are "new" and "old": within the grace period or beyond it. Time    *)
(* passes the grace period only while no operation is under way.           *)
(***************************************************************************)
EXTENDS Naturals

CONSTANTS
  Images,
  Processes,
  Nobody, Dead,  \* no process; a process that has ended
  MaxAges,       \* bound: times the grace period passes
  MaxFaults      \* bound: crashes and failed calls

VARIABLES
  file, marker,  \* the age of each, or "none"
  owner,         \* the process whose lease a marker is under
  journal,       \* images that journals refer to
  lock,          \* .gc-lock: its owner and whether it is old
  draft,         \* memory: images of each process's next message (pendingImages)
  proc,          \* what each process does
  ages, faults

disk == <<file, marker, owner, lock>>
vars == <<disk, journal, draft, proc, ages, faults>>

Age3 == {"none", "new", "old"}
Free == [by |-> Nobody, old |-> FALSE]
Resting == {"down", "idle", "turn", "closing"}
At(p, S) == proc[p].at \in S
Down == [at |-> "down", goal |-> "stop", todo |-> {}, seen |-> {}, kept |-> {}]

Doing ==
  [at : Resting \cup {"importing", "removing", "commit", "create", "create again", "steal",
                    "steal again", "snapshot", "examine", "sweep", "unmark", "release"},
   goal : {"start", "commit", "stop"},
   todo : SUBSET Images, seen : SUBSET Images, kept : SUBSET Images]

TypeOK ==
  /\ file \in [Images -> Age3] /\ marker \in [Images -> Age3]
  /\ owner \in [Images -> Processes \cup {Nobody, Dead}]
  /\ journal \subseteq Images /\ draft \in [Processes -> SUBSET Images]
  /\ lock \in [by : Processes \cup {Nobody, Dead}, old : BOOLEAN]
  /\ proc \in [Processes -> Doing]
  /\ ages \in 0..MaxAges /\ faults \in 0..MaxFaults

Init ==
  /\ file = [i \in Images |-> "none"] /\ marker = [i \in Images |-> "none"]
  /\ owner = [i \in Images |-> Nobody]
  /\ journal = {} /\ lock = Free
  /\ draft = [p \in Processes |-> {}]
  /\ proc = [p \in Processes |-> Down]
  /\ ages = 0 /\ faults = 0

Goto(p, at) == proc' = [proc EXCEPT ![p].at = at]
Fault == faults < MaxFaults /\ faults' = faults + 1

-----------------------------------------------------------------------------
(* A message and its images *)

\* importBuffer: the file, and then its marker.
Import(p, i) ==
  /\ At(p, {"idle"}) /\ owner[i] = Nobody
  /\ file' = [file EXCEPT ![i] = "new"] /\ owner' = [owner EXCEPT ![i] = p]
  /\ proc' = [proc EXCEPT ![p].at = "importing", ![p].todo = {i}]
  /\ UNCHANGED <<marker, lock, journal, draft, ages, faults>>

CreatePendingMarker(p) ==
  /\ At(p, {"importing"})
  /\ \/ /\ marker' = [i \in Images |-> IF i \in proc[p].todo THEN "new" ELSE marker[i]]
        /\ draft' = [draft EXCEPT ![p] = @ \cup proc[p].todo]
        /\ UNCHANGED <<file, faults>>
     \/ /\ Fault /\ file' = [i \in Images |-> IF i \in proc[p].todo THEN "none" ELSE file[i]]
        /\ UNCHANGED <<marker, draft>>
  /\ proc' = [proc EXCEPT ![p].at = "idle", ![p].todo = {}]
  /\ UNCHANGED <<owner, lock, journal, ages>>

\* recordTurnStart, submitAdjustment: the message is durable before its images are
\* committed. Not every draft goes with it.
Submit(p) ==
  /\ At(p, {"idle", "turn"})
  /\ \E S \in (SUBSET draft[p]) \ {{}} :
       /\ journal' = journal \cup S
       /\ proc' = [proc EXCEPT ![p].at = "commit", ![p].todo = S]
  /\ UNCHANGED <<disk, draft, ages, faults>>

\* commit verifies the file; an image that is gone fails the turn.
Commit(p) ==
  /\ At(p, {"commit"})
  /\ IF proc[p].todo = {} THEN Goto(p, "turn")
     ELSE \E i \in proc[p].todo :
            proc' = [proc EXCEPT ![p] =
              IF file[i] = "none" THEN [@ EXCEPT !.at = "turn", !.todo = {}]
              ELSE [@ EXCEPT !.at = "create", !.goal = "commit", !.kept = {i}]]
  /\ UNCHANGED <<disk, journal, draft, ages, faults>>

\* With the lock the marker goes.
Unmark(p) ==
  /\ At(p, {"unmark"})
  /\ marker' = [i \in Images |-> IF i \in proc[p].kept THEN "none" ELSE marker[i]]
  /\ Goto(p, "release")
  /\ UNCHANGED <<file, owner, lock, journal, draft, ages, faults>>

\* What fails after the turn leaves its images with the next message.
EndTurn(p) ==
  /\ At(p, {"turn"})
  /\ \/ draft' = [draft EXCEPT ![p] = @ \ journal] /\ UNCHANGED faults
     \/ Fault /\ UNCHANGED draft
  /\ Goto(p, "idle")
  /\ UNCHANGED <<disk, journal, ages>>

\* remove: of use only while this process's marker is there; first the file.
Discard(p) ==
  /\ At(p, {"idle", "closing"})
  /\ \E i \in draft[p] :
       /\ draft' = [draft EXCEPT ![p] = @ \ {i}]
       /\ IF marker[i] # "none" /\ owner[i] = p /\ file[i] # "none"
          THEN /\ file' = [file EXCEPT ![i] = "none"]
               /\ proc' = [proc EXCEPT ![p].goal = IF At(p, {"idle"}) THEN "start" ELSE "stop",
                                       ![p].at = "removing", ![p].kept = {i}]
          ELSE UNCHANGED <<file, proc>>
  /\ UNCHANGED <<marker, owner, lock, journal, ages, faults>>

RemoveMarker(p) ==
  /\ At(p, {"removing"})
  /\ marker' = [i \in Images |-> IF i \in proc[p].kept THEN "none" ELSE marker[i]]
  /\ proc' = [proc EXCEPT ![p].at = IF proc[p].goal = "stop" THEN "closing" ELSE "idle", ![p].kept = {}]
  /\ UNCHANGED <<file, owner, lock, journal, draft, ages, faults>>

-----------------------------------------------------------------------------
(* The lock *)

Held(goal) == IF goal = "commit" THEN "unmark" ELSE "snapshot"
After(goal) == CASE goal = "start" -> "idle" [] goal = "commit" -> "commit" [] goal = "stop" -> "down"

\* The operation is over: it has released the lock, or could not get it.
Done(p) ==
  LET r == proc[p]
      left == IF r.goal = "commit" THEN r.todo \ r.kept ELSE {}
  IN  /\ proc' = [proc EXCEPT ![p] = IF r.goal = "stop" THEN Down
                    ELSE [at |-> After(r.goal), goal |-> "start", todo |-> left, seen |-> {}, kept |-> {}]]
      /\ owner' = IF r.goal = "stop" THEN [i \in Images |-> IF owner[i] = p THEN Dead ELSE owner[i]] ELSE owner

\* acquireGarbageCollectionLock: create the file, or look at the one that is there.
Create(p) ==
  /\ At(p, {"create", "create again"})
  /\ IF lock.by = Nobody
     THEN lock' = [by |-> p, old |-> FALSE] /\ Goto(p, Held(proc[p].goal)) /\ UNCHANGED owner
     ELSE /\ UNCHANGED lock
          /\ IF lock.by = Dead /\ lock.old
             THEN Goto(p, IF At(p, {"create"}) THEN "steal" ELSE "steal again") /\ UNCHANGED owner
             ELSE Done(p)
  /\ UNCHANGED <<file, marker, journal, draft, ages, faults>>

\* The rename takes the file that is there now.
Steal(p) ==
  /\ At(p, {"steal", "steal again"})
  /\ lock' = Free
  /\ IF At(p, {"steal"}) THEN Goto(p, "create again") /\ UNCHANGED owner ELSE Done(p)
  /\ UNCHANGED <<file, marker, journal, draft, ages, faults>>

\* A lock that is another's by now stays.
Release(p) ==
  /\ At(p, {"release"})
  /\ lock' = IF lock.by = p THEN Free ELSE lock
  /\ Done(p)
  /\ UNCHANGED <<file, marker, journal, draft, ages, faults>>

-----------------------------------------------------------------------------
(* Garbage collection *)

Snapshot(p) ==
  /\ At(p, {"snapshot"})
  /\ proc' = [proc EXCEPT ![p] = [@ EXCEPT !.at = "examine", !.seen = journal, !.todo = Images, !.kept = {}]]
  /\ UNCHANGED <<disk, journal, draft, ages, faults>>

\* Mutant: a marker beyond the grace period is nobody's.
AbandonedOld(p, i) == (proc[p].goal = "stop" /\ owner[i] = p) \/ marker[i] = "old"

\* A marker whose image nobody can want any more.
Abandoned(p, i) == (proc[p].goal = "stop" /\ owner[i] = p) \/ (owner[i] = Dead /\ marker[i] = "old")

\* The markers, in any order.
Examine(p) ==
  /\ At(p, {"examine"})
  /\ IF proc[p].todo = {}
     THEN proc' = [proc EXCEPT ![p].at = "sweep", ![p].todo = Images] /\ UNCHANGED <<file, marker>>
     ELSE \E i \in proc[p].todo :
            LET referenced == i \in proc[p].seen
                recovered == referenced /\ file[i] # "none"
                abandoned == ~referenced /\ Abandoned(p, i)
                keep == marker[i] # "none" /\ ~recovered /\ ~abandoned
            IN  /\ marker' = IF recovered \/ abandoned THEN [marker EXCEPT ![i] = "none"] ELSE marker
                /\ file' = IF abandoned /\ marker[i] # "none" THEN [file EXCEPT ![i] = "none"] ELSE file
                /\ proc' = [proc EXCEPT ![p].todo = @ \ {i}, ![p].kept = IF keep THEN @ \cup {i} ELSE @]
  /\ UNCHANGED <<owner, lock, journal, draft, ages, faults>>

\* The files that neither the snapshot nor a marker protects.
Sweep(p) ==
  /\ At(p, {"sweep"})
  /\ IF proc[p].todo = {} THEN Goto(p, "release") /\ UNCHANGED file
     ELSE \E i \in proc[p].todo :
            /\ file' = IF i \notin proc[p].seen \cup proc[p].kept /\ file[i] = "old"
                       THEN [file EXCEPT ![i] = "none"] ELSE file
            /\ proc' = [proc EXCEPT ![p].todo = @ \ {i}]
  /\ UNCHANGED <<marker, owner, lock, journal, draft, ages, faults>>

-----------------------------------------------------------------------------
(* Processes and time *)

Start(p) ==
  /\ At(p, {"down"})
  /\ proc' = [proc EXCEPT ![p].at = "create", ![p].goal = "start"]
  /\ UNCHANGED <<disk, journal, draft, ages, faults>>

\* performCloseAsync: a running turn is cancelled, drafts are discarded.
Close(p) ==
  /\ At(p, {"idle", "turn"})
  /\ Goto(p, "closing")
  /\ UNCHANGED <<disk, journal, draft, ages, faults>>

Shutdown(p) ==
  /\ At(p, {"closing"}) /\ draft[p] = {}
  /\ proc' = [proc EXCEPT ![p].at = "create", ![p].goal = "stop"]
  /\ UNCHANGED <<disk, journal, draft, ages, faults>>

Crash(p) ==
  /\ ~At(p, {"down"}) /\ Fault
  /\ proc' = [proc EXCEPT ![p] = Down]
  /\ owner' = [i \in Images |-> IF owner[i] = p THEN Dead ELSE owner[i]]
  /\ lock' = IF lock.by = p THEN [lock EXCEPT !.by = Dead] ELSE lock
  /\ draft' = [draft EXCEPT ![p] = {}]
  /\ UNCHANGED <<file, marker, journal, ages>>

\* The grace period passes.
Older(age) == IF age = "new" THEN "old" ELSE age
Age ==
  /\ ages < MaxAges /\ \A p \in Processes : At(p, Resting)
  /\ ages' = ages + 1
  /\ file' = [i \in Images |-> Older(file[i])] /\ marker' = [i \in Images |-> Older(marker[i])]
  /\ lock' = [lock EXCEPT !.old = lock.by # Nobody]
  /\ UNCHANGED <<owner, journal, draft, proc, faults>>

Next ==
  \/ Age
  \/ \E p \in Processes :
       \/ (\E i \in Images : Import(p, i)) \/ CreatePendingMarker(p) \/ Submit(p) \/ Commit(p) \/ Unmark(p)
       \/ EndTurn(p) \/ Discard(p) \/ RemoveMarker(p) \/ Create(p) \/ Steal(p) \/ Release(p)
       \/ Snapshot(p) \/ Examine(p) \/ Sweep(p) \/ Start(p) \/ Close(p) \/ Shutdown(p) \/ Crash(p)

Spec == Init /\ [][Next]_vars

-----------------------------------------------------------------------------
(* Properties *)

\* Whoever collects, commits, dies or takes the lock meanwhile, an image that was
\* attached to a message not sent yet is there when it is sent (remove,
\* runGarbageCollection).
StagedIsKept == \A p \in Processes : \A i \in draft[p] \ journal : file[i] # "none"
=============================================================================
