---------------------------- MODULE ThreadJournal ----------------------------
(***************************************************************************)
(* One thread on disk: its event journal (EventJournal), the rows SQLite    *)
(* derives from it (ThreadProjection), the lease of the process that has it *)
(* open, and its deletion (ThreadStore, deleteThreadTree). Transactions     *)
(* exclude one another (DatabaseLock) and are undone when they fail; what    *)
(* they wrote to the journal is not. A journal line is readable when it is   *)
(* whole and numbered one more than the line before it.                      *)
(***************************************************************************)
EXTENDS Integers, Sequences, FiniteSets

CONSTANTS
  Processes,
  MaxEvents,  \* bound: events ever written
  MaxFaults,  \* bound: failed writes, crashes and power losses
  None,       \* no holder
  Gone        \* a holder that died

VARIABLES
  lines,     \* the journal file
  ended,     \* its last line ends in a newline
  synced,    \* how many of its lines the disk is known to hold
  row,       \* the thread has a row in SQLite
  indexed,   \* the rows of item_index
  lease,     \* the row of thread_leases
  pc,        \* what each process does with the thread
  snapshot,  \* the events a process has read and not yet projected
  current,   \* the event a process appends
  acked,     \* events whose append has returned
  drawn,     \* event ids used
  deletion,  \* "none", "removed" with the journal gone, "done" when reported
  faults

file == <<lines, ended, synced>>
rows == <<row, indexed, lease>>
vars == <<file, rows, pc, snapshot, current, acked, drawn, deletion, faults>>

Ids == 1 .. MaxEvents
Entries == [id : Ids, seq : Nat]
Lines == [id : Ids, seq : Nat, whole : BOOLEAN]
NoEntry == [id |-> 1, seq |-> 0]

Places == {"out", "opening", "reading", "open", "written", "synced", "reconciling",
           "deleting", "purged", "undoing"}

\* A transaction is under way.
InTransaction(p) == pc[p] \in {"written", "synced"}
Free == \A p \in Processes : ~InTransaction(p)

Goto(p, place) == pc' = [pc EXCEPT ![p] = place]

-----------------------------------------------------------------------------
(* scanFile *)

Unreadable == {i \in DOMAIN lines : ~lines[i].whole \/ lines[i].seq # i}

\* A line that cannot be read is a damaged tail when it is the last one.
Corrupt == \E i \in Unreadable : i < Len(lines)
DamagedTail == ~Corrupt /\ Unreadable # {}

Entry(line) == [id |-> line.id, seq |-> line.seq]
Readable ==
  LET n == IF Corrupt THEN 0 ELSE IF DamagedTail THEN Len(lines) - 1 ELSE Len(lines)
  IN [i \in 1 .. n |-> Entry(lines[i])]

EntriesOf(events) == {events[i] : i \in DOMAIN events}

TypeOK ==
  /\ lines \in Seq(Lines)
  /\ ended \in BOOLEAN /\ synced \in 0 .. Len(lines)
  /\ row \in BOOLEAN /\ indexed \subseteq Entries
  /\ indexed # {} \/ lease # None => row
  /\ lease \in Processes \cup {None, Gone}
  /\ pc \in [Processes -> Places]
  /\ snapshot \in [Processes -> Seq(Entries)]
  /\ current \in [Processes -> Entries]
  /\ acked \subseteq Ids /\ drawn \in Ids
  /\ deletion \in {"none", "removed", "done"}
  /\ faults \in 0 .. MaxFaults

\* A thread that create has written.
Init ==
  /\ lines = <<[id |-> 1, seq |-> 1, whole |-> TRUE]>> /\ ended = TRUE /\ synced = 1
  /\ row = TRUE /\ indexed = {[id |-> 1, seq |-> 1]} /\ lease = None
  /\ pc = [p \in Processes |-> "out"]
  /\ snapshot = [p \in Processes |-> <<>>]
  /\ current = [p \in Processes |-> NoEntry]
  /\ acked = {1} /\ drawn = 1
  /\ deletion = "none"
  /\ faults = 0

Fault == faults < MaxFaults /\ faults' = faults + 1

-----------------------------------------------------------------------------
(* Projection *)

\* item_index ignores an event it has and rejects another with its number.
Conflicts(events) ==
  \E e \in events, x \in indexed : x.seq = e.seq /\ x.id # e.id

Project(events) == row' = TRUE /\ indexed' = indexed \cup events

-----------------------------------------------------------------------------
(* Opening and closing *)

\* acquireThreadLease: a thread without a row is projected from its journal.
Acquire(p, place) ==
  /\ pc[p] = "out" /\ Free
  /\ lease \in {None, Gone}
  /\ IF row THEN UNCHANGED <<row, indexed>>
     ELSE Readable # <<>> /\ Project(EntriesOf(Readable))
  /\ lease' = p
  /\ Goto(p, place)
  /\ UNCHANGED <<file, snapshot, current, acked, drawn, deletion, faults>>

Open(p) == Acquire(p, "opening")

GiveBack(p) == lease' = IF lease = p THEN None ELSE lease

\* get: the journal is read before the transaction that projects it.
Read(p) ==
  /\ pc[p] = "opening" /\ Readable # <<>>
  /\ snapshot' = [snapshot EXCEPT ![p] = Readable]
  /\ Goto(p, "reading")
  /\ UNCHANGED <<file, rows, current, acked, drawn, deletion, faults>>

\* The journal is corrupt, or gone.
ReadFails(p) ==
  /\ pc[p] = "opening" /\ Readable = <<>>
  /\ GiveBack(p)
  /\ Goto(p, "out")
  /\ UNCHANGED <<file, row, indexed, snapshot, current, acked, drawn, deletion, faults>>

Reconcile(p) ==
  /\ pc[p] = "reading" /\ Free
  /\ IF Conflicts(EntriesOf(snapshot[p]))
     THEN GiveBack(p) /\ Goto(p, "out") /\ UNCHANGED <<row, indexed>>
     ELSE Project(EntriesOf(snapshot[p])) /\ Goto(p, "open") /\ UNCHANGED lease
  /\ snapshot' = [snapshot EXCEPT ![p] = <<>>]
  /\ UNCHANGED <<file, current, acked, drawn, deletion, faults>>

Close(p) ==
  /\ pc[p] = "open"
  /\ GiveBack(p)
  /\ Goto(p, "out")
  /\ UNCHANGED <<file, row, indexed, snapshot, current, acked, drawn, deletion, faults>>

-----------------------------------------------------------------------------
(* appendEvent *)

\* A damaged tail is cut off, a last line without a newline is given one.
Kept == IF DamagedTail THEN SubSeq(lines, 1, Len(lines) - 1) ELSE lines

\* Mutant: The line is added without looking at how the last one ends.
GluedTo(event) ==
  IF ended \/ DamagedTail THEN Append(Kept, event)
  ELSE [Kept EXCEPT ![Len(Kept)].whole = FALSE]

Added(event) == Append(Kept, event)

AppendWrite(p) ==
  /\ pc[p] = "open" /\ Free
  /\ row /\ Readable # <<>> /\ drawn < MaxEvents
  /\ drawn' = drawn + 1
  /\ LET event == [id |-> drawn + 1, seq |-> Len(Readable) + 1]
         line(w) == [id |-> event.id, seq |-> event.seq, whole |-> w]
         short == IF synced > Len(Kept) THEN Len(Kept) ELSE synced
     IN \/ /\ lines' = Added(line(TRUE)) /\ ended' = TRUE
           /\ current' = [current EXCEPT ![p] = event]
           /\ Goto(p, "written")
           /\ synced' = short /\ UNCHANGED faults
        \/ \* The write fails, or part of it: the transaction is undone.
           /\ Fault
           /\ \/ lines' = Kept /\ ended' \in {ended \/ DamagedTail, TRUE}
              \/ \E w \in BOOLEAN : lines' = Added(line(w)) /\ ended' = FALSE
           /\ synced' = short /\ UNCHANGED <<current, pc>>
  /\ UNCHANGED <<rows, snapshot, acked, deletion>>

\* flush; when it fails the transaction is undone and the line stays.
Sync(p) ==
  /\ pc[p] = "written"
  /\ \/ synced' = Len(lines) /\ Goto(p, "synced") /\ UNCHANGED faults
     \/ Fault /\ Goto(p, "open") /\ UNCHANGED synced
  /\ UNCHANGED <<lines, ended, rows, snapshot, current, acked, drawn, deletion>>

\* The event is indexed and the transaction committed. When either fails the
\* event is recorded all the same, and the index is left to reconcileProjection.
Commit(p) ==
  /\ pc[p] = "synced"
  /\ \/ /\ ~Conflicts({current[p]})
        /\ Project({current[p]})
        /\ acked' = acked \cup {current[p].id}
        /\ Goto(p, "open") /\ UNCHANGED faults
     \/ /\ IF Conflicts({current[p]}) THEN UNCHANGED faults ELSE Fault
        /\ Goto(p, "reconciling") /\ UNCHANGED <<row, indexed, acked>>
  /\ UNCHANGED <<file, lease, snapshot, current, drawn, deletion>>

\* A failure is left to the next get.
Repair(p) ==
  /\ pc[p] = "reconciling" /\ Free
  /\ IF Conflicts(EntriesOf(Readable)) THEN UNCHANGED <<row, indexed>>
     ELSE Project(EntriesOf(Readable))
  /\ acked' = acked \cup {current[p].id}
  /\ Goto(p, "open")
  /\ UNCHANGED <<file, lease, snapshot, current, drawn, deletion, faults>>

-----------------------------------------------------------------------------
(* deleteThreadTree *)

\* A thread that is listed is leased.
StartDelete(p) == row /\ Acquire(p, "deleting")

\* Mutant: The lease goes with its thread, the index stays.
PurgeKeepsIndex(p) ==
  /\ pc[p] = "deleting" /\ Free
  /\ \/ /\ row' = FALSE /\ lease' = None
        /\ Goto(p, "purged") /\ UNCHANGED <<indexed, faults>>
     \/ Fault /\ Goto(p, "undoing") /\ UNCHANGED rows
  /\ UNCHANGED <<file, snapshot, current, acked, drawn, deletion>>

\* deleteStoredThreads: the thread's row goes, and its index and lease with it.
Purge(p) ==
  /\ pc[p] = "deleting" /\ Free
  /\ \/ /\ row' = FALSE /\ indexed' = {} /\ lease' = None
        /\ Goto(p, "purged") /\ UNCHANGED faults
     \/ Fault /\ Goto(p, "undoing") /\ UNCHANGED rows
  /\ UNCHANGED <<file, snapshot, current, acked, drawn, deletion>>

\* removePrivateDirectory, which may fail before or after the journal is gone.
RemoveDirectory(p) ==
  /\ pc[p] = "purged"
  /\ \/ /\ lines' = <<>> /\ ended' = TRUE /\ synced' = 0
        /\ deletion' = "done" /\ Goto(p, "out") /\ UNCHANGED faults
     \/ /\ Fault /\ Goto(p, "undoing")
        /\ \/ UNCHANGED <<file, deletion>>
           \/ lines' = <<>> /\ ended' = TRUE /\ synced' = 0 /\ deletion' = "removed"
  /\ UNCHANGED <<rows, snapshot, current, acked, drawn>>

\* A failed deletion projects what is left of the thread and gives its lease back.
UndoDelete(p) ==
  /\ pc[p] = "undoing" /\ Free
  /\ IF Readable = <<>> \/ Conflicts(EntriesOf(Readable))
     THEN UNCHANGED rows
     ELSE Project(EntriesOf(Readable)) /\ GiveBack(p)
  /\ Goto(p, "out")
  /\ UNCHANGED <<file, snapshot, current, acked, drawn, deletion, faults>>

-----------------------------------------------------------------------------
(* Crashes *)

\* A holder is known by its identity, so the lease of a dead one can be taken.
Crash(p) ==
  /\ pc[p] # "out" /\ Fault
  /\ lease' = IF lease = p THEN Gone ELSE lease
  /\ Goto(p, "out")
  /\ snapshot' = [snapshot EXCEPT ![p] = <<>>]
  /\ UNCHANGED <<file, row, indexed, current, acked, drawn, deletion>>

\* The machine stops: lines the disk does not hold yet are lost, or torn.
PowerLoss ==
  /\ Fault
  /\ \E n \in synced .. Len(lines) :
       \/ /\ lines' = SubSeq(lines, 1, n)
          /\ ended' = (ended \/ n < Len(lines))
          /\ synced' = n
       \/ /\ n < Len(lines)
          /\ lines' = [SubSeq(lines, 1, n + 1) EXCEPT ![n + 1].whole = FALSE]
          /\ ended' = FALSE /\ synced' = n + 1
  /\ lease' = IF lease = None THEN None ELSE Gone
  /\ pc' = [p \in Processes |-> "out"]
  /\ snapshot' = [p \in Processes |-> <<>>]
  /\ UNCHANGED <<row, indexed, current, acked, drawn, deletion>>

Next ==
  \/ PowerLoss
  \/ \E p \in Processes :
       \/ Open(p) \/ Read(p) \/ ReadFails(p) \/ Reconcile(p) \/ Close(p)
       \/ AppendWrite(p) \/ Sync(p) \/ Commit(p) \/ Repair(p)
       \/ StartDelete(p) \/ Purge(p) \/ RemoveDirectory(p) \/ UndoDelete(p)
       \/ Crash(p)

Spec == Init /\ [][Next]_vars

-----------------------------------------------------------------------------
(* Properties *)

Log == INSTANCE EventLog WITH
  Events <- Ids,
  log <- [i \in DOMAIN Readable |-> Readable[i].id],
  promised <- IF deletion = "none" THEN acked ELSE {}

\* The journal keeps what appendEvent returned: failed and torn writes, crashes
\* between the write, the sync and the commit, and power losses take away no
\* acknowledged event, change no order and leave no journal that cannot be read.
ImplementsLog == Log!Spec

\* A deleted conversation does not come back.
DeletedStaysDeleted == deletion = "done" => ~row
=============================================================================
