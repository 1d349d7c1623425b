------------------------ MODULE TaskGraphOperations ------------------------
(***************************************************************************)
(* The task DAG of a thread as a value, and the operations on it           *)
(* (src/tasks/task-graph.ts).  A graph is a function from the ids of its   *)
(* tasks to task nodes, with a status of its own; the empty function is    *)
(* "no graph".  For each operation there is a guard (the errors it throws) *)
(* and the tasks it returns.  Texts, sizes and timestamps are left out:    *)
(* they only refuse an operation, never change what it does.               *)
(***************************************************************************)
EXTENDS Integers, Sequences, FiniteSets

CONSTANTS
  Tasks,   \* task ids
  Agents,  \* ids of child agents
  Main     \* owner of the tasks no child agent holds

ASSUME MainIsNoAgent == Main \notin Agents
ASSUME TasksFinite == IsFiniteSet(Tasks)

TaskStatus == {"pending", "in_progress", "completed", "blocked"}
GraphStatus == {"active", "waiting_input", "completed", "terminal_blocked"}
Blockers == {"none", "recoverable", "terminal"}

\* deps: the tasks it needs; lineage: the tasks whose result artifacts are the
\* parents of its own artifact, when it has one.
Node == [status : TaskStatus, owner : Agents \cup {Main}, deps : SUBSET Tasks,
         blocker : Blockers, artifact : BOOLEAN, lineage : SUBSET Tasks]

IsGraph(g) == DOMAIN g \subseteq Tasks /\ g \in [DOMAIN g -> Node]

NewNode(deps) ==
  [status |-> "pending", owner |-> Main, deps |-> deps,
   blocker |-> "none", artifact |-> FALSE, lineage |-> {}]

NoGraph == [t \in {} |-> NewNode({})]

WithStatus(g, P) == {t \in DOMAIN g : g[t].status \in P}
Open(g) == DOMAIN g \ WithStatus(g, {"completed"})

DepsCompleted(g, t) == g[t].deps \subseteq WithStatus(g, {"completed"})
Startable(g) == {t \in WithStatus(g, {"pending"}) : DepsCompleted(g, t)}

DerivedStatus(g) ==
  IF Open(g) = {} THEN "completed"
  ELSE IF WithStatus(g, {"in_progress"}) \cup Startable(g) # {} THEN "active"
  ELSE IF \E t \in WithStatus(g, {"blocked"}) : g[t].blocker # "terminal"
    THEN "waiting_input" ELSE "terminal_blocked"

MainOwned(g, t) == g[t].owner = Main
MainRunning(g) == {t \in WithStatus(g, {"in_progress"}) : MainOwned(g, t)}
History(g) == WithStatus(g, {"completed"}) \cup {t \in DOMAIN g : ~MainOwned(g, t)}

\* Every chain of dependencies ends: a set of tasks has one that needs no
\* other of the set.
Acyclic(g) ==
  \A S \in SUBSET DOMAIN g : S # {} => \E t \in S : g[t].deps \cap S = {}

WellFormed(g) == (\A t \in DOMAIN g : g[t].deps \subseteq DOMAIN g \ {t}) /\ Acyclic(g)

ArtifactsOf(g, deps) == {d \in deps : g[d].artifact}

NodeValid(g, t) ==
  /\ ~MainOwned(g, t) => g[t].status \in {"in_progress", "completed"}
  /\ g[t].status # "pending" => DepsCompleted(g, t)
  /\ (g[t].status = "blocked") = (g[t].blocker # "none")
  /\ g[t].artifact => /\ g[t].status = "completed"
                      /\ ~MainOwned(g, t)
                      /\ g[t].lineage = ArtifactsOf(g, g[t].deps)

OneTaskPerAgent(g) ==
  \A t, u \in DOMAIN g : g[t].owner = g[u].owner /\ ~MainOwned(g, t) => t = u

\* The assertion every operation ends with; the same one accepts a journal's graph.
GraphValid(g, status) ==
  /\ DOMAIN g # {}
  /\ WellFormed(g)
  /\ \A t, u \in MainRunning(g) : t = u
  /\ OneTaskPerAgent(g)
  /\ \A t \in DOMAIN g : NodeValid(g, t)
  /\ status = DerivedStatus(g)

-----------------------------------------------------------------------------
(* The operations of the main agent on one task of the graph.               *)

\* Mutant of CanStart: other main-agent tasks are not looked at.
CanStartSecond(g, status, t) ==
  /\ status = "active"
  /\ t \in Startable(g)
  /\ MainOwned(g, t)

CanStart(g, status, t) ==
  /\ status = "active"
  /\ MainRunning(g) = {}
  /\ t \in Startable(g)
  /\ MainOwned(g, t)

Started(g, t) == [g EXCEPT ![t].status = "in_progress"]

CanFinish(g, t) == t \in MainRunning(g)
Completed(g, t) == [g EXCEPT ![t].status = "completed"]
BlockedBy(g, t, blocker) == [g EXCEPT ![t].status = "blocked", ![t].blocker = blocker]

CanResume(g, t) == t \in WithStatus(g, {"blocked"}) /\ MainOwned(g, t)
Resumed(g, t) == [g EXCEPT ![t].status = "pending", ![t].blocker = "none"]

-----------------------------------------------------------------------------
(* The operations of the Runtime for the child agent a.                     *)

CanClaim(g, status, t, a) ==
  /\ status = "active"
  /\ t \in Startable(g)
  /\ MainOwned(g, t)
  /\ \A u \in DOMAIN g : g[u].owner # a

Claimed(g, t, a) == [g EXCEPT ![t].status = "in_progress", ![t].owner = a]

Holds(g, t, a) == t \in WithStatus(g, {"in_progress"}) /\ g[t].owner = a

ChildCompleted(g, t, artifact, lineage) ==
  [g EXCEPT ![t].status = "completed", ![t].artifact = artifact, ![t].lineage = lineage]

Released(g, t) == [g EXCEPT ![t].status = "pending", ![t].owner = Main]

-----------------------------------------------------------------------------
(* Revisions: a batch of edits, valid as a whole.                           *)

Edit ==
  [op : {"add_task", "update_task"}, task : Tasks, deps : SUBSET Tasks]
    \cup [op : {"remove_task"}, task : Tasks, inherit : BOOLEAN]
    \cup [op : {"set_goal"}]

\* Mutant of Revisable: a task a child holds may be revised.
RevisableHeld(g, t) == t \in Open(g)

Revisable(g, t) == t \in Open(g) /\ MainOwned(g, t)

EditAllowed(g, e) ==
  \/ e.op = "add_task" /\ e.task \in Tasks \ DOMAIN g
  \/ e.op = "update_task" /\ Revisable(g, e.task)
  \/ /\ e.op = "remove_task"
     /\ Revisable(g, e.task)
     /\ g[e.task].status # "in_progress"
  \/ e.op = "set_goal"

\* The dependents of a removed task inherit its dependencies, if asked.
WithoutTask(g, r, inherit) ==
  [t \in DOMAIN g \ {r} |->
    IF inherit /\ r \in g[t].deps
      THEN [g[t] EXCEPT !.deps = (@ \ {r}) \cup g[r].deps]
      ELSE g[t]]

\* Mutant of Edited: an updated task keeps its status.
EditedInPlace(g, e) ==
  CASE e.op = "add_task" ->
         [t \in DOMAIN g \cup {e.task} |-> IF t = e.task THEN NewNode(e.deps) ELSE g[t]]
    [] e.op = "update_task" -> [g EXCEPT ![e.task].deps = e.deps]
    [] e.op = "remove_task" -> WithoutTask(g, e.task, e.inherit)
    [] OTHER -> g

\* A started or blocked task that is updated goes back to pending.
Edited(g, e) ==
  CASE e.op = "add_task" ->
         [t \in DOMAIN g \cup {e.task} |-> IF t = e.task THEN NewNode(e.deps) ELSE g[t]]
    [] e.op = "update_task" -> [g EXCEPT ![e.task] = NewNode(e.deps)]
    [] e.op = "remove_task" -> WithoutTask(g, e.task, e.inherit)
    [] OTHER -> g

\* Mutant of TouchesMainTask: only the first edit of the batch is looked at.
TouchesMainTaskFirst(g, edits) ==
  edits[1].op = "update_task" /\ edits[1].task \in MainRunning(g)

\* The revision returns the running task of the main agent to pending.
TouchesMainTask(g, edits) ==
  \E i \in DOMAIN edits : edits[i].op = "update_task" /\ edits[i].task \in MainRunning(g)

\* The graph after each of the edits; none of the drafts is visible outside.
Drafts(g, edits) ==
  LET draft[i \in 0 .. Len(edits)] ==
        IF i = 0 THEN g ELSE Edited(draft[i-1], edits[i])
  IN draft

RevisionAllowed(g, edits) ==
  \A i \in DOMAIN edits : EditAllowed(Drafts(g, edits)[i-1], edits[i])

Revised(g, edits) == Drafts(g, edits)[Len(edits)]
=============================================================================
