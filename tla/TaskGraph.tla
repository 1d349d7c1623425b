----------------------------- MODULE TaskGraph -----------------------------
(***************************************************************************)
(* The task DAG of one thread under the operations of the main agent (the  *)
(* manage_tasks tool), those the Runtime makes for child agents, and new   *)
(* turns.  Each operation is synchronous and atomic: it returns a new      *)
(* graph, or throws and changes nothing.                                   *)
(***************************************************************************)
EXTENDS TaskGraphOperations

CONSTANT Revisions  \* the batches of edits the model tries

ASSUME RevisionsType == Revisions \subseteq Seq(Edit)

VARIABLES
  nodes,    \* the tasks
  status,   \* the status the graph carries
  touched   \* the graph was last changed in the current turn

vars == <<nodes, status, touched>>

Init ==
  /\ nodes = NoGraph
  /\ status = "completed"
  /\ touched = FALSE

\* What every operation but a creation ends with.
Commit(g, s) ==
  /\ GraphValid(g, s)
  /\ nodes' = g
  /\ status' = s
  /\ touched' = TRUE

Create(S, deps) ==
  /\ status = "completed"
  /\ ~touched
  /\ Commit([t \in S |-> NewNode(deps[t])], "active")

Start(t) ==
  /\ CanStart(nodes, status, t)
  /\ Commit(Started(nodes, t), status)

Complete(t) ==
  /\ CanFinish(nodes, t)
  /\ Commit(Completed(nodes, t), DerivedStatus(Completed(nodes, t)))

\* Mutant of Block: the status of the graph is left alone.
BlockUnderived(t, blocker) ==
  /\ CanFinish(nodes, t)
  /\ nodes' = BlockedBy(nodes, t, blocker)
  /\ touched' = TRUE
  /\ UNCHANGED status

Block(t, blocker) ==
  /\ CanFinish(nodes, t)
  /\ LET g == BlockedBy(nodes, t, blocker) IN Commit(g, DerivedStatus(g))

Resume(t) ==
  /\ CanResume(nodes, t)
  /\ LET g == Resumed(nodes, t) IN Commit(g, DerivedStatus(g))

Revise(edits) ==
  /\ nodes # NoGraph
  /\ edits # <<>>
  /\ RevisionAllowed(nodes, edits)
  /\ LET g == Revised(nodes, edits) IN Commit(g, DerivedStatus(g))

Claim(t, a) ==
  /\ CanClaim(nodes, status, t, a)
  /\ LET g == Claimed(nodes, t, a) IN Commit(g, DerivedStatus(g))

ChildComplete(t, a, artifact, lineage) ==
  /\ Holds(nodes, t, a)
  /\ artifact \/ lineage = {}
  /\ LET g == ChildCompleted(nodes, t, artifact, lineage) IN Commit(g, DerivedStatus(g))

ChildRelease(t, a) ==
  /\ Holds(nodes, t, a)
  /\ LET g == Released(nodes, t) IN Commit(g, DerivedStatus(g))

NewTurn ==
  /\ touched
  /\ touched' = FALSE
  /\ UNCHANGED <<nodes, status>>

ChildStep ==
  \E t \in Tasks, a \in Agents :
    \/ Claim(t, a)
    \/ \E artifact \in BOOLEAN, lineage \in SUBSET Tasks : ChildComplete(t, a, artifact, lineage)
    \/ ChildRelease(t, a)

MainStep ==
  \/ \E t \in Tasks :
       \/ Start(t)
       \/ Complete(t)
       \/ \E blocker \in {"recoverable", "terminal"} : Block(t, blocker)
       \/ Resume(t)
  \/ \E edits \in Revisions : Revise(edits)

Next ==
  \/ \E S \in SUBSET Tasks : \E deps \in [S -> SUBSET Tasks] : Create(S, deps)
  \/ MainStep
  \/ ChildStep
  \/ NewTurn

Spec == Init /\ [][Next]_vars

-----------------------------------------------------------------------------
TypeOK ==
  /\ IsGraph(nodes)
  /\ status \in GraphStatus
  /\ touched \in BOOLEAN

(* The final assertion of an operation is a safety net that never fires: an *)
(* operation whose own guards accept it is not refused by it afterwards.    *)
(* In particular a child agent that holds a task can always complete it,    *)
(* with the lineage its assignment started from, or give it back.           *)
FinalCheckNeverFires ==
  LET Accepts(g) == GraphValid(g, DerivedStatus(g)) IN
  \A t \in DOMAIN nodes :
    /\ CanStart(nodes, status, t) => GraphValid(Started(nodes, t), status)
    /\ CanFinish(nodes, t) =>
         /\ Accepts(Completed(nodes, t))
         /\ \A blocker \in {"recoverable", "terminal"} : Accepts(BlockedBy(nodes, t, blocker))
    /\ CanResume(nodes, t) => Accepts(Resumed(nodes, t))
    /\ \A a \in Agents :
         /\ CanClaim(nodes, status, t, a) => Accepts(Claimed(nodes, t, a))
         /\ Holds(nodes, t, a) =>
              /\ Accepts(ChildCompleted(nodes, t, FALSE, {}))
              /\ Accepts(ChildCompleted(nodes, t, TRUE, ArtifactsOf(nodes, nodes[t].deps)))
              /\ Accepts(Released(nodes, t))

(* An unfinished graph is never stuck without a way out: some task runs,    *)
(* may be started, or is blocked in the hands of the main agent, which can  *)
(* resume it; and a graph that waits, or is blocked for good, names such a  *)
(* blocked task.                                                            *)
NeverWedged ==
  Open(nodes) # {} =>
    \/ WithStatus(nodes, {"in_progress"}) # {}
    \/ \E t \in Tasks : CanStart(nodes, status, t)
    \/ status # "active" /\ \E t \in Tasks : CanResume(nodes, t)

(* "Completed history and child-held work are immutable": what the main     *)
(* agent does, and above all a revision that drops or rewires other tasks,  *)
(* leaves every completed task and every task of a child agent as it is.    *)
HistoryIsKept ==
  [][(\A t \in History(nodes) : t \in DOMAIN nodes' /\ nodes'[t] = nodes[t]) \/ ~MainStep]_vars

(* revisionTouchesActiveMainTask is exact: the running task of the main     *)
(* agent survives a revision unless the batch updates it, in any of its     *)
(* edits and whatever the other edits are.  The Runtime relies on it to     *)
(* refuse the revision while commands of that task still run.               *)
TouchIsExact ==
  \A edits \in Revisions :
    edits # <<>> /\ RevisionAllowed(nodes, edits) =>
      TouchesMainTask(nodes, edits) =
        (\E t \in MainRunning(nodes) : t \notin MainRunning(Revised(nodes, edits)))

(* Work rests on the results it was started from: while a task stays        *)
(* started, blocked or completed in one graph, its dependencies stay the    *)
(* same completed tasks, with the same artifacts, whatever happens.         *)
FoundationsHold ==
  [][status # "completed" =>
       \A t \in DOMAIN nodes \cap DOMAIN nodes' :
         "pending" \notin {nodes[t].status, nodes'[t].status} =>
           /\ nodes'[t].deps = nodes[t].deps
           /\ \A d \in nodes[t].deps : nodes'[d] = nodes[d]]_vars
=============================================================================
