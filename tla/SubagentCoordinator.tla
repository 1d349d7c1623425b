------------------------- MODULE SubagentCoordinator -------------------------
(***************************************************************************)
(* The life of the child agents of one thread, from their reservation to   *)
(* the collection of their result, through the four places that hold it:   *)
(*   - the thread's journal (tool.result, subagent.collected,              *)
(*     subagent.result and subagent.reconciled events): nodes, bound,      *)
(*     stops, observed and result;                                         *)
(*   - the coordinator of the process (src/subagents/coordinator.ts): jobs;*)
(*   - the execution of each child (src/app/subagent-host.ts): work;       *)
(*   - the tool call the parent is executing (src/runtime/tool-calls.ts):  *)
(*     op.                                                                 *)
(* The journal survives a crash, the rest does not.  The thread is either  *)
(* open ("here"), being left ("pausing"), left for another one of the same *)
(* process ("away"), or closed, cleanly or not ("down").                   *)
(***************************************************************************)
EXTENDS TaskGraphOperations

CONSTANTS
  Standalone,   \* the binding of a child with a task of its own, outside the DAG
  Unbound,      \* the binding of an agent no event names
  Graphs,       \* the task graphs the thread may have at first
  MaxConcurrent,\* the limit on children that are not terminal
  MaxFaults     \* bound on crashes, failed writes and departures from the thread

ASSUME NotTasks == Standalone \notin Tasks /\ Unbound \notin Tasks \cup {Standalone}
ASSUME GraphsFresh ==
  \A g \in Graphs : IsGraph(g) /\ \A t \in DOMAIN g : g[t] = NewNode(g[t].deps)
ASSUME LimitPositive == MaxConcurrent \in Nat \ {0}
ASSUME FaultsNatural == MaxFaults \in Nat

VARIABLES
  nodes,      \* the tasks of the thread's DAG
  bound,      \* the task each agent was assigned
  stops,      \* agents with a committed stop_subagent
  observed,   \* agents whose result was collected
  result,     \* the reason of the latest subagent.result of each agent
  jobs,       \* the coordinator's jobs
  work,       \* the executions of the children
  op,         \* the parent's tool call, from its preparation to its commit
  mode,       \* the thread: "here", "pausing", "away" or "down"
  manual,     \* the thread was restored in manual approval mode
  faults      \* faults so far

journal == <<nodes, bound, stops, observed, result>>
vars == <<journal, jobs, work, op, mode, manual, faults>>

Reports == {"completed", "blocked", "needs_parent_decision", "failed"}
Terminal == Reports \cup {"stopped", "interrupted"}
Reasons == Terminal \cup {"none"}

Job == [status : Terminal \cup {"running", "stopping"}, activated : BOOLEAN,
        graphObserved : BOOLEAN, stopReason : BOOLEAN, pauseRequested : BOOLEAN,
        preparedRestore : BOOLEAN]

\* reason: what the execution reports once it has ended.
Work == [at : {"idle", "running", "finalizing", "retaining", "releasing"}, reason : Reasons]
Idle == [at |-> "idle", reason |-> "none"]
Running == [at |-> "running", reason |-> "none"]

Op == [action : {"activate", "observe", "request_stop"}, agent : Agents,
       task : Tasks \cup {Standalone}, complete : BOOLEAN, persisted : BOOLEAN]
NoOp == [action |-> "none"]

TypeOK ==
  /\ IsGraph(nodes)
  /\ bound \in [Agents -> Tasks \cup {Standalone, Unbound}]
  /\ stops \subseteq Agents /\ observed \subseteq Agents
  /\ result \in [Agents -> Reasons]
  /\ DOMAIN jobs \subseteq Agents /\ \A a \in DOMAIN jobs : jobs[a] \in Job
  /\ work \in [Agents -> Work]
  /\ op \in Op \cup {NoOp}
  /\ mode \in {"here", "pausing", "away", "down"}
  /\ manual \in BOOLEAN
  /\ faults \in 0 .. MaxFaults

IsTerminal(a) == jobs[a].status \in Terminal
Active == {a \in DOMAIN jobs : ~IsTerminal(a)}
Aborted(a) == jobs[a].stopReason \/ jobs[a].pauseRequested

\* The agent's claim on a task of the DAG stands.
Claims(g, a) == bound[a] \in DOMAIN g /\ Holds(g, bound[a], a)

Without(js, S) == [a \in DOMAIN js \ S |-> js[a]]

\* The parent agent may make a tool call.
ParentReady == mode = "here" /\ ~manual /\ op = NoOp
Fault == faults < MaxFaults /\ faults' = faults + 1

Init ==
  /\ nodes \in Graphs
  /\ bound = [a \in Agents |-> Unbound]
  /\ stops = {} /\ observed = {}
  /\ result = [a \in Agents |-> "none"]
  /\ jobs = << >>
  /\ work = [a \in Agents |-> Idle]
  /\ op = NoOp
  /\ mode = "here" /\ manual = FALSE
  /\ faults = 0

-----------------------------------------------------------------------------
(* The tool calls of the parent: each is prepared against the state of the  *)
(* coordinator, written to the journal, and only then committed.            *)

Call(action, a, t, complete) ==
  [action |-> action, agent |-> a, task |-> t, complete |-> complete, persisted |-> FALSE]

Reserved ==
  [status |-> "running", activated |-> FALSE, graphObserved |-> FALSE,
   stopReason |-> FALSE, pauseRequested |-> FALSE, preparedRestore |-> FALSE]

MayAssign(a, t) ==
  /\ Cardinality(Active) < MaxConcurrent
  /\ \/ t \in Tasks /\ t \in DOMAIN nodes /\ CanClaim(nodes, DerivedStatus(nodes), t, a)
     \/ t = Standalone /\ Open(nodes) = {}

Spawn(a, t) ==
  /\ ParentReady
  /\ bound[a] = Unbound /\ a \notin DOMAIN jobs
  /\ MayAssign(a, t)
  /\ jobs' = [b \in DOMAIN jobs \cup {a} |-> IF b = a THEN Reserved ELSE jobs[b]]
  /\ op' = Call("activate", a, t, FALSE)
  /\ UNCHANGED <<journal, work, mode, manual, faults>>

\* The operation of the graph follows from the job, and is refused by the graph
\* when the child has no claim.
Observe(a) ==
  /\ ParentReady
  /\ a \in DOMAIN jobs /\ IsTerminal(a) /\ ~jobs[a].graphObserved
  /\ bound[a] \in Tasks => Claims(nodes, a)
  /\ op' = Call("observe", a, bound[a], jobs[a].status = "completed")
  /\ UNCHANGED <<journal, jobs, work, mode, manual, faults>>

Stop(a) ==
  /\ ParentReady
  /\ a \in Active
  /\ op' = Call("request_stop", a, bound[a], FALSE)
  /\ UNCHANGED <<journal, jobs, work, mode, manual, faults>>

\* The event and the graph it carries are one record of the journal.
Persist ==
  /\ op # NoOp /\ ~op.persisted
  /\ op' = [op EXCEPT !.persisted = TRUE]
  /\ \/ /\ op.action = "activate"
        /\ bound' = [bound EXCEPT ![op.agent] = op.task]
        /\ nodes' = IF op.task \in Tasks THEN Claimed(nodes, op.task, op.agent) ELSE nodes
        /\ UNCHANGED <<stops, observed>>
     \/ /\ op.action = "observe"
        /\ observed' = observed \cup {op.agent}
        /\ nodes' = IF op.task \notin Tasks THEN nodes
                    ELSE IF op.complete THEN ChildCompleted(nodes, op.task, FALSE, {})
                    ELSE Released(nodes, op.task)
        /\ UNCHANGED <<bound, stops>>
     \/ /\ op.action = "request_stop"
        /\ stops' = stops \cup {op.agent}
        /\ UNCHANGED <<nodes, bound, observed>>
  /\ UNCHANGED <<result, jobs, work, mode, manual, faults>>

\* Mutant of RollbackLifecycle: an assignment is rolled back after it was written.
RollbackCommitted ==
  /\ op # NoOp
  /\ Fault
  /\ jobs' = Without(jobs, IF op.action = "activate" THEN {op.agent} ELSE {})
  /\ op' = NoOp
  /\ UNCHANGED <<journal, work, mode, manual>>

\* The append fails, or the turn is cancelled before it: a reservation is dropped.
RollbackLifecycle ==
  /\ op # NoOp /\ ~op.persisted
  /\ Fault
  /\ jobs' = Without(jobs, IF op.action = "activate" THEN {op.agent} ELSE {})
  /\ op' = NoOp
  /\ UNCHANGED <<journal, work, mode, manual>>

StoppedJob(job) ==
  [job EXCEPT !.stopReason = TRUE,
              !.status = IF job.status \in Terminal THEN "stopped" ELSE "stopping"]

CommitLifecycle ==
  /\ op # NoOp /\ op.persisted
  /\ op.agent \in DOMAIN jobs
  /\ op' = NoOp
  /\ \/ /\ op.action = "activate"
        /\ jobs' = [jobs EXCEPT ![op.agent].activated = TRUE]
        /\ work' = [work EXCEPT ![op.agent] = Running]
     \/ /\ op.action = "observe" /\ IsTerminal(op.agent)
        /\ jobs' = [jobs EXCEPT ![op.agent].graphObserved = TRUE]
        /\ UNCHANGED work
     \/ /\ op.action = "request_stop"
        /\ jobs' = [jobs EXCEPT ![op.agent] = StoppedJob(@)]
        /\ UNCHANGED work
  /\ UNCHANGED <<journal, mode, manual, faults>>

-----------------------------------------------------------------------------
(* The execution of a child.  A pause leaves no trace in the journal.       *)

\* The Runtime of the child returns.  What it reports does not count once its
\* signal is aborted.
Finish(a, report) ==
  /\ work[a].at = "running"
  /\ work' = [work EXCEPT ![a] =
       IF jobs[a].pauseRequested THEN [at |-> "releasing", reason |-> "interrupted"]
       ELSE [at |-> "finalizing", reason |-> IF Aborted(a) THEN "stopped" ELSE report]]
  /\ UNCHANGED <<journal, jobs, op, mode, manual, faults>>

\* Provisioning, the Runtime, the finalization of the artifact or the write of
\* its result throws.
Fail(a) ==
  /\ \/ work[a].at = "running" /\ UNCHANGED faults
     \/ work[a].at = "finalizing" /\ Fault
  /\ work' = [work EXCEPT ![a] =
       IF jobs[a].pauseRequested THEN [at |-> "releasing", reason |-> "interrupted"]
       ELSE [at |-> "retaining", reason |-> "none"]]
  /\ UNCHANGED <<journal, jobs, op, mode, manual>>

\* The artifact is finalized and the result is written.
RecordOutcome(a) ==
  /\ work[a].at = "finalizing"
  /\ result' = [result EXCEPT ![a] = work[a].reason]
  /\ work' = [work EXCEPT ![a].at = "releasing"]
  /\ UNCHANGED <<nodes, bound, stops, observed, jobs, op, mode, manual, faults>>

\* The checkout of a failed child is retained; a result that cannot be written
\* is passed over.
RecordFailure(a) ==
  /\ work[a].at = "retaining"
  /\ LET reason == IF Aborted(a) THEN "stopped" ELSE "failed"
     IN /\ work' = [work EXCEPT ![a] = [at |-> "releasing", reason |-> reason]]
        /\ \/ result' = [result EXCEPT ![a] = reason] /\ UNCHANGED faults
           \/ Fault /\ UNCHANGED result
  /\ UNCHANGED <<nodes, bound, stops, observed, jobs, op, mode, manual>>

\* Mutant of StatusForOutcome: what the child reported wins over a stop.
StatusForOutcomeReported(reason, aborted, paused) == reason

\* A stop wins over a result that is written already, a pause does not.
StatusForOutcome(reason, aborted, paused) ==
  IF paused /\ reason = "completed" THEN "completed"
  ELSE IF aborted THEN "stopped" ELSE reason

\* The tool sources of the child are closed, its lease is released, and the
\* coordinator reads its outcome.
Settle(a) ==
  /\ work[a].at = "releasing"
  /\ LET paused == jobs[a].pauseRequested /\ ~jobs[a].stopReason
     IN jobs' = [jobs EXCEPT ![a].status = StatusForOutcome(work[a].reason, Aborted(a), paused)]
  /\ work' = [work EXCEPT ![a] = Idle]
  /\ UNCHANGED <<journal, op, mode, manual, faults>>

-----------------------------------------------------------------------------
(* Leaving the thread and coming back to it.                                *)

Orphans(g) ==
  {t \in WithStatus(g, {"in_progress"}) :
    \E a \in Agents : g[t].owner = a /\ (bound[a] = Unbound \/ a \in observed \/ a \in stops)}

\* A result that completes the task of an orphan.
Counts(a) == result[a] = "completed" /\ a \notin stops

\* releaseOrphanedSubagentTasks, for the orphans S.
Reconciled(g, S) ==
  [t \in DOMAIN g |->
    IF t \notin S THEN g[t]
    ELSE IF Counts(g[t].owner) THEN ChildCompleted(g, t, FALSE, {})[t]
    ELSE Released(g, t)[t]]

\* Bindings that restoreSubagents does not pass over.
Restorable(g, js) ==
  {a \in Agents \ DOMAIN js :
    /\ bound[a] # Unbound
    /\ bound[a] \in Tasks => Claims(g, a) \/ a \in observed}

Verdict(a) == IF a \in stops THEN "stopped" ELSE result[a]

\* Mutant of Revived: every child that was not collected is executed again.
RevivedAll(g, js) == {a \in Restorable(g, js) : a \notin observed}

\* A child without a result is executed again.
Revived(g, js) == {a \in Restorable(g, js) : Verdict(a) = "none" /\ a \notin observed}

RestoredJob(a, g, js, asleep) ==
  [status |-> IF a \in Revived(g, js) THEN "running" ELSE Verdict(a),
   activated |-> ~asleep, graphObserved |-> a \in observed,
   stopReason |-> FALSE, pauseRequested |-> FALSE, preparedRestore |-> asleep]

\* restoreSubagents: jobs for the bindings that have none, results for the stops
\* that have none, and executions, unless the approval mode is manual.
RestoreSubagents(g, js, asleep) ==
  LET batch == {a \in Restorable(g, js) : Verdict(a) # "none"} \cup Revived(g, js)
  IN /\ result' = [a \in Agents |-> IF a \in Restorable(g, js) THEN Verdict(a) ELSE result[a]]
     /\ jobs' = [a \in DOMAIN js \cup batch |->
                   IF a \in batch THEN RestoredJob(a, g, js, asleep) ELSE js[a]]
     /\ work' = [a \in Agents |-> IF a \in Revived(g, js) /\ ~asleep THEN Running ELSE work[a]]

\* Every job that is not terminal is aborted; one that never started ends here.
PausedJob(job) ==
  IF job.status \in Terminal THEN job
  ELSE [job EXCEPT !.pauseRequested = TRUE,
                   !.status = IF job.activated THEN @ ELSE "interrupted"]

\* The user opens another thread, or closes this one.
Pause ==
  /\ mode = "here" /\ op = NoOp
  /\ Fault
  /\ mode' = "pausing"
  /\ jobs' = [a \in DOMAIN jobs |-> PausedJob(jobs[a])]
  /\ UNCHANGED <<journal, work, op, manual>>

Paused == {a \in DOMAIN jobs : jobs[a].pauseRequested}

\* Mutant of Settled: the pause does not wait for the children.
SettledAtOnce == mode = "pausing"

Settled == mode = "pausing" /\ \A a \in DOMAIN jobs : IsTerminal(a)

\* The other thread is open; only the paused jobs of this one are forgotten.
SwitchAway ==
  /\ Settled
  /\ mode' = "away"
  /\ jobs' = Without(jobs, Paused)
  /\ UNCHANGED <<journal, work, op, manual, faults>>

\* The other thread cannot be opened: the paused children are armed again.
RestorePausedCurrentThread ==
  /\ Settled
  /\ mode' = "here"
  /\ RestoreSubagents(nodes, Without(jobs, Paused), manual)
  /\ UNCHANGED <<nodes, bound, stops, observed, op, manual, faults>>

\* The process ends, at any point; a clean exit is one while the thread is paused.
Crash ==
  /\ mode # "down"
  /\ IF mode = "pausing" THEN UNCHANGED faults ELSE Fault
  /\ mode' = "down"
  /\ jobs' = << >>
  /\ work' = [a \in Agents |-> Idle]
  /\ op' = NoOp
  /\ UNCHANGED <<journal, manual>>

\* The thread is opened again, by a new process or by the one that left it.
Resume ==
  /\ mode \in {"away", "down"}
  /\ mode' = "here"
  /\ nodes' = Reconciled(nodes, Orphans(nodes))
  /\ manual' \in BOOLEAN
  /\ RestoreSubagents(nodes', jobs, manual')
  /\ UNCHANGED <<bound, stops, observed, op, faults>>

\* The process ends while it recovers the thread.
CrashInResume ==
  /\ mode \in {"away", "down"}
  /\ Fault
  /\ \E S \in SUBSET Orphans(nodes) : nodes' = Reconciled(nodes, S)
  /\ mode' = "down"
  /\ jobs' = << >>
  /\ UNCHANGED <<bound, stops, observed, result, work, op, manual>>

\* Mutant of LeaveManual: the prepared children are not started.
LeaveManualAsleep ==
  /\ mode = "here" /\ manual
  /\ manual' = FALSE
  /\ UNCHANGED <<journal, jobs, work, op, mode, faults>>

\* activatePrepared, when the user leaves the manual approval mode.
LeaveManual ==
  /\ mode = "here" /\ manual
  /\ manual' = FALSE
  /\ jobs' = [a \in DOMAIN jobs |->
       [jobs[a] EXCEPT !.activated = @ \/ jobs[a].preparedRestore, !.preparedRestore = FALSE]]
  /\ work' = [a \in Agents |->
       IF a \in Active /\ jobs[a].preparedRestore THEN Running ELSE work[a]]
  /\ UNCHANGED <<journal, op, mode, faults>>

-----------------------------------------------------------------------------
Next ==
  \/ \E a \in Agents :
       \/ \E t \in Tasks \cup {Standalone} : Spawn(a, t)
       \/ Observe(a) \/ Stop(a)
       \/ \E report \in Reports : Finish(a, report)
       \/ Fail(a) \/ RecordOutcome(a) \/ RecordFailure(a) \/ Settle(a)
  \/ Persist \/ RollbackLifecycle \/ CommitLifecycle
  \/ Pause \/ SwitchAway \/ RestorePausedCurrentThread
  \/ Crash \/ Resume \/ CrashInResume \/ LeaveManual

\* A child's run ends and its cleanup is awaited; the parent carries its tool
\* calls through and collects terminal children before it ends a turn; the
\* user comes back to the thread.
Fairness ==
  /\ \A a \in Agents :
       /\ WF_vars((\E report \in Reports : Finish(a, report)) \/ Fail(a))
       /\ WF_vars(RecordOutcome(a) \/ RecordFailure(a))
       /\ WF_vars(Settle(a))
       /\ WF_vars(Observe(a))
  /\ WF_vars(Persist) /\ WF_vars(CommitLifecycle)
  /\ WF_vars(SwitchAway \/ RestorePausedCurrentThread)
  /\ WF_vars(Resume) /\ WF_vars(LeaveManual)

Spec == Init /\ [][Next]_vars /\ Fairness

-----------------------------------------------------------------------------
(* Properties.                                                              *)

\* A child executes only on behalf of a live job and of an assignment that is in
\* the journal and still stands (commitLifecycle, pause, discardPausedJobs).
NoOrphanExecution ==
  \A a \in Agents :
    work[a] # Idle =>
      /\ a \in Active /\ jobs[a].activated
      /\ bound[a] # Unbound /\ (bound[a] \in Tasks => Claims(nodes, a))

\* While its thread is open, an assigned child that was not collected has a job,
\* and that job has ended, is executing, waits to be started by the user, or is
\* what the parent's tool call is about (rollbackLifecycle, restoreSubagents).
NoLostChild ==
  mode \in {"here", "pausing"} =>
    \A a \in Agents :
      bound[a] # Unbound /\ a \notin observed /\ (bound[a] \in Tasks => Claims(nodes, a)) =>
        /\ a \in DOMAIN jobs
        /\ \/ IsTerminal(a) \/ work[a] # Idle \/ jobs[a].preparedRestore
           \/ op # NoOp /\ op.agent = a

\* No child is executed again once its result or a stop is in the journal, or
\* once it was collected (restoreSubagents, activateRestored).
NeverRerun ==
  [][\A a \in Agents :
       work[a] = Idle /\ work'[a] # Idle =>
         result[a] = "none" /\ a \notin stops \cup observed]_vars

\* Every claim of a child on a task ends: the task is completed or given back.
ClaimsEnd == \A a \in Agents : Claims(nodes, a) ~> ~Claims(nodes, a)

\* The coordinator, the hosts, the journal and the recovery implement the life of
\* an assignment: one task per child, one holder per task, verified work of a
\* child that was not stopped is never given back, nothing else completes a task.
Stage(a) ==
  IF bound[a] \notin DOMAIN nodes THEN "new"
  ELSE IF nodes[bound[a]].owner # a THEN "released"
  ELSE IF nodes[bound[a]].status = "completed" THEN "completed" ELSE "held"

Assignments == INSTANCE ChildAssignments WITH
  NoTask <- Unbound,
  task <- [a \in Agents |-> IF bound[a] \in DOMAIN nodes THEN bound[a] ELSE Unbound],
  stage <- [a \in Agents |-> Stage(a)],
  verified <- {a \in Agents : bound[a] \in DOMAIN nodes /\ Counts(a)},
  stopped <- {a \in stops : bound[a] \in DOMAIN nodes}

ImplementsAssignments == Assignments!Spec

\* Stated by src/subagents/coordinator.ts ("Cancellation was requested for ...; wait
\* for and collect its terminal result before continuing."): a terminal child that
\* was not collected can be.
TerminalIsCollectable ==
  mode = "here" /\ op = NoOp =>
    \A a \in DOMAIN jobs :
      IsTerminal(a) /\ ~jobs[a].graphObserved /\ bound[a] \in Tasks => Claims(nodes, a)
=============================================================================
