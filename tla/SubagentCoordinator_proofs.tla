--------------------- MODULE SubagentCoordinator_proofs ---------------------
(***************************************************************************)
(* Proofs about the child agents of a thread, for any tasks, children,     *)
(* graphs, limits and numbers of faults.                                   *)
(***************************************************************************)
EXTENDS SubagentCoordinator, TLAPS

-----------------------------------------------------------------------------
(* The inductive invariant.                                                 *)

\* The journal assigned the child a task, and the child still has it.
Assigned(a) == bound[a] # Unbound /\ (bound[a] \in Tasks => Claims(nodes, a))

\* The parent's tool call reserves the child; it wrote a stop it did not commit.
ReservedFor(a) == op # NoOp /\ op.action = "activate" /\ op.agent = a
StopPending(a) == op # NoOp /\ op.action = "request_stop" /\ op.persisted /\ op.agent = a

\* The journal holds no end of the child.
Fresh(a) == result[a] = "none" /\ a \notin stops \cup observed

\* A task's holder is bound to it; a child that was collected holds no task.
HoldersInv ==
  /\ \A t \in DOMAIN nodes : nodes[t].owner # Main => bound[nodes[t].owner] = t
  /\ \A t \in DOMAIN nodes : nodes[t].owner \in observed => nodes[t].status # "in_progress"

\* Only a bound child has a history.
JournalInv == HoldersInv /\ \A a \in Agents : bound[a] = Unbound => Fresh(a)

\* What was true when the tool call was prepared is true when it is written and
\* when it is committed.
ActivateInv ==
  op.action = "activate" =>
    /\ op.agent \in Active /\ ~jobs[op.agent].activated /\ ~jobs[op.agent].stopReason
    /\ op.persisted => bound[op.agent] = op.task /\ Assigned(op.agent)
    /\ ~op.persisted => /\ bound[op.agent] = Unbound
                        /\ op.task \in Tasks => op.task \in DOMAIN nodes
                                                /\ nodes[op.task].owner = Main

ObserveInv ==
  op.action = "observe" =>
    /\ IsTerminal(op.agent) /\ bound[op.agent] = op.task
    /\ op.complete = (jobs[op.agent].status = "completed")
    /\ ~op.persisted => Assigned(op.agent)

StopInv ==
  op.action = "request_stop" =>
    /\ bound[op.agent] = op.task /\ Assigned(op.agent)
    /\ op.persisted => op.agent \in stops

OpInv ==
  op # NoOp =>
    /\ mode = "here" /\ ~manual
    /\ op.agent \in DOMAIN jobs
    /\ ActivateInv /\ ObserveInv /\ StopInv

ModeInv ==
  /\ mode # "here" => op = NoOp
  /\ mode \in {"away", "down"} => Active = {}

\* An execution belongs to a live job, and its outcome is in the journal when it
\* releases what it holds, unless it could not be written.
WorkOK(a) ==
  work[a] # Idle =>
    /\ a \in Active /\ jobs[a].activated
    /\ work[a].at \in {"finalizing", "releasing"} => work[a].reason \in Terminal
    /\ work[a].at # "releasing" => result[a] = "none"
    /\ work[a].at = "releasing" => /\ result[a] \in {work[a].reason, "none"}
                                   /\ work[a].reason = "completed" => result[a] = "completed"

WorkInv == \A a \in Agents : WorkOK(a)

\* A job agrees with the journal: what it is bound to, whether it was stopped and
\* whether it completed.
JobOK(a) ==
  /\ a \in Active => Assigned(a) \/ ReservedFor(a)
  /\ IsTerminal(a) => bound[a] # Unbound
  /\ a \in Active /\ ~jobs[a].activated => Fresh(a) /\ (jobs[a].preparedRestore \/ ReservedFor(a))
  /\ a \in Active /\ jobs[a].preparedRestore => ~jobs[a].activated /\ manual
  /\ jobs[a].stopReason => a \in stops
  /\ a \in stops /\ ~StopPending(a) =>
       jobs[a].status # "completed" /\ (a \in Active => jobs[a].stopReason)
  /\ jobs[a].status = "completed" => result[a] = "completed"
  /\ IsTerminal(a) /\ result[a] = "completed" /\ jobs[a].status # "completed" => a \in stops

JobInv == \A a \in DOMAIN jobs : JobOK(a)

\* NoLostChild, without the tool calls that cannot be what keeps a child.
FoundOK(a) ==
  Assigned(a) /\ a \notin observed =>
    /\ a \in DOMAIN jobs
    /\ IsTerminal(a) \/ work[a] # Idle \/ jobs[a].preparedRestore \/ ReservedFor(a)

Found == mode \in {"here", "pausing"} => \A a \in Agents : FoundOK(a)

CoordinatorInv ==
  TypeOK /\ JournalInv /\ OpInv /\ ModeInv /\ WorkInv /\ JobInv /\ Found

-----------------------------------------------------------------------------
LEMMA JobFields ==
  ASSUME NEW j \in Job
  PROVE  /\ j.status \in Terminal \cup {"running", "stopping"}
         /\ j.activated \in BOOLEAN /\ j.graphObserved \in BOOLEAN /\ j.stopReason \in BOOLEAN
         /\ j.pauseRequested \in BOOLEAN /\ j.preparedRestore \in BOOLEAN
  BY DEF Job

LEMMA ActiveJobs ==
  /\ \A a : a \in Active <=> a \in DOMAIN jobs /\ ~IsTerminal(a)
  /\ \A a : a \in Active' <=> a \in DOMAIN jobs' /\ ~IsTerminal(a)'
  BY DEF Active

(* A child whose job, execution and history a step leaves alone.            *)
LEMMA ChildUntouched ==
  ASSUME NEW b, b \in DOMAIN jobs <=> b \in DOMAIN jobs', 
         b \in DOMAIN jobs =>
           /\ jobs'[b].status = jobs[b].status /\ jobs'[b].activated = jobs[b].activated
           /\ jobs'[b].stopReason = jobs[b].stopReason
           /\ jobs'[b].preparedRestore = jobs[b].preparedRestore,
         work'[b] = work[b], result'[b] = result[b], bound'[b] = bound[b],
         b \in stops' <=> b \in stops, b \in observed' <=> b \in observed,
         Assigned(b)' <=> Assigned(b), ReservedFor(b) => ReservedFor(b)',
         StopPending(b)' <=> StopPending(b), manual' = manual
  PROVE  /\ b \in DOMAIN jobs /\ JobOK(b) => JobOK(b)'
         /\ WorkOK(b) => WorkOK(b)'
         /\ FoundOK(b) => FoundOK(b)'
<1>1. /\ b \in DOMAIN jobs => (IsTerminal(b)' <=> IsTerminal(b))
      /\ b \in Active' <=> b \in Active
      /\ Fresh(b)' <=> Fresh(b)
  BY ActiveJobs DEF IsTerminal, Fresh
<1>2. b \in DOMAIN jobs /\ JobOK(b) => JobOK(b)'
  BY <1>1 DEF JobOK
<1>3. WorkOK(b) => WorkOK(b)'
  BY <1>1, ActiveJobs DEF WorkOK
<1>4. FoundOK(b) => FoundOK(b)'
  BY <1>1 DEF FoundOK
<1>5. QED
  BY <1>2, <1>3, <1>4

(* The children are untouched: what is left is the graph, the tool call and *)
(* the mode.                                                                *)
LEMMA ChildrenUntouched ==
  ASSUME CoordinatorInv, \A b \in Agents : (b \in DOMAIN jobs => JobOK(b)') /\ WorkOK(b)' /\ FoundOK(b)',
         DOMAIN jobs' = DOMAIN jobs, TypeOK', JournalInv', OpInv', ModeInv'
  PROVE  CoordinatorInv'
  BY DEF CoordinatorInv, WorkInv, JobInv, Found, TypeOK

LEMMA SpawnKeeps ==
  ASSUME CoordinatorInv, NEW a \in Agents, NEW t \in Tasks \cup {Standalone}, Spawn(a, t)
  PROVE  CoordinatorInv'
<1>1. /\ op = NoOp /\ mode = "here" /\ manual = FALSE
      /\ bound[a] = Unbound /\ a \notin DOMAIN jobs
      /\ t \in Tasks => t \in DOMAIN nodes /\ nodes[t].owner = Main
      /\ DOMAIN jobs' = DOMAIN jobs \cup {a}
      /\ jobs'[a] = Reserved
      /\ \A b \in DOMAIN jobs : b # a /\ jobs'[b] = jobs[b]
      /\ op' = Call("activate", a, t, FALSE)
      /\ UNCHANGED <<nodes, bound, stops, observed, result, work, mode, manual, faults>>
  BY NotTasks DEF Spawn, ParentReady, MayAssign, CanClaim, MainOwned, journal, CoordinatorInv, TypeOK,
       Startable, WithStatus
<1>2. Reserved \in Job /\ Call("activate", a, t, FALSE) \in Op /\ Call("activate", a, t, FALSE) # NoOp
  BY DEF Reserved, Job, Call, Op, NoOp
<1>3. TypeOK'
  BY <1>1, <1>2 DEF CoordinatorInv, TypeOK
<1>4. JournalInv'
  BY <1>1 DEF CoordinatorInv, JournalInv, HoldersInv, Fresh
<1>5. /\ a \in Active'
      /\ \A b \in Agents : Assigned(b)' <=> Assigned(b)
      /\ Fresh(a)' /\ work[a] = Idle
  BY <1>1, ActiveJobs DEF IsTerminal, Reserved, Terminal, Reports, Assigned, Claims, Fresh,
       CoordinatorInv, JournalInv, HoldersInv, WorkInv, WorkOK
<1>6. OpInv'
  BY <1>1, <1>2, <1>5 DEF OpInv, ActivateInv, ObserveInv, StopInv, Call, Reserved
<1>7. ModeInv'
  BY <1>1 DEF ModeInv
<1>8. ASSUME NEW b \in Agents \ {a}
      PROVE  WorkOK(b)' /\ (b \in DOMAIN jobs' => JobOK(b)') /\ FoundOK(b)'
  BY <1>1, <1>5, ChildUntouched DEF CoordinatorInv, WorkInv, JobInv, Found, ReservedFor, StopPending, Call
<1>9. ReservedFor(a)' /\ ~StopPending(a)'
  BY <1>1, <1>2 DEF ReservedFor, StopPending, Call
<1>10. WorkOK(a)' /\ JobOK(a)' /\ FoundOK(a)'
  BY <1>1, <1>5, <1>9, ActiveJobs DEF WorkOK, JobOK, FoundOK, Reserved, Fresh
<1>11. WorkInv' /\ JobInv' /\ Found'
  BY <1>3, <1>8, <1>10 DEF WorkInv, JobInv, Found, TypeOK
<1>12. QED
  BY <1>3, <1>4, <1>6, <1>7, <1>11 DEF CoordinatorInv

(* A call that is prepared against the job of a child that exists.          *)
LEMMA PrepareKeeps ==
  ASSUME CoordinatorInv, NEW a \in Agents, Observe(a) \/ Stop(a)
  PROVE  CoordinatorInv'
<1>1. /\ op = NoOp /\ mode = "here" /\ manual = FALSE
      /\ a \in DOMAIN jobs
      /\ UNCHANGED <<nodes, bound, stops, observed, result, jobs, work, mode, manual, faults>>
  BY ActiveJobs DEF Observe, Stop, ParentReady, journal, CoordinatorInv, TypeOK
<1>2. Assigned(a)
  <2>1. CASE Observe(a)
    BY <1>1, <2>1 DEF Observe, CoordinatorInv, JobInv, JobOK, Assigned
  <2>2. CASE Stop(a)
    BY <1>1, <2>2 DEF Stop, CoordinatorInv, JobInv, JobOK, ReservedFor
  <2>3. QED
    BY <2>1, <2>2
<1>3. bound[a] \in Tasks \cup {Standalone}
  BY <1>2 DEF Assigned, CoordinatorInv, TypeOK
<1>4. /\ op' \in Op /\ op' # NoOp /\ op'.agent = a /\ op'.task = bound[a] /\ ~op'.persisted
      /\ op'.action # "activate"
      /\ op'.action = "observe" => IsTerminal(a) /\ op'.complete = (jobs[a].status = "completed")
  <2>1. CASE Observe(a)
    <3> DEFINE complete == jobs[a].status = "completed"
    <3>1. complete \in BOOLEAN /\ op' = Call("observe", a, bound[a], complete) /\ IsTerminal(a)
      BY <2>1 DEF Observe
    <3> HIDE DEF complete
    <3>2. /\ op' \in Op /\ op' # NoOp /\ op'.agent = a /\ op'.task = bound[a] /\ op'.persisted = FALSE
          /\ op'.action = "observe" /\ op'.complete = complete
      BY <1>3, <3>1 DEF Call, Op, NoOp
    <3>3. QED
      BY <3>1, <3>2, Zenon DEF complete
  <2>2. CASE Stop(a)
    <3>1. op' = Call("request_stop", a, bound[a], FALSE)
      BY <2>2 DEF Stop
    <3>2. /\ op' \in Op /\ op' # NoOp /\ op'.agent = a /\ op'.task = bound[a] /\ op'.persisted = FALSE
          /\ op'.action = "request_stop"
      BY <1>3, <3>1 DEF Call, Op, NoOp
    <3>3. QED
      BY <3>2
  <2>3. QED
    BY <2>1, <2>2
<1>5. TypeOK' /\ JournalInv' /\ ModeInv'
  BY <1>1, <1>4 DEF CoordinatorInv, TypeOK, JournalInv, HoldersInv, Fresh, ModeInv
<1>6. \A b \in Agents : Assigned(b)' <=> Assigned(b)
  BY <1>1 DEF Assigned, Claims
<1>7. OpInv'
  BY <1>1, <1>2, <1>4, <1>6 DEF OpInv, ActivateInv, ObserveInv, StopInv, IsTerminal
<1>8. ASSUME NEW b \in Agents
      PROVE  WorkOK(b)' /\ (b \in DOMAIN jobs => JobOK(b)') /\ FoundOK(b)'
  BY <1>1, <1>4, <1>6, ChildUntouched
     DEF CoordinatorInv, WorkInv, JobInv, Found, ReservedFor, StopPending
<1>9. QED
  BY <1>1, <1>5, <1>7, <1>8, ChildrenUntouched

(* The operations of the graph change one task.                             *)
LEMMA ReplaceNode ==
  ASSUME NEW g, IsGraph(g), NEW t \in DOMAIN g, NEW n \in Node, NEW h, h = [g EXCEPT ![t] = n]
  PROVE  IsGraph(h) /\ DOMAIN h = DOMAIN g /\ h[t] = n /\ \A u \in DOMAIN g \ {t} : h[u] = g[u]
  BY DEF IsGraph

LEMMA ClaimedGraph ==
  ASSUME NEW g, IsGraph(g), NEW t \in DOMAIN g, NEW a \in Agents
  PROVE  LET h == Claimed(g, t, a)
         IN /\ IsGraph(h) /\ DOMAIN h = DOMAIN g /\ \A u \in DOMAIN g \ {t} : h[u] = g[u]
            /\ h[t].owner = a /\ h[t].status = "in_progress"
<1> DEFINE n == [g[t] EXCEPT !.status = "in_progress", !.owner = a]
<1>1. n \in Node /\ n.owner = a /\ n.status = "in_progress"
  BY DEF Node, TaskStatus, IsGraph
<1>2. Claimed(g, t, a) = [g EXCEPT ![t] = n]
  BY DEF Claimed, IsGraph
<1> DEFINE h == [g EXCEPT ![t] = n]
<1> HIDE DEF n
<1>3. IsGraph(h) /\ DOMAIN h = DOMAIN g /\ h[t] = n /\ \A u \in DOMAIN g \ {t} : h[u] = g[u]
  BY <1>1, ReplaceNode
<1>4. QED
  BY <1>1, <1>2, <1>3

LEMMA CompletedGraph ==
  ASSUME NEW g, IsGraph(g), NEW t \in DOMAIN g
  PROVE  LET h == ChildCompleted(g, t, FALSE, {})
         IN /\ IsGraph(h) /\ DOMAIN h = DOMAIN g /\ \A u \in DOMAIN g \ {t} : h[u] = g[u]
            /\ h[t].owner = g[t].owner /\ h[t].status = "completed"
<1> DEFINE n == [g[t] EXCEPT !.status = "completed", !.artifact = FALSE, !.lineage = {}]
<1>1. n \in Node /\ n.owner = g[t].owner /\ n.status = "completed"
  BY DEF Node, TaskStatus, IsGraph
<1>2. ChildCompleted(g, t, FALSE, {}) = [g EXCEPT ![t] = n]
  BY DEF ChildCompleted, IsGraph
<1> DEFINE h == [g EXCEPT ![t] = n]
<1> HIDE DEF n
<1>3. IsGraph(h) /\ DOMAIN h = DOMAIN g /\ h[t] = n /\ \A u \in DOMAIN g \ {t} : h[u] = g[u]
  BY <1>1, ReplaceNode
<1>4. QED
  BY <1>1, <1>2, <1>3

LEMMA ReleasedGraph ==
  ASSUME NEW g, IsGraph(g), NEW t \in DOMAIN g
  PROVE  LET h == Released(g, t)
         IN /\ IsGraph(h) /\ DOMAIN h = DOMAIN g /\ \A u \in DOMAIN g \ {t} : h[u] = g[u]
            /\ h[t].owner = Main /\ h[t].status = "pending"
<1> DEFINE n == [g[t] EXCEPT !.status = "pending", !.owner = Main]
<1>1. n \in Node /\ n.owner = Main /\ n.status = "pending"
  BY DEF Node, TaskStatus, IsGraph
<1>2. Released(g, t) = [g EXCEPT ![t] = n]
  BY DEF Released, IsGraph
<1> DEFINE h == [g EXCEPT ![t] = n]
<1> HIDE DEF n
<1>3. IsGraph(h) /\ DOMAIN h = DOMAIN g /\ h[t] = n /\ \A u \in DOMAIN g \ {t} : h[u] = g[u]
  BY <1>1, ReplaceNode
<1>4. QED
  BY <1>1, <1>2, <1>3

(* The event of an assignment, with the graph it carries.                   *)
LEMMA PersistActivateKeeps ==
  ASSUME CoordinatorInv, Persist, NEW a \in Agents, NEW t \in Tasks \cup {Standalone},
         op.action = "activate", op.agent = a, op.task = t
  PROVE  CoordinatorInv'
<1>1. /\ op \in Op /\ op # NoOp /\ op.persisted = FALSE
      /\ mode = "here" /\ a \in Active /\ ~jobs[a].activated /\ ~jobs[a].stopReason
      /\ bound[a] = Unbound
      /\ t \in Tasks => t \in DOMAIN nodes /\ nodes[t].owner = Main
  BY DEF Persist, CoordinatorInv, TypeOK, Op, OpInv, ActivateInv
<1>2. /\ op' = [op EXCEPT !.persisted = TRUE]
      /\ bound' = [bound EXCEPT ![a] = t]
      /\ nodes' = IF t \in Tasks THEN Claimed(nodes, t, a) ELSE nodes
      /\ UNCHANGED <<stops, observed, result, jobs, work, mode, manual, faults>>
  BY DEF Persist
<1>3. /\ op' \in Op /\ op' # NoOp /\ op'.persisted = TRUE /\ op'.action = "activate"
      /\ op'.agent = a /\ op'.task = t
  BY <1>1, <1>2 DEF Op, NoOp
<1>4. bound'[a] = t /\ \A b \in Agents \ {a} : bound'[b] = bound[b]
  BY <1>1, <1>2 DEF CoordinatorInv, TypeOK
<1>5. /\ IsGraph(nodes') /\ DOMAIN nodes' = DOMAIN nodes
      /\ \A u \in DOMAIN nodes : u # t => nodes'[u] = nodes[u]
      /\ t \in Tasks => /\ t \in DOMAIN nodes
                        /\ nodes'[t].owner = a /\ nodes'[t].status = "in_progress"
  <2>1. CASE t \in Tasks
    BY <1>1, <1>2, <2>1, ClaimedGraph DEF CoordinatorInv, TypeOK
  <2>2. CASE t \notin Tasks
    BY <1>1, <1>2, <2>2 DEF CoordinatorInv, TypeOK, IsGraph
  <2>3. QED
    BY <2>1, <2>2
<1>6. Fresh(a) /\ a \notin stops \cup observed
  BY <1>1 DEF CoordinatorInv, JournalInv, HoldersInv, Fresh
<1>7. TypeOK'
  BY <1>1, <1>2, <1>3, <1>5 DEF CoordinatorInv, TypeOK
<1>8. JournalInv'
  BY <1>1, <1>2, <1>4, <1>5, <1>6, NotTasks DEF CoordinatorInv, JournalInv, HoldersInv, Fresh, TypeOK, IsGraph
<1>9. Assigned(a)' /\ ReservedFor(a) /\ ReservedFor(a)'
  BY <1>1, <1>3, <1>4, <1>5, NotTasks DEF Assigned, Claims, Holds, WithStatus, ReservedFor
<1>10. \A b \in Agents \ {a} : Assigned(b)' <=> Assigned(b)
  BY <1>1, <1>4, <1>5, MainIsNoAgent DEF Assigned, Claims, Holds, WithStatus
<1>11. OpInv' /\ ModeInv'
  BY <1>1, <1>2, <1>3, <1>4, <1>9 DEF CoordinatorInv, OpInv, ActivateInv, ObserveInv, StopInv, ModeInv, Active, IsTerminal
<1>12. ASSUME NEW b \in Agents \ {a}
      PROVE  WorkOK(b)' /\ (b \in DOMAIN jobs => JobOK(b)') /\ FoundOK(b)'
  BY <1>1, <1>2, <1>3, <1>4, <1>10, ChildUntouched
     DEF CoordinatorInv, WorkInv, JobInv, Found, ReservedFor, StopPending
<1>13. WorkOK(a)' /\ JobOK(a)' /\ FoundOK(a)'
  <2>1. work[a] = Idle /\ JobOK(a) /\ Fresh(a)'
    BY <1>1, <1>2, <1>6, ActiveJobs DEF CoordinatorInv, WorkInv, WorkOK, JobInv, Fresh, Active
  <2>2. a \in Active' /\ jobs'[a] = jobs[a] /\ work'[a] = Idle
    BY <1>1, <1>2, <2>1 DEF Active, IsTerminal
  <2>3. QED
    BY <1>1, <1>2, <1>9, <2>1, <2>2, ActiveJobs DEF WorkOK, JobOK, FoundOK, Fresh
<1>14. QED
  BY <1>2, <1>7, <1>8, <1>11, <1>12, <1>13, ChildrenUntouched

(* The event of a collection, with the graph it carries.                    *)
LEMMA PersistObserveKeeps ==
  ASSUME CoordinatorInv, Persist, NEW a \in Agents, NEW t \in Tasks \cup {Standalone},
         op.action = "observe", op.agent = a, op.task = t
  PROVE  CoordinatorInv'
<1>1. /\ op \in Op /\ op # NoOp /\ op.persisted = FALSE
      /\ mode = "here" /\ a \in DOMAIN jobs /\ IsTerminal(a) /\ bound[a] = t /\ Assigned(a)
  BY DEF Persist, CoordinatorInv, TypeOK, Op, OpInv, ObserveInv
<1>2. /\ op' = [op EXCEPT !.persisted = TRUE]
      /\ observed' = observed \cup {a}
      /\ nodes' = IF t \notin Tasks THEN nodes
                  ELSE IF op.complete THEN ChildCompleted(nodes, t, FALSE, {})
                  ELSE Released(nodes, t)
      /\ UNCHANGED <<bound, stops, result, jobs, work, mode, manual, faults>>
  BY DEF Persist
<1>3. /\ op' \in Op /\ op' # NoOp /\ op'.persisted = TRUE /\ op'.action = "observe"
      /\ op'.agent = a /\ op'.task = t /\ op'.complete = op.complete
  BY <1>1, <1>2 DEF Op, NoOp
<1>4. /\ IsGraph(nodes') /\ DOMAIN nodes' = DOMAIN nodes
      /\ \A u \in DOMAIN nodes : u # t => nodes'[u] = nodes[u]
      /\ t \in Tasks => /\ t \in DOMAIN nodes /\ nodes[t].owner = a
                        /\ nodes'[t].owner \in {a, Main} /\ nodes'[t].status # "in_progress"
  <2>1. CASE t \in Tasks
    <3>1. t \in DOMAIN nodes /\ nodes[t].owner = a /\ IsGraph(nodes)
      BY <1>1, <2>1 DEF Assigned, Claims, Holds, WithStatus, CoordinatorInv, TypeOK
    <3>2. CASE nodes' = ChildCompleted(nodes, t, FALSE, {})
      <4> DEFINE h == ChildCompleted(nodes, t, FALSE, {})
      <4>1. /\ IsGraph(h) /\ DOMAIN h = DOMAIN nodes /\ \A u \in DOMAIN nodes \ {t} : h[u] = nodes[u]
            /\ h[t].owner = nodes[t].owner /\ h[t].status = "completed"
        BY <3>1, CompletedGraph, Zenon
      <4> HIDE DEF h
      <4>2. nodes' = h
        BY <3>2 DEF h
      <4>3. QED
        BY <2>1, <3>1, <4>1, <4>2
    <3>3. CASE nodes' = Released(nodes, t)
      BY <2>1, <3>1, <3>3, ReleasedGraph
    <3>4. QED
      BY <1>2, <2>1, <3>2, <3>3
  <2>2. CASE t \notin Tasks
    BY <1>2, <2>2 DEF CoordinatorInv, TypeOK, IsGraph
  <2>3. QED
    BY <2>1, <2>2
<1>5. TypeOK'
  BY <1>2, <1>3, <1>4 DEF CoordinatorInv, TypeOK
<1>6. JournalInv'
  <2>1. DOMAIN nodes \subseteq Tasks /\ JournalInv /\ a # Main
    BY MainIsNoAgent DEF CoordinatorInv, TypeOK, IsGraph
  <2>2. \A b \in Agents : bound'[b] = Unbound => Fresh(b)'
    BY <1>1, <1>2, <2>1 DEF JournalInv, HoldersInv, Fresh, Assigned
  <2>3. \A u \in DOMAIN nodes' : nodes'[u].owner # Main => bound'[nodes'[u].owner] = u
    BY <1>1, <1>2, <1>4, <2>1 DEF JournalInv, HoldersInv
  <2>4. \A u \in DOMAIN nodes' : nodes'[u].owner \in observed' => nodes'[u].status # "in_progress"
    <3>1. SUFFICES ASSUME NEW u \in DOMAIN nodes, u # t, nodes[u].owner \in observed \cup {a}
                   PROVE  nodes[u].status # "in_progress"
      BY <1>2, <1>4, <2>1
    <3>2. QED
      BY <1>1, <2>1, <3>1 DEF JournalInv, HoldersInv
  <2>5. QED
    BY <2>2, <2>3, <2>4 DEF JournalInv, HoldersInv
<1>7. \A b \in Agents \ {a} : Assigned(b)' <=> Assigned(b)
  BY <1>2, <1>4, MainIsNoAgent DEF Assigned, Claims, Holds, WithStatus
<1>8. OpInv' /\ ModeInv'
  BY <1>1, <1>2, <1>3 DEF CoordinatorInv, OpInv, ActivateInv, ObserveInv, StopInv, ModeInv, IsTerminal
<1>9. ASSUME NEW b \in Agents \ {a}
      PROVE  WorkOK(b)' /\ (b \in DOMAIN jobs => JobOK(b)') /\ FoundOK(b)'
  BY <1>1, <1>2, <1>3, <1>7, ChildUntouched
     DEF CoordinatorInv, WorkInv, JobInv, Found, ReservedFor, StopPending
<1>10. WorkOK(a)' /\ JobOK(a)' /\ FoundOK(a)'
  <2>1. work[a] = Idle /\ JobOK(a) /\ ~StopPending(a)
    BY <1>1, ActiveJobs DEF CoordinatorInv, WorkInv, WorkOK, JobInv, StopPending
  <2>2. a \notin Active' /\ jobs' = jobs /\ work'[a] = Idle /\ IsTerminal(a)'
    BY <1>1, <1>2, <2>1, ActiveJobs DEF IsTerminal
  <2>3. QED
    BY <1>1, <1>2, <2>1, <2>2 DEF WorkOK, JobOK, FoundOK
<1>11. QED
  BY <1>2, <1>5, <1>6, <1>8, <1>9, <1>10, ChildrenUntouched

(* The event of a stop.                                                     *)
LEMMA PersistStopKeeps ==
  ASSUME CoordinatorInv, Persist, NEW a \in Agents, NEW t \in Tasks \cup {Standalone},
         op.action = "request_stop", op.agent = a, op.task = t
  PROVE  CoordinatorInv'
<1>1. /\ op \in Op /\ op # NoOp /\ op.persisted = FALSE
      /\ mode = "here" /\ manual = FALSE /\ a \in DOMAIN jobs /\ bound[a] = t /\ Assigned(a)
  BY DEF Persist, CoordinatorInv, TypeOK, Op, OpInv, StopInv
<1>2. /\ op' = [op EXCEPT !.persisted = TRUE]
      /\ stops' = stops \cup {a}
      /\ UNCHANGED <<nodes, bound, observed, result, jobs, work, mode, manual, faults>>
  BY DEF Persist
<1>3. /\ op' \in Op /\ op' # NoOp /\ op'.persisted = TRUE /\ op'.action = "request_stop"
      /\ op'.agent = a /\ op'.task = t
  BY <1>1, <1>2 DEF Op, NoOp
<1>4. TypeOK' /\ JournalInv' /\ ModeInv'
  BY <1>1, <1>2, <1>3 DEF CoordinatorInv, TypeOK, JournalInv, HoldersInv, Fresh, ModeInv, Assigned
<1>5. \A b \in Agents : Assigned(b)' <=> Assigned(b)
  BY <1>2 DEF Assigned, Claims
<1>6. OpInv'
  BY <1>1, <1>2, <1>3, <1>5 DEF CoordinatorInv, OpInv, ActivateInv, ObserveInv, StopInv
<1>7. ASSUME NEW b \in Agents \ {a}
      PROVE  WorkOK(b)' /\ (b \in DOMAIN jobs => JobOK(b)') /\ FoundOK(b)'
  BY <1>1, <1>2, <1>3, <1>5, ChildUntouched
     DEF CoordinatorInv, WorkInv, JobInv, Found, ReservedFor, StopPending
<1>8. WorkOK(a)' /\ JobOK(a)' /\ FoundOK(a)'
  <2>1. WorkOK(a) /\ JobOK(a) /\ FoundOK(a)
    BY <1>1 DEF CoordinatorInv, WorkInv, JobInv, Found
  <2>2. /\ StopPending(a)' /\ ~ReservedFor(a)
        /\ a \in Active' <=> a \in Active
        /\ IsTerminal(a)' <=> IsTerminal(a)
    BY <1>2, <1>3, ActiveJobs DEF StopPending, ReservedFor, IsTerminal
  <2>3. ~(a \in Active /\ ~jobs[a].activated)
    BY <1>1, <2>1, <2>2 DEF JobOK
  <2>4. QED
    BY <1>1, <1>2, <1>5, <2>1, <2>2, <2>3 DEF WorkOK, JobOK, FoundOK
<1>9. QED
  BY <1>2, <1>4, <1>6, <1>7, <1>8, ChildrenUntouched

LEMMA PersistKeeps ==
  ASSUME CoordinatorInv, Persist
  PROVE  CoordinatorInv'
<1>1. op \in Op
  BY DEF Persist, CoordinatorInv, TypeOK
<1>2. /\ op.agent \in Agents /\ op.task \in Tasks \cup {Standalone}
      /\ op.action \in {"activate", "observe", "request_stop"}
  BY <1>1 DEF Op
<1>3. QED
  BY <1>2, PersistActivateKeeps, PersistObserveKeeps, PersistStopKeeps

(* A call that is given up: only a reservation leaves a trace to remove.    *)
LEMMA RollbackKeeps ==
  ASSUME CoordinatorInv, NEW a \in Agents, op.agent = a, RollbackLifecycle
  PROVE  CoordinatorInv'
<1>1. /\ op # NoOp /\ op.persisted = FALSE /\ mode = "here" /\ a \in DOMAIN jobs
      /\ op' = NoOp /\ faults' \in 0 .. MaxFaults
      /\ UNCHANGED <<nodes, bound, stops, observed, result, work, mode, manual>>
      /\ jobs' = [b \in DOMAIN jobs \ (IF op.action = "activate" THEN {a} ELSE {}) |-> jobs[b]]
  BY FaultsNatural DEF RollbackLifecycle, Without, Fault, journal, CoordinatorInv, OpInv, TypeOK, Op
<1>2. TypeOK' /\ JournalInv' /\ ModeInv' /\ OpInv'
  BY <1>1 DEF CoordinatorInv, TypeOK, JournalInv, HoldersInv, Fresh, ModeInv, OpInv
<1>3. \A b \in Agents : Assigned(b)' <=> Assigned(b)
  BY <1>1 DEF Assigned, Claims
<1>4. ASSUME NEW b \in Agents, b # a \/ op.action # "activate"
      PROVE  WorkOK(b)' /\ (b \in DOMAIN jobs => JobOK(b)') /\ FoundOK(b)'
  <2>1. ~ReservedFor(b) /\ ~StopPending(b) /\ ~StopPending(b)'
    BY <1>1, <1>4 DEF ReservedFor, StopPending
  <2>2. b \in DOMAIN jobs <=> b \in DOMAIN jobs'
    BY <1>1, <1>4
  <2>3. b \in DOMAIN jobs => jobs'[b] = jobs[b]
    BY <1>1, <1>4
  <2>4. QED
    BY <1>1, <1>3, <2>1, <2>2, <2>3, ChildUntouched DEF CoordinatorInv, WorkInv, JobInv, Found
<1>5. CASE op.action = "activate"
  <2>1. bound[a] = Unbound /\ a \in Active /\ ~jobs[a].activated
    BY <1>1, <1>5 DEF CoordinatorInv, OpInv, ActivateInv
  <2>2. WorkOK(a)' /\ FoundOK(a)' /\ a \notin DOMAIN jobs'
    BY <1>1, <1>3, <1>5, <2>1 DEF WorkOK, FoundOK, Assigned, CoordinatorInv, WorkInv
  <2>3. DOMAIN jobs' \subseteq DOMAIN jobs /\ DOMAIN jobs \subseteq Agents
    BY <1>1 DEF CoordinatorInv, TypeOK
  <2>4. QED
    BY <1>2, <1>4, <2>2, <2>3 DEF CoordinatorInv, WorkInv, JobInv, Found
<1>6. CASE op.action # "activate"
  BY <1>1, <1>2, <1>4, <1>6, ChildrenUntouched
<1>7. QED
  BY <1>5, <1>6

(* The commit of a call whose event is written.                             *)
LEMMA CommitKeeps ==
  ASSUME CoordinatorInv, NEW a \in Agents, op.agent = a, CommitLifecycle
  PROVE  CoordinatorInv'
<1>1. /\ op \in Op /\ op # NoOp /\ op.persisted = TRUE /\ mode = "here" /\ manual = FALSE
      /\ a \in DOMAIN jobs /\ jobs[a] \in Job /\ JobOK(a) /\ WorkOK(a) /\ FoundOK(a)
      /\ op' = NoOp
      /\ UNCHANGED <<nodes, bound, stops, observed, result, mode, manual, faults>>
  BY DEF CommitLifecycle, journal, CoordinatorInv, OpInv, TypeOK, Op, JobInv, WorkInv, Found
<1>2. JournalInv' /\ ModeInv' /\ OpInv'
  BY <1>1 DEF CoordinatorInv, JournalInv, HoldersInv, Fresh, ModeInv, OpInv
<1>3. \A b \in Agents : Assigned(b)' <=> Assigned(b)
  BY <1>1 DEF Assigned, Claims
<1>4. /\ DOMAIN jobs' = DOMAIN jobs
      /\ \A b \in DOMAIN jobs : b # a => jobs'[b] = jobs[b]
      /\ \A b \in Agents : b # a => work'[b] = work[b]
  BY <1>1 DEF CommitLifecycle, CoordinatorInv, TypeOK
<1>5. ASSUME NEW b \in Agents \ {a}
      PROVE  WorkOK(b)' /\ (b \in DOMAIN jobs => JobOK(b)') /\ FoundOK(b)'
  BY <1>1, <1>3, <1>4, ChildUntouched
     DEF CoordinatorInv, WorkInv, JobInv, Found, ReservedFor, StopPending
<1>6. ~ReservedFor(a)' /\ ~StopPending(a)'
  BY <1>1 DEF ReservedFor, StopPending
<1>7. jobs'[a] \in Job /\ work' \in [Agents -> Work] /\ WorkOK(a)' /\ JobOK(a)' /\ FoundOK(a)'
  <2>1. CASE op.action = "activate"
    <3>1. /\ a \in Active /\ jobs[a].activated = FALSE /\ jobs[a].stopReason = FALSE /\ Assigned(a)
          /\ Fresh(a) /\ ~jobs[a].preparedRestore
      BY <1>1, <2>1, JobFields DEF CoordinatorInv, OpInv, ActivateInv, JobOK
    <3>2. /\ jobs' = [jobs EXCEPT ![a].activated = TRUE]
          /\ work' = [work EXCEPT ![a] = Running]
      BY <1>1, <2>1 DEF CommitLifecycle
    <3>3. /\ jobs'[a] \in Job /\ jobs'[a].activated /\ jobs'[a].status = jobs[a].status
          /\ jobs'[a].stopReason = FALSE /\ ~jobs'[a].preparedRestore
      BY <1>1, <3>1, <3>2 DEF Job
    <3>4. work'[a] = Running /\ Running # Idle /\ work' \in [Agents -> Work]
      BY <3>2 DEF CoordinatorInv, TypeOK, Running, Idle, Work, Reasons
    <3>5. a \in Active' /\ ~IsTerminal(a)'
      BY <1>1, <1>4, <3>1, <3>3, ActiveJobs DEF IsTerminal
    <3>6. WorkOK(a)'
      BY <1>1, <3>1, <3>3, <3>4, <3>5 DEF WorkOK, Running, Fresh
    <3>7. JobOK(a)'
      BY <1>1, <1>3, <3>1, <3>3, <3>5, ActiveJobs DEF JobOK, Fresh, IsTerminal, Terminal, Reports
    <3>8. FoundOK(a)'
      BY <1>1, <1>4, <3>4 DEF FoundOK
    <3>9. QED
      BY <3>3, <3>4, <3>6, <3>7, <3>8
  <2>2. CASE op.action = "observe"
    <3>1. /\ jobs' = [jobs EXCEPT ![a].graphObserved = TRUE]
          /\ work' = work /\ IsTerminal(a) /\ ~ReservedFor(a) /\ ~StopPending(a)
      BY <1>1, <2>2 DEF CommitLifecycle, ReservedFor, StopPending
    <3>2. /\ jobs'[a] \in Job /\ jobs'[a].activated = jobs[a].activated
          /\ jobs'[a].status = jobs[a].status /\ jobs'[a].stopReason = jobs[a].stopReason
          /\ jobs'[a].preparedRestore = jobs[a].preparedRestore
      BY <1>1, <3>1 DEF Job
    <3>3. QED
      BY <1>1, <1>3, <1>4, <1>6, <3>1, <3>2, ChildUntouched DEF CoordinatorInv, TypeOK
  <2>3. CASE op.action = "request_stop"
    <3>1. /\ jobs' = [jobs EXCEPT ![a] = StoppedJob(jobs[a])]
          /\ work' = work /\ ~ReservedFor(a) /\ a \in stops /\ Assigned(a)
      BY <1>1, <2>3 DEF CommitLifecycle, ReservedFor, CoordinatorInv, OpInv, StopInv
    <3>2. /\ jobs'[a] \in Job /\ jobs'[a].activated = jobs[a].activated
          /\ jobs'[a].stopReason = TRUE
          /\ jobs'[a].preparedRestore = jobs[a].preparedRestore
          /\ IsTerminal(a) => jobs'[a].status = "stopped"
          /\ ~IsTerminal(a) => jobs'[a].status = "stopping"
      BY <1>1, <3>1 DEF Job, StoppedJob, IsTerminal, Terminal, Reports
    <3>3. /\ IsTerminal(a)' <=> IsTerminal(a)
          /\ a \in Active' <=> a \in Active
          /\ jobs'[a].status # "completed"
      BY <1>1, <1>4, <3>2, ActiveJobs DEF IsTerminal, Terminal, Reports
    <3>4. WorkOK(a)' /\ FoundOK(a)'
      BY <1>1, <1>3, <1>4, <3>1, <3>2, <3>3 DEF WorkOK, FoundOK
    <3>5. JobOK(a)'
      BY <1>1, <1>3, <3>1, <3>2, <3>3 DEF JobOK, Fresh
    <3>6. QED
      BY <3>1, <3>2, <3>4, <3>5 DEF CoordinatorInv, TypeOK
  <2>4. QED
    BY <2>1, <2>2, <2>3, <1>1 DEF Op
<1>8. TypeOK'
  BY <1>1, <1>4, <1>7 DEF CoordinatorInv, TypeOK
<1>9. QED
  BY <1>2, <1>4, <1>5, <1>7, <1>8, ChildrenUntouched

-----------------------------------------------------------------------------
(* The execution of a child.                                                *)

(* What an executing child implies about its job.                           *)
LEMMA ExecutingChild ==
  ASSUME CoordinatorInv, NEW a \in Agents, work[a] # Idle
  PROVE  /\ a \in DOMAIN jobs /\ a \in Active /\ ~IsTerminal(a)
         /\ jobs[a] \in Job /\ jobs[a].activated /\ Assigned(a)
         /\ ~ReservedFor(a) /\ mode \in {"here", "pausing"}
<1>1. /\ WorkOK(a) /\ a \in Active /\ a \in DOMAIN jobs /\ ~IsTerminal(a)
      /\ JobOK(a) /\ jobs[a] \in Job /\ jobs[a].activated
  BY ActiveJobs DEF CoordinatorInv, WorkInv, WorkOK, JobInv, TypeOK
<1>2. ~ReservedFor(a)
  BY <1>1 DEF ReservedFor, CoordinatorInv, OpInv, ActivateInv
<1>3. mode \in {"here", "pausing"}
  BY <1>1 DEF CoordinatorInv, ModeInv, TypeOK
<1>4. QED
  BY <1>1, <1>2, <1>3 DEF JobOK

(* A step of the execution that leaves the job alone.                       *)
LEMMA ExecutionKeeps ==
  ASSUME CoordinatorInv, NEW a \in Agents, work[a] # Idle,
         UNCHANGED <<nodes, bound, stops, observed, jobs, op, mode, manual>>,
         faults' \in 0 .. MaxFaults,
         work' \in [Agents -> Work], \A b \in Agents \ {a} : work'[b] = work[b],
         result' \in [Agents -> Reasons], \A b \in Agents \ {a} : result'[b] = result[b],
         work'[a] # Idle, work'[a].at \in {"finalizing", "retaining", "releasing"},
         work'[a].at \in {"finalizing", "releasing"} => work'[a].reason \in Terminal,
         work'[a].at # "releasing" => result'[a] = "none",
         work'[a].at = "releasing" => result'[a] \in {work'[a].reason, "none"},
         work'[a].at = "releasing" /\ work'[a].reason = "completed" => result'[a] = "completed"
  PROVE  CoordinatorInv'
<1>1. /\ a \in DOMAIN jobs /\ a \in Active /\ ~IsTerminal(a)
      /\ jobs[a].activated /\ Assigned(a) /\ ~ReservedFor(a) /\ jobs[a] \in Job
  BY ExecutingChild
<1>2. \A b \in Agents : (Assigned(b)' <=> Assigned(b)) /\ (ReservedFor(b)' <=> ReservedFor(b))
                        /\ (StopPending(b)' <=> StopPending(b))
  BY DEF Assigned, Claims, ReservedFor, StopPending
<1>3. TypeOK' /\ JournalInv' /\ ModeInv'
  BY <1>1 DEF CoordinatorInv, TypeOK, JournalInv, HoldersInv, Fresh, ModeInv, Active, IsTerminal, Assigned
<1>4. OpInv'
  BY <1>2 DEF CoordinatorInv, OpInv, ActivateInv, ObserveInv, StopInv, TypeOK, Op, Active, IsTerminal
<1>5. ASSUME NEW b \in Agents \ {a}
      PROVE  WorkOK(b)' /\ (b \in DOMAIN jobs => JobOK(b)') /\ FoundOK(b)'
  <2>1. FoundOK(b)
    BY ExecutingChild DEF CoordinatorInv, Found
  <2>2. QED
    BY <1>2, <2>1, ChildUntouched DEF CoordinatorInv, WorkInv, JobInv
<1>6. WorkOK(a)' /\ JobOK(a)' /\ FoundOK(a)'
  <2>1. a \in Active' /\ ~IsTerminal(a)' /\ jobs'[a] = jobs[a] /\ JobOK(a)
    BY <1>1, ActiveJobs DEF IsTerminal, CoordinatorInv, JobInv
  <2>2. jobs[a].status # "completed"
    BY <1>1 DEF IsTerminal, Terminal, Reports
  <2>3. JobOK(a)'
    BY <1>1, <1>2, <2>1, <2>2 DEF JobOK
  <2>4. WorkOK(a)' /\ FoundOK(a)'
    BY <1>1, <2>1 DEF WorkOK, FoundOK
  <2>5. QED
    BY <2>3, <2>4
<1>7. QED
  BY <1>3, <1>4, <1>5, <1>6, ChildrenUntouched

LEMMA FinishKeeps ==
  ASSUME CoordinatorInv, NEW a \in Agents, NEW report \in Reports, Finish(a, report)
  PROVE  CoordinatorInv'
<1>1. work[a].at = "running" /\ work[a] # Idle /\ work \in [Agents -> Work] /\ result[a] = "none"
  BY DEF Finish, CoordinatorInv, TypeOK, Idle, WorkInv, WorkOK
<1> DEFINE w == IF jobs[a].pauseRequested THEN [at |-> "releasing", reason |-> "interrupted"]
                ELSE [at |-> "finalizing", reason |-> IF Aborted(a) THEN "stopped" ELSE report]
<1>2. /\ w \in Work /\ w # Idle /\ w.reason \in Terminal /\ w.at \in {"finalizing", "releasing"}
      /\ w.at = "releasing" => w.reason = "interrupted"
  BY DEF Work, Idle, Terminal, Reports, Reasons
<1>3. work' = [work EXCEPT ![a] = w]
  BY DEF Finish
<1> HIDE DEF w
<1>4. QED
  BY <1>1, <1>2, <1>3, ExecutionKeeps DEF Finish, journal, CoordinatorInv, TypeOK

LEMMA FailKeeps ==
  ASSUME CoordinatorInv, NEW a \in Agents, Fail(a)
  PROVE  CoordinatorInv'
<1>1. /\ work[a].at \in {"running", "finalizing"} /\ work[a] # Idle /\ work \in [Agents -> Work]
      /\ result[a] = "none" /\ faults' \in 0 .. MaxFaults
  BY FaultsNatural DEF Fail, Fault, CoordinatorInv, TypeOK, Idle, WorkInv, WorkOK
<1> DEFINE w == IF jobs[a].pauseRequested THEN [at |-> "releasing", reason |-> "interrupted"]
                ELSE [at |-> "retaining", reason |-> "none"]
<1>2. /\ w \in Work /\ w # Idle /\ w.at \in {"retaining", "releasing"}
      /\ w.at = "releasing" => w.reason = "interrupted" /\ w.reason \in Terminal
  BY DEF Work, Idle, Terminal, Reports, Reasons
<1>3. work' = [work EXCEPT ![a] = w]
  BY DEF Fail
<1> HIDE DEF w
<1>4. QED
  BY <1>1, <1>2, <1>3, ExecutionKeeps DEF Fail, journal, CoordinatorInv, TypeOK

LEMMA RecordOutcomeKeeps ==
  ASSUME CoordinatorInv, NEW a \in Agents, RecordOutcome(a)
  PROVE  CoordinatorInv'
<1>1. /\ work[a].at = "finalizing" /\ work[a] # Idle /\ work[a] \in Work /\ work[a].reason \in Terminal
      /\ work \in [Agents -> Work]
  BY DEF RecordOutcome, CoordinatorInv, TypeOK, Idle, WorkInv, WorkOK
<1> DEFINE w == [work[a] EXCEPT !.at = "releasing"]
<1>2. w \in Work /\ w # Idle /\ w.at = "releasing" /\ w.reason = work[a].reason
  BY <1>1 DEF Work, Idle
<1>3. work' = [work EXCEPT ![a] = w]
  BY <1>1 DEF RecordOutcome
<1> HIDE DEF w
<1>4. QED
  BY <1>1, <1>2, <1>3, ExecutionKeeps DEF RecordOutcome, CoordinatorInv, TypeOK, Reasons

LEMMA RecordFailureKeeps ==
  ASSUME CoordinatorInv, NEW a \in Agents, RecordFailure(a)
  PROVE  CoordinatorInv'
<1>1. /\ work[a].at = "retaining" /\ work[a] # Idle /\ work \in [Agents -> Work]
      /\ result[a] = "none" /\ faults' \in 0 .. MaxFaults
  BY FaultsNatural DEF RecordFailure, Fault, CoordinatorInv, TypeOK, Idle, WorkInv, WorkOK
<1> DEFINE reason == IF Aborted(a) THEN "stopped" ELSE "failed"
           w == [at |-> "releasing", reason |-> reason]
<1>2. /\ w \in Work /\ w # Idle /\ w.at = "releasing" /\ w.reason = reason
      /\ reason \in {"stopped", "failed"} /\ reason \in Terminal
  BY DEF Work, Idle, Terminal, Reports, Reasons
<1>3. /\ work' = [work EXCEPT ![a] = w]
      /\ result' = [result EXCEPT ![a] = reason] \/ result' = result
  BY DEF RecordFailure
<1> HIDE DEF w, reason
<1>4. QED
  BY <1>1, <1>2, <1>3, ExecutionKeeps DEF RecordFailure, CoordinatorInv, TypeOK, Reasons

(* The end of an execution: the job agrees with the journal.                *)
LEMMA SettleKeeps ==
  ASSUME CoordinatorInv, NEW a \in Agents, Settle(a)
  PROVE  CoordinatorInv'
<1>1. /\ work[a].at = "releasing" /\ work[a] # Idle /\ work[a].reason \in Terminal /\ WorkOK(a)
  BY DEF Settle, Idle, CoordinatorInv, WorkInv, WorkOK
<1>2. /\ a \in DOMAIN jobs /\ a \in Active /\ ~IsTerminal(a) /\ jobs[a] \in Job /\ JobOK(a)
      /\ Assigned(a) /\ ~ReservedFor(a) /\ mode \in {"here", "pausing"}
  BY <1>1, ExecutingChild DEF CoordinatorInv, JobInv
<1> DEFINE s == StatusForOutcome(work[a].reason, Aborted(a), jobs[a].pauseRequested /\ ~jobs[a].stopReason)
<1>3. /\ s \in Terminal
      /\ s = "completed" => work[a].reason = "completed" /\ ~jobs[a].stopReason
      /\ work[a].reason = "completed" /\ ~jobs[a].stopReason => s = "completed"
  BY <1>1 DEF StatusForOutcome, Aborted, Terminal, Reports
<1>4. jobs' = [jobs EXCEPT ![a].status = s]
  BY DEF Settle
<1> HIDE DEF s
<1>5. /\ DOMAIN jobs' = DOMAIN jobs /\ \A b \in DOMAIN jobs \ {a} : jobs'[b] = jobs[b]
      /\ jobs'[a].status = s /\ jobs'[a].stopReason = jobs[a].stopReason /\ jobs'[a] \in Job
  BY <1>2, <1>3, <1>4 DEF Job
<1>6. /\ work'[a] = Idle /\ work' \in [Agents -> Work] /\ \A b \in Agents \ {a} : work'[b] = work[b]
      /\ UNCHANGED <<nodes, bound, stops, observed, result, op, mode, manual, faults>>
  BY DEF Settle, journal, CoordinatorInv, TypeOK, Work, Idle, Reasons
<1>7. \A b \in Agents : (Assigned(b)' <=> Assigned(b)) /\ (ReservedFor(b)' <=> ReservedFor(b))
                        /\ (StopPending(b)' <=> StopPending(b))
  BY <1>6 DEF Assigned, Claims, ReservedFor, StopPending
<1>8. IsTerminal(a)' /\ a \notin Active' /\ \A b \in DOMAIN jobs \ {a} : IsTerminal(b)' <=> IsTerminal(b)
  BY <1>3, <1>5, ActiveJobs DEF IsTerminal
<1>9. TypeOK' /\ JournalInv' /\ ModeInv'
  BY <1>2, <1>5, <1>6 DEF CoordinatorInv, TypeOK, JournalInv, HoldersInv, Fresh, ModeInv
<1>10. OpInv'
  <2>1. ASSUME op # NoOp, op.action = "observe"
        PROVE  op.agent # a
    BY <1>2, <2>1 DEF CoordinatorInv, OpInv, ObserveInv
  <2>2. ASSUME op # NoOp, op.action = "activate"
        PROVE  op.agent # a
    BY <1>2, <2>2 DEF ReservedFor
  <2>3. ASSUME op # NoOp
        PROVE  op.agent \in Agents
    BY <2>3 DEF CoordinatorInv, TypeOK, Op
  <2>4. QED
    BY <1>5, <1>6, <1>7, <1>8, <2>1, <2>2, <2>3, ActiveJobs
       DEF CoordinatorInv, OpInv, ActivateInv, ObserveInv, StopInv
<1>11. ASSUME NEW b \in Agents \ {a}
       PROVE  WorkOK(b)' /\ (b \in DOMAIN jobs => JobOK(b)') /\ FoundOK(b)'
  <2>1. FoundOK(b)
    BY <1>2 DEF CoordinatorInv, Found
  <2>2. QED
    BY <1>5, <1>6, <1>7, <2>1, ChildUntouched DEF CoordinatorInv, WorkInv, JobInv
<1>12. WorkOK(a)' /\ FoundOK(a)'
  BY <1>2, <1>5, <1>6, <1>8 DEF WorkOK, FoundOK
<1>13. JobOK(a)'
  <2>1. /\ s = "completed" => result[a] = "completed" /\ ~jobs[a].stopReason
        /\ result[a] = "completed" /\ s # "completed" => a \in stops
        /\ a \in stops /\ ~StopPending(a) => jobs[a].stopReason
        /\ jobs[a].stopReason => a \in stops
    BY <1>1, <1>2, <1>3 DEF WorkOK, JobOK
  <2>2. bound[a] # Unbound
    BY <1>2 DEF Assigned
  <2>3. QED
    BY <1>5, <1>6, <1>7, <1>8, <2>1, <2>2 DEF JobOK
<1>14. QED
  BY <1>5, <1>9, <1>10, <1>11, <1>12, <1>13, ChildrenUntouched

-----------------------------------------------------------------------------
(* Leaving the thread and coming back to it.                                *)

LEMMA PauseKeeps ==
  ASSUME CoordinatorInv, Pause
  PROVE  CoordinatorInv'
<1>1. /\ op = NoOp /\ mode = "here" /\ mode' = "pausing" /\ faults' \in 0 .. MaxFaults
      /\ DOMAIN jobs' = DOMAIN jobs
      /\ \A b \in DOMAIN jobs : jobs'[b] = PausedJob(jobs[b])
      /\ UNCHANGED <<nodes, bound, stops, observed, result, work, op, manual>>
  BY FaultsNatural DEF Pause, Fault, journal, CoordinatorInv, TypeOK
<1>2. \A b \in Agents : (Assigned(b)' <=> Assigned(b)) /\ ~ReservedFor(b) /\ ~ReservedFor(b)'
                        /\ ~StopPending(b) /\ ~StopPending(b)'
  BY <1>1 DEF Assigned, Claims, ReservedFor, StopPending
<1>3. ASSUME NEW b \in DOMAIN jobs
      PROVE  /\ jobs'[b] \in Job /\ JobOK(b)'
             /\ IsTerminal(b) => IsTerminal(b)'
             /\ jobs[b].activated => (IsTerminal(b)' <=> IsTerminal(b))
             /\ jobs'[b].activated = jobs[b].activated
             /\ jobs'[b].preparedRestore = jobs[b].preparedRestore
  <2>1. jobs[b] \in Job /\ JobOK(b) /\ b \in Agents
    BY DEF CoordinatorInv, JobInv, TypeOK
  <2>2. CASE IsTerminal(b)
    <3>1. jobs'[b] = jobs[b] /\ IsTerminal(b)' /\ b \notin Active' /\ b \notin Active
      BY <1>1, <2>2, ActiveJobs DEF PausedJob, IsTerminal
    <3>2. QED
      BY <1>1, <1>2, <2>1, <2>2, <3>1 DEF JobOK
  <2>3. CASE ~IsTerminal(b) /\ jobs[b].activated
    <3>1. /\ jobs'[b].status = jobs[b].status /\ jobs'[b].activated = jobs[b].activated
          /\ jobs'[b].stopReason = jobs[b].stopReason
          /\ jobs'[b].preparedRestore = jobs[b].preparedRestore
          /\ jobs'[b] \in Job
      BY <1>1, <2>1, <2>3 DEF PausedJob, IsTerminal, Job
    <3>2. JobOK(b)'
      BY <1>1, <1>2, <2>1, <3>1, ChildUntouched
    <3>3. QED
      BY <2>3, <3>1, <3>2 DEF IsTerminal
  <2>4. CASE ~IsTerminal(b) /\ ~jobs[b].activated
    <3>1. /\ jobs'[b].status = "interrupted" /\ jobs'[b].activated = jobs[b].activated
          /\ jobs'[b].stopReason = jobs[b].stopReason
          /\ jobs'[b].preparedRestore = jobs[b].preparedRestore
          /\ jobs'[b] \in Job
      <4>1. jobs'[b] = [jobs[b] EXCEPT !.pauseRequested = TRUE, !.status = "interrupted"]
        BY <1>1, <2>4 DEF PausedJob, IsTerminal
      <4>2. QED
        BY <2>1, <4>1 DEF Job, Terminal
    <3>2. Fresh(b) /\ Assigned(b)
      BY <1>2, <2>1, <2>4, ActiveJobs DEF JobOK
    <3>3. IsTerminal(b)' /\ b \notin Active'
      BY <3>1, ActiveJobs DEF IsTerminal, Terminal
    <3>4. JobOK(b)'
      BY <1>1, <1>2, <2>1, <3>1, <3>2, <3>3 DEF JobOK, Fresh, Assigned
    <3>5. QED
      BY <2>4, <3>1, <3>3, <3>4
  <2>5. QED
    BY <2>2, <2>3, <2>4
<1>4. TypeOK' /\ JournalInv' /\ ModeInv' /\ OpInv'
  BY <1>1, <1>3 DEF CoordinatorInv, TypeOK, JournalInv, HoldersInv, Fresh, ModeInv, OpInv
<1>5. ASSUME NEW b \in Agents
      PROVE  WorkOK(b)' /\ FoundOK(b)'
  <2>1. WorkOK(b) /\ FoundOK(b)
    BY <1>1 DEF CoordinatorInv, WorkInv, Found
  <2>2. WorkOK(b)'
    BY <1>1, <1>3, <2>1, ActiveJobs DEF WorkOK
  <2>3. FoundOK(b)'
    BY <1>1, <1>2, <1>3, <2>1 DEF FoundOK
  <2>4. QED
    BY <2>2, <2>3
<1>6. QED
  BY <1>1, <1>3, <1>4, <1>5, ChildrenUntouched

LEMMA SwitchAwayKeeps ==
  ASSUME CoordinatorInv, SwitchAway
  PROVE  CoordinatorInv'
<1>1. /\ mode = "pausing" /\ op = NoOp /\ mode' = "away"
      /\ \A b \in DOMAIN jobs : IsTerminal(b)
      /\ jobs' = [b \in DOMAIN jobs \ Paused |-> jobs[b]]
      /\ UNCHANGED <<nodes, bound, stops, observed, result, work, op, manual, faults>>
  BY DEF SwitchAway, Settled, Without, journal, CoordinatorInv, ModeInv
<1>2. /\ \A b \in DOMAIN jobs' : b \in DOMAIN jobs /\ jobs'[b] = jobs[b] /\ IsTerminal(b)'
      /\ Active = {} /\ Active' = {}
  BY <1>1, ActiveJobs DEF IsTerminal
<1>3. TypeOK' /\ JournalInv' /\ ModeInv' /\ OpInv'
  BY <1>1, <1>2 DEF CoordinatorInv, TypeOK, JournalInv, HoldersInv, Fresh, ModeInv, OpInv
<1>4. WorkInv' /\ Found'
  BY <1>1, <1>2 DEF CoordinatorInv, WorkInv, WorkOK, Found
<1>5. JobInv'
  <2>1. SUFFICES ASSUME NEW b \in DOMAIN jobs', JobOK(b), ~StopPending(b)
                 PROVE  JobOK(b)'
    BY <1>1, <1>2 DEF CoordinatorInv, JobInv, StopPending
  <2>2. QED
    BY <1>1, <1>2, <2>1 DEF JobOK
<1>6. QED
  BY <1>3, <1>4, <1>5 DEF CoordinatorInv

LEMMA CrashKeeps ==
  ASSUME CoordinatorInv, Crash
  PROVE  CoordinatorInv'
<1>1. /\ mode' = "down" /\ op' = NoOp /\ DOMAIN jobs' = {} /\ faults' \in 0 .. MaxFaults
      /\ work' = [a \in Agents |-> Idle]
      /\ UNCHANGED <<nodes, bound, stops, observed, result, manual>>
  BY FaultsNatural DEF Crash, Fault, journal, CoordinatorInv, TypeOK
<1>2. Idle \in Work /\ Active' = {}
  BY <1>1, ActiveJobs DEF Idle, Work, Reasons
<1>3. TypeOK' /\ JournalInv' /\ ModeInv' /\ OpInv'
  BY <1>1, <1>2 DEF CoordinatorInv, TypeOK, JournalInv, HoldersInv, Fresh, ModeInv, OpInv
<1>4. WorkInv' /\ JobInv' /\ Found'
  BY <1>1 DEF WorkInv, WorkOK, JobInv, Found
<1>5. QED
  BY <1>3, <1>4 DEF CoordinatorInv

LEMMA LeaveManualKeeps ==
  ASSUME CoordinatorInv, LeaveManual
  PROVE  CoordinatorInv'
<1>1. /\ mode = "here" /\ manual = TRUE /\ manual' = FALSE /\ op = NoOp
      /\ DOMAIN jobs' = DOMAIN jobs
      /\ \A b \in DOMAIN jobs :
           jobs'[b] = [jobs[b] EXCEPT !.activated = @ \/ jobs[b].preparedRestore, !.preparedRestore = FALSE]
      /\ work' = [a \in Agents |-> IF a \in Active /\ jobs[a].preparedRestore THEN Running ELSE work[a]]
      /\ UNCHANGED <<nodes, bound, stops, observed, result, op, mode, faults>>
  BY DEF LeaveManual, journal, CoordinatorInv, OpInv, TypeOK
<1>2. ASSUME NEW b \in DOMAIN jobs
      PROVE  /\ jobs'[b] \in Job /\ jobs'[b].status = jobs[b].status
             /\ jobs'[b].stopReason = jobs[b].stopReason
             /\ ~jobs'[b].preparedRestore
             /\ jobs'[b].activated <=> jobs[b].activated \/ jobs[b].preparedRestore
             /\ IsTerminal(b)' <=> IsTerminal(b)
             /\ b \in Active' <=> b \in Active
  <2> DEFINE started == jobs[b].activated \/ jobs[b].preparedRestore
  <2>1. jobs[b] \in Job /\ started \in BOOLEAN
    BY DEF CoordinatorInv, TypeOK
  <2>2. jobs'[b] = [jobs[b] EXCEPT !.activated = started, !.preparedRestore = FALSE]
    BY <1>1
  <2> HIDE DEF started
  <2>3. /\ jobs'[b] \in Job /\ jobs'[b].status = jobs[b].status
        /\ jobs'[b].stopReason = jobs[b].stopReason
        /\ jobs'[b].preparedRestore = FALSE /\ jobs'[b].activated = started
    BY <2>1, <2>2 DEF Job
  <2>4. IsTerminal(b)' <=> IsTerminal(b)
    BY <2>3 DEF IsTerminal
  <2>5. jobs'[b].activated <=> jobs[b].activated \/ jobs[b].preparedRestore
    BY <2>3 DEF started
  <2>6. QED
    BY <1>1, <2>3, <2>4, <2>5, ActiveJobs
<1>3. \A b \in Agents : (Assigned(b)' <=> Assigned(b)) /\ ~ReservedFor(b) /\ ~ReservedFor(b)'
                        /\ ~StopPending(b) /\ ~StopPending(b)'
  BY <1>1 DEF Assigned, Claims, ReservedFor, StopPending
<1>4. Running \in Work /\ Running # Idle
  BY DEF Running, Idle, Work, Reasons
<1>5. TypeOK' /\ JournalInv' /\ ModeInv' /\ OpInv'
  BY <1>1, <1>2, <1>4 DEF CoordinatorInv, TypeOK, JournalInv, HoldersInv, Fresh, ModeInv, OpInv
<1>6. ASSUME NEW b \in Agents
      PROVE  WorkOK(b)' /\ (b \in DOMAIN jobs => JobOK(b)') /\ FoundOK(b)'
  <2>1. WorkOK(b) /\ (b \in DOMAIN jobs => JobOK(b)) /\ FoundOK(b)
    BY <1>1 DEF CoordinatorInv, WorkInv, JobInv, Found
  <2>2. b \in DOMAIN jobs => JobOK(b)'
    BY <1>1, <1>2, <1>3, <2>1 DEF JobOK, Fresh
  <2>3. WorkOK(b)'
    <3>1. CASE b \in Active /\ jobs[b].preparedRestore
      <4>1. b \in DOMAIN jobs /\ work'[b] = Running /\ result'[b] = "none"
        BY <1>1, <2>1, <3>1, ActiveJobs DEF JobOK, Fresh
      <4>2. QED
        BY <1>2, <3>1, <4>1 DEF WorkOK, Running
    <3>2. CASE ~(b \in Active /\ jobs[b].preparedRestore)
      <4>1. work'[b] = work[b] /\ result'[b] = result[b]
        BY <1>1, <3>2
      <4>2. QED
        BY <1>2, <2>1, <4>1, ActiveJobs DEF WorkOK
    <3>3. QED
      BY <3>1, <3>2
  <2>4. FoundOK(b)'
    BY <1>1, <1>2, <1>3, <1>4, <2>1, ActiveJobs DEF FoundOK
  <2>5. QED
    BY <2>2, <2>3, <2>4
<1>7. QED
  BY <1>1, <1>5, <1>6, ChildrenUntouched

(* restoreSubagents, with no execution left: what it puts back agrees with  *)
(* the journal, and nothing the journal names is forgotten.                 *)
LEMMA RestoreKeeps ==
  ASSUME CoordinatorInv, NEW js, DOMAIN js \subseteq DOMAIN jobs, \A b \in DOMAIN js : js[b] = jobs[b],
         \A b \in DOMAIN jobs : IsTerminal(b), op = NoOp, op' = NoOp, mode' = "here",
         manual' \in BOOLEAN, IsGraph(nodes'), HoldersInv',
         UNCHANGED <<bound, stops, observed, faults>>, RestoreSubagents(nodes', js, manual')
  PROVE  CoordinatorInv'
<1> DEFINE R == Restorable(nodes', js)
           V == Revived(nodes', js)
           batch == {a \in R : Verdict(a) # "none"} \cup V
<1>1. /\ result' = [a \in Agents |-> IF a \in R THEN Verdict(a) ELSE result[a]]
      /\ DOMAIN jobs' = DOMAIN js \cup batch
      /\ \A b \in batch : jobs'[b] = RestoredJob(b, nodes', js, manual')
      /\ \A b \in DOMAIN js \ batch : jobs'[b] = js[b]
      /\ work' = [a \in Agents |-> IF a \in V /\ ~manual' THEN Running ELSE work[a]]
  BY DEF RestoreSubagents
<1>2. \A b \in Agents : work[b] = Idle /\ ~StopPending(b)' /\ ~ReservedFor(b)' /\ ~ReservedFor(b) /\ ~StopPending(b)
  BY ActiveJobs DEF CoordinatorInv, WorkInv, WorkOK, StopPending, ReservedFor
<1>3. \A b \in Agents : b \in R <=> /\ b \notin DOMAIN js /\ bound[b] # Unbound
                                    /\ Assigned(b)' \/ b \in observed
  BY DEF Restorable, Assigned, Claims
<1>4. \A b \in Agents : b \in V <=> b \in R /\ Verdict(b) = "none" /\ b \notin observed
  BY DEF Revived, Restorable
<1>5. R \subseteq Agents /\ V \subseteq R
  BY DEF Revived, Restorable
<1>6. \A b \in Agents : /\ Verdict(b) \in Reasons
                        /\ Verdict(b) = "none" => result[b] = "none" /\ b \notin stops
                        /\ b \in stops => Verdict(b) = "stopped"
                        /\ b \notin stops => Verdict(b) = result[b]
  BY DEF Verdict, CoordinatorInv, TypeOK, Reasons, Terminal
<1>7. \A b \in batch : jobs'[b] =
        [status |-> IF b \in V THEN "running" ELSE Verdict(b),
         activated |-> ~manual', graphObserved |-> b \in observed,
         stopReason |-> FALSE, pauseRequested |-> FALSE, preparedRestore |-> manual']
  BY <1>1 DEF RestoredJob
<1>8. Running \in Work /\ Running # Idle /\ Running.at = "running"
  BY DEF Running, Idle, Work, Reasons
<1> HIDE DEF R, V
<1>9. ASSUME NEW b \in V
      PROVE  /\ b \in DOMAIN jobs' /\ jobs'[b] \in Job /\ WorkOK(b)' /\ JobOK(b)' /\ FoundOK(b)'
  <2>1. /\ jobs'[b].status = "running" /\ jobs'[b].activated = ~manual'
        /\ jobs'[b].stopReason = FALSE /\ jobs'[b].preparedRestore = manual' /\ jobs'[b] \in Job
    <3> DEFINE collected == b \in observed
               awake == ~manual'
    <3>1. collected \in BOOLEAN /\ awake \in BOOLEAN
      OBVIOUS
    <3>2. jobs'[b] = [status |-> "running", activated |-> awake, graphObserved |-> collected,
                      stopReason |-> FALSE, pauseRequested |-> FALSE, preparedRestore |-> manual']
      BY <1>7
    <3> HIDE DEF collected, awake
    <3>3. jobs'[b] \in Job
      BY <3>1, <3>2 DEF Job
    <3>4. /\ jobs'[b].status = "running" /\ jobs'[b].activated = awake
          /\ jobs'[b].stopReason = FALSE /\ jobs'[b].preparedRestore = manual'
      BY <3>2
    <3>5. QED
      BY <3>3, <3>4 DEF awake
  <2>2. b \in Agents /\ b \in DOMAIN jobs' /\ b \in R /\ b \notin observed /\ Assigned(b)'
    BY <1>1, <1>3, <1>4, <1>5
  <2>3. result'[b] = "none" /\ b \notin stops /\ Fresh(b)'
    BY <1>1, <1>4, <1>6, <2>2 DEF Fresh
  <2>4. ~IsTerminal(b)' /\ b \in Active'
    BY <2>1, <2>2, ActiveJobs DEF IsTerminal, Terminal, Reports
  <2>5. work'[b] = IF manual' THEN Idle ELSE Running
    BY <1>1, <1>2, <2>2
  <2>6. WorkOK(b)'
    BY <1>8, <2>1, <2>3, <2>4, <2>5 DEF WorkOK
  <2>7. JobOK(b)'
    BY <2>1, <2>2, <2>3, <2>4 DEF JobOK
  <2>8. FoundOK(b)'
    BY <1>8, <2>1, <2>2, <2>5 DEF FoundOK
  <2>9. QED
    BY <2>1, <2>2, <2>6, <2>7, <2>8
<1>10. ASSUME NEW b \in R \ V, Verdict(b) # "none"
       PROVE  /\ b \in DOMAIN jobs' /\ jobs'[b] \in Job /\ WorkOK(b)' /\ JobOK(b)' /\ FoundOK(b)'
  <2>1. b \in Agents /\ b \in DOMAIN jobs' /\ b \in batch
    BY <1>1, <1>5, <1>10
  <2>2. Verdict(b) \in Terminal
    BY <1>6, <1>10, <2>1 DEF Reasons
  <2>3. /\ jobs'[b].status = Verdict(b) /\ jobs'[b].stopReason = FALSE /\ jobs'[b] \in Job
    <3> DEFINE collected == b \in observed
               awake == ~manual'
    <3>1. collected \in BOOLEAN /\ awake \in BOOLEAN
      OBVIOUS
    <3>2. jobs'[b] = [status |-> Verdict(b), activated |-> awake, graphObserved |-> collected,
                      stopReason |-> FALSE, pauseRequested |-> FALSE, preparedRestore |-> manual']
      BY <1>7, <1>10, <2>1
    <3> HIDE DEF collected, awake
    <3>3. jobs'[b] \in Job
      BY <3>1, <3>2, <2>2 DEF Job
    <3>4. /\ jobs'[b].status = Verdict(b) /\ jobs'[b].activated = awake
          /\ jobs'[b].stopReason = FALSE /\ jobs'[b].preparedRestore = manual'
      BY <3>2
    <3>5. QED
      BY <3>3, <3>4 DEF awake
  <2>4. IsTerminal(b)' /\ b \notin Active' /\ bound'[b] # Unbound
    BY <1>3, <2>1, <2>2, <2>3, ActiveJobs DEF IsTerminal
  <2>5. result'[b] = Verdict(b) /\ work'[b] = Idle
    BY <1>1, <1>2, <2>1
  <2>6. JobOK(b)'
    BY <1>6, <2>1, <2>3, <2>4, <2>5 DEF JobOK
  <2>7. WorkOK(b)' /\ FoundOK(b)'
    BY <2>1, <2>4, <2>5 DEF WorkOK, FoundOK
  <2>8. QED
    BY <2>1, <2>3, <2>6, <2>7
<1>11. ASSUME NEW b \in DOMAIN js
       PROVE  /\ b \in DOMAIN jobs' /\ jobs'[b] \in Job /\ WorkOK(b)' /\ JobOK(b)' /\ FoundOK(b)'
  <2>1. b \in DOMAIN jobs /\ b \in Agents /\ jobs[b] \in Job /\ IsTerminal(b) /\ JobOK(b)
    BY DEF CoordinatorInv, TypeOK, JobInv
  <2>2. b \notin R /\ b \notin batch
    BY <1>3, <1>5, <2>1
  <2>3. b \in DOMAIN jobs' /\ jobs'[b] = jobs[b] /\ work'[b] = Idle /\ result'[b] = result[b]
    BY <1>1, <1>2, <1>5, <2>1, <2>2
  <2>4. IsTerminal(b)' /\ b \notin Active'
    BY <2>1, <2>3, ActiveJobs DEF IsTerminal
  <2>5. QED
    BY <1>2, <2>1, <2>3, <2>4 DEF JobOK, WorkOK, FoundOK
<1>12. ASSUME NEW b \in Agents, b \notin DOMAIN jobs'
       PROVE  WorkOK(b)' /\ FoundOK(b)'
  <2>1. b \notin DOMAIN js /\ b \notin V /\ (b \in R => Verdict(b) = "none")
    BY <1>1, <1>12
  <2>2. b \notin R \/ b \in observed
    BY <1>4, <2>1
  <2>3. work'[b] = Idle
    BY <1>1, <1>2, <2>1
  <2>4. QED
    BY <1>3, <2>1, <2>2, <2>3 DEF WorkOK, FoundOK, Assigned
<1>13. DOMAIN jobs' \subseteq Agents /\ \A b \in DOMAIN jobs' : b \in V \/ b \in DOMAIN js \/ (b \in R \ V /\ Verdict(b) # "none")
  <2>1. DOMAIN js \subseteq Agents
    BY DEF CoordinatorInv, TypeOK
  <2>2. QED
    BY <1>1, <1>5, <2>1
<1>14. TypeOK'
  <2>1. result' \in [Agents -> Reasons] /\ work' \in [Agents -> Work]
    BY <1>1, <1>6, <1>8 DEF CoordinatorInv, TypeOK
  <2>2. \A b \in DOMAIN jobs' : jobs'[b] \in Job
    BY <1>9, <1>10, <1>11, <1>13
  <2>3. QED
    BY <1>13, <2>1, <2>2 DEF CoordinatorInv, TypeOK
<1>15. JournalInv' /\ OpInv' /\ ModeInv'
  BY <1>1, <1>3 DEF CoordinatorInv, JournalInv, Fresh, OpInv, ModeInv
<1>16. WorkInv' /\ JobInv' /\ Found'
  BY <1>9, <1>10, <1>11, <1>12, <1>13 DEF WorkInv, JobInv, Found
<1>17. QED
  BY <1>14, <1>15, <1>16 DEF CoordinatorInv

(* releaseOrphanedSubagentTasks: tasks whose holder was stopped are given   *)
(* back; no other holder is an orphan.                                      *)
LEMMA ReconciledGraph ==
  ASSUME CoordinatorInv, NEW S \in SUBSET Orphans(nodes)
  PROVE  LET h == Reconciled(nodes, S)
         IN /\ IsGraph(h) /\ DOMAIN h = DOMAIN nodes
            /\ \A t \in DOMAIN nodes \ S : h[t] = nodes[t]
            /\ \A t \in S : /\ t \in DOMAIN nodes /\ nodes[t].owner \in stops
                            /\ nodes[t].status = "in_progress" /\ bound[nodes[t].owner] = t
                            /\ h[t].owner = Main /\ h[t].status = "pending"
<1> DEFINE h == Reconciled(nodes, S)
<1>1. IsGraph(nodes) /\ HoldersInv /\ JournalInv
  BY DEF CoordinatorInv, TypeOK, JournalInv
<1>2. ASSUME NEW t \in S
      PROVE  /\ t \in DOMAIN nodes /\ nodes[t].owner \in stops /\ nodes[t].owner \in Agents
             /\ nodes[t].status = "in_progress" /\ bound[nodes[t].owner] = t
  <2>1. PICK a \in Agents : nodes[t].owner = a /\ (bound[a] = Unbound \/ a \in observed \/ a \in stops)
    BY DEF Orphans
  <2>2. t \in DOMAIN nodes /\ nodes[t].status = "in_progress" /\ t \in Tasks
    BY <1>1 DEF Orphans, WithStatus, IsGraph
  <2>3. bound[a] = t /\ a \notin observed
    BY <1>1, <2>1, <2>2, MainIsNoAgent DEF HoldersInv
  <2>4. QED
    BY <2>1, <2>2, <2>3, NotTasks
<1>3. \A t \in S : h[t] = Released(nodes, t)[t]
  BY <1>2 DEF Reconciled, Counts
<1>4. \A t \in DOMAIN nodes \ S : h[t] = nodes[t]
  BY DEF Reconciled
<1>5. DOMAIN h = DOMAIN nodes
  BY DEF Reconciled
<1>6. \A t \in S : h[t] \in Node /\ h[t].owner = Main /\ h[t].status = "pending"
  <2>1. ASSUME NEW t \in S
        PROVE  Released(nodes, t)[t] \in Node /\ Released(nodes, t)[t].owner = Main
               /\ Released(nodes, t)[t].status = "pending"
    BY <1>1, <1>2, ReleasedGraph DEF IsGraph
  <2>2. QED
    BY <1>3, <2>1
<1>7. h = [t \in DOMAIN nodes |-> h[t]]
  BY DEF Reconciled
<1> HIDE DEF h
<1>8. IsGraph(h)
  BY <1>1, <1>4, <1>5, <1>6, <1>7 DEF IsGraph
<1>9. QED
  BY <1>2, <1>4, <1>5, <1>6, <1>8 DEF h

LEMMA ReconciledHolders ==
  ASSUME CoordinatorInv, NEW S \in SUBSET Orphans(nodes), nodes' = Reconciled(nodes, S),
         UNCHANGED <<bound, stops, observed>>
  PROVE  IsGraph(nodes') /\ HoldersInv'
  BY ReconciledGraph DEF CoordinatorInv, JournalInv, HoldersInv

LEMMA RestorePausedKeeps ==
  ASSUME CoordinatorInv, RestorePausedCurrentThread
  PROVE  CoordinatorInv'
<1> DEFINE js == Without(jobs, Paused)
<1>1. /\ mode = "pausing" /\ op = NoOp /\ op' = NoOp /\ mode' = "here" /\ manual' = manual /\ nodes' = nodes
      /\ \A b \in DOMAIN jobs : IsTerminal(b)
      /\ UNCHANGED <<bound, stops, observed, faults>>
      /\ RestoreSubagents(nodes', js, manual')
  BY DEF RestorePausedCurrentThread, Settled, CoordinatorInv, ModeInv
<1>2. DOMAIN js \subseteq DOMAIN jobs /\ \A b \in DOMAIN js : js[b] = jobs[b]
  BY DEF Without
<1>3. IsGraph(nodes') /\ HoldersInv' /\ manual' \in BOOLEAN
  BY <1>1 DEF CoordinatorInv, TypeOK, JournalInv, HoldersInv
<1> HIDE DEF js
<1>4. QED
  BY <1>1, <1>2, <1>3, RestoreKeeps

LEMMA ResumeKeeps ==
  ASSUME CoordinatorInv, Resume
  PROVE  CoordinatorInv'
<1>1. /\ op = NoOp /\ op' = NoOp /\ mode' = "here" /\ manual' \in BOOLEAN
      /\ nodes' = Reconciled(nodes, Orphans(nodes))
      /\ \A b \in DOMAIN jobs : IsTerminal(b)
      /\ UNCHANGED <<bound, stops, observed, faults>>
      /\ RestoreSubagents(nodes', jobs, manual')
  BY ActiveJobs DEF Resume, CoordinatorInv, ModeInv
<1>2. IsGraph(nodes') /\ HoldersInv'
  BY <1>1, ReconciledHolders
<1>3. QED
  BY <1>1, <1>2, RestoreKeeps

LEMMA CrashInResumeKeeps ==
  ASSUME CoordinatorInv, CrashInResume
  PROVE  CoordinatorInv'
<1>1. /\ mode \in {"away", "down"} /\ mode' = "down" /\ op = NoOp /\ op' = NoOp /\ DOMAIN jobs' = {}
      /\ faults' \in 0 .. MaxFaults
      /\ UNCHANGED <<bound, stops, observed, result, work, manual>>
  BY FaultsNatural DEF CrashInResume, Fault, CoordinatorInv, ModeInv, TypeOK
<1>2. IsGraph(nodes') /\ HoldersInv'
  BY <1>1, ReconciledHolders DEF CrashInResume
<1>3. \A b \in Agents : work'[b] = Idle
  BY <1>1 DEF CoordinatorInv, ModeInv, WorkInv, WorkOK
<1>4. TypeOK' /\ JournalInv' /\ ModeInv' /\ OpInv'
  BY <1>1, <1>2, ActiveJobs DEF CoordinatorInv, TypeOK, JournalInv, Fresh, ModeInv, OpInv
<1>5. WorkInv' /\ JobInv' /\ Found'
  BY <1>1, <1>3 DEF WorkInv, WorkOK, JobInv, Found
<1>6. QED
  BY <1>4, <1>5 DEF CoordinatorInv

-----------------------------------------------------------------------------
LEMMA InitCoordinator == Init => CoordinatorInv
<1> SUFFICES ASSUME Init PROVE CoordinatorInv
  OBVIOUS
<1>1. DOMAIN jobs = {} /\ op = NoOp /\ mode = "here" /\ Active = {}
  BY DEF Init, Active
<1>2. IsGraph(nodes) /\ \A t \in DOMAIN nodes : nodes[t].owner = Main
  BY GraphsFresh DEF Init, NewNode
<1>3. TypeOK
  <2>1. Idle \in Work /\ "none" \in Reasons
    BY DEF Idle, Work, Reasons
  <2>2. /\ work \in [Agents -> Work] /\ result \in [Agents -> Reasons]
        /\ bound \in [Agents -> Tasks \cup {Standalone, Unbound}]
    BY <2>1 DEF Init
  <2>3. faults \in 0 .. MaxFaults /\ stops = {} /\ observed = {}
    BY FaultsNatural DEF Init
  <2>4. manual \in BOOLEAN
    BY DEF Init
  <2>5. QED
    BY <1>1, <1>2, <2>2, <2>3, <2>4 DEF TypeOK
<1>4. JournalInv /\ OpInv /\ ModeInv
  BY <1>1, <1>2, MainIsNoAgent DEF Init, JournalInv, HoldersInv, Fresh, OpInv, ModeInv
<1>5. WorkInv /\ JobInv /\ Found
  BY <1>1, NotTasks DEF Init, WorkInv, WorkOK, JobInv, Found, FoundOK, Assigned
<1>6. QED
  BY <1>3, <1>4, <1>5 DEF CoordinatorInv

LEMMA StepCoordinator == CoordinatorInv /\ [Next]_vars => CoordinatorInv'
<1> SUFFICES ASSUME CoordinatorInv, [Next]_vars PROVE CoordinatorInv'
  OBVIOUS
<1>1. CASE \E a \in Agents : \E t \in Tasks \cup {Standalone} : Spawn(a, t)
  BY <1>1, SpawnKeeps
<1>2. CASE \E a \in Agents : Observe(a) \/ Stop(a)
  BY <1>2, PrepareKeeps
<1>3. CASE \E a \in Agents : \E report \in Reports : Finish(a, report)
  BY <1>3, FinishKeeps
<1>4. CASE \E a \in Agents : Fail(a) \/ RecordOutcome(a) \/ RecordFailure(a) \/ Settle(a)
  BY <1>4, FailKeeps, RecordOutcomeKeeps, RecordFailureKeeps, SettleKeeps
<1>5. CASE Persist
  BY <1>5, PersistKeeps
<1>6. CASE RollbackLifecycle \/ CommitLifecycle
  <2>1. op.agent \in Agents
    BY <1>6 DEF RollbackLifecycle, CommitLifecycle, CoordinatorInv, TypeOK, Op
  <2>2. QED
    BY <1>6, <2>1, RollbackKeeps, CommitKeeps
<1>7. CASE Pause \/ SwitchAway \/ RestorePausedCurrentThread \/ Crash \/ Resume \/ CrashInResume \/ LeaveManual
  BY <1>7, PauseKeeps, SwitchAwayKeeps, RestorePausedKeeps, CrashKeeps, ResumeKeeps, CrashInResumeKeeps,
     LeaveManualKeeps
<1>8. CASE UNCHANGED vars
  <2>1. /\ UNCHANGED <<nodes, bound, stops, observed, result, jobs, work, op, mode, manual, faults>>
        /\ Active' = Active
    BY <1>8 DEF vars, journal, Active, IsTerminal
  <2>2. \A b \in Agents : (Assigned(b)' <=> Assigned(b)) /\ (ReservedFor(b)' <=> ReservedFor(b))
                          /\ (StopPending(b)' <=> StopPending(b))
    BY <2>1 DEF Assigned, Claims, ReservedFor, StopPending
  <2>3. TypeOK' /\ JournalInv' /\ ModeInv' /\ OpInv'
    BY <2>1, <2>2 DEF CoordinatorInv, TypeOK, JournalInv, HoldersInv, Fresh, ModeInv, OpInv, ActivateInv, ObserveInv,
         StopInv, IsTerminal, Op
  <2>4. WorkInv' /\ JobInv' /\ Found'
    <3>1. ASSUME NEW b \in Agents
          PROVE  /\ (b \in DOMAIN jobs /\ JobOK(b)) => JobOK(b)'
                 /\ WorkOK(b) => WorkOK(b)'
                 /\ FoundOK(b) => FoundOK(b)'
      BY <2>1, <2>2, ChildUntouched
    <3>2. QED
      BY <2>1, <3>1 DEF CoordinatorInv, WorkInv, JobInv, Found, TypeOK
  <2>5. QED
    BY <2>3, <2>4 DEF CoordinatorInv
<1>9. QED
  BY <1>1, <1>2, <1>3, <1>4, <1>5, <1>6, <1>7, <1>8 DEF Next

(* The invariant of the coordinator, its hosts and the journal.             *)
THEOREM CoordinatorInvariant == Spec => []CoordinatorInv
  BY InitCoordinator, StepCoordinator, PTL DEF Spec

(* The graph, the journal, the jobs, the executions and the calls of the   *)
(* coordinator have their types.                                            *)
THEOREM CoordinatorTypeCorrect == Spec => []TypeOK
<1>1. CoordinatorInv => TypeOK
  BY DEF CoordinatorInv
<1>2. QED
  BY <1>1, CoordinatorInvariant, PTL

(* A child executes only on behalf of a live job and of an assignment of    *)
(* the journal that still stands, whatever crashes, pauses and restores.    *)
THEOREM NoExecutionIsOrphaned == Spec => []NoOrphanExecution
<1>1. CoordinatorInv => NoOrphanExecution
  BY ExecutingChild DEF NoOrphanExecution, Assigned
<1>2. QED
  BY <1>1, CoordinatorInvariant, PTL

(* While its thread is open, an assigned child that was not collected has a *)
(* job that ended, executes, waits for the user, or is being called about.  *)
THEOREM NoChildIsLost == Spec => []NoLostChild
<1>1. CoordinatorInv => NoLostChild
  BY DEF CoordinatorInv, Found, FoundOK, NoLostChild, Assigned, ReservedFor
<1>2. QED
  BY <1>1, CoordinatorInvariant, PTL

-----------------------------------------------------------------------------
(* What starts an execution.                                                *)
LEMMA StartsFresh ==
  ASSUME CoordinatorInv, [Next]_vars, NEW a \in Agents, work[a] = Idle, work'[a] # Idle
  PROVE  result[a] = "none" /\ a \notin stops \cup observed
<1>1. work \in [Agents -> Work]
  BY DEF CoordinatorInv, TypeOK
<1>2. Idle.at = "idle"
  BY DEF Idle
<1>3. CASE \E b \in Agents : \/ \E t \in Tasks \cup {Standalone} : Spawn(b, t)
                             \/ Observe(b) \/ Stop(b)
  BY <1>3 DEF Spawn, Observe, Stop
<1>4. CASE \E b \in Agents : \/ \E report \in Reports : Finish(b, report)
                             \/ Fail(b) \/ RecordOutcome(b) \/ RecordFailure(b) \/ Settle(b)
  <2>1. PICK b \in Agents : \/ \E report \in Reports : Finish(b, report)
                            \/ Fail(b) \/ RecordOutcome(b) \/ RecordFailure(b) \/ Settle(b)
    BY <1>4
  <2>2. work[b].at # "idle" /\ \A c \in Agents \ {b} : work'[c] = work[c]
    BY <1>1, <2>1 DEF Finish, Fail, RecordOutcome, RecordFailure, Settle
  <2>3. QED
    BY <1>2, <2>2
<1>5. CASE Persist \/ RollbackLifecycle \/ Pause \/ SwitchAway \/ CrashInResume \/ UNCHANGED vars
  BY <1>5 DEF Persist, RollbackLifecycle, Pause, SwitchAway, CrashInResume, vars
<1>6. CASE CommitLifecycle
  <2>1. /\ op # NoOp /\ op.action = "activate" /\ op.agent = a
    BY <1>1, <1>6 DEF CommitLifecycle
  <2>2. a \in Active /\ ~jobs[a].activated /\ JobOK(a)
    BY <2>1, ActiveJobs DEF CoordinatorInv, OpInv, ActivateInv, JobInv
  <2>3. QED
    BY <2>2 DEF JobOK, Fresh
<1>7. CASE RestorePausedCurrentThread \/ Resume
  <2>1. PICK g, js : a \in Revived(g, js)
    BY <1>7 DEF RestorePausedCurrentThread, Resume, RestoreSubagents
  <2>2. QED
    BY <2>1 DEF Revived, Restorable, Verdict
<1>8. CASE Crash
  BY <1>8 DEF Crash
<1>9. CASE LeaveManual
  <2>1. a \in Active /\ jobs[a].preparedRestore /\ JobOK(a)
    BY <1>9, ActiveJobs DEF LeaveManual, CoordinatorInv, JobInv
  <2>2. QED
    BY <2>1 DEF JobOK, Fresh
<1>10. QED
  BY <1>3, <1>4, <1>5, <1>6, <1>7, <1>8, <1>9 DEF Next

(* No child is executed again once the journal holds its result, a stop or  *)
(* its collection, in whatever order pauses, crashes and restores happen.   *)
THEOREM NoChildIsRerun == Spec => NeverRerun
<1>1. CoordinatorInv /\ [Next]_vars =>
        [\A a \in Agents : work[a] = Idle /\ work'[a] # Idle =>
           result[a] = "none" /\ a \notin stops \cup observed]_vars
  BY StartsFresh
<1>2. QED
  BY <1>1, CoordinatorInvariant, PTL DEF Spec, NeverRerun

-----------------------------------------------------------------------------
(* The coordinator implements the life of an assignment.                    *)

(* What the abstract assignments see of a state.                            *)
TaskOf == [a \in Agents |-> IF bound[a] \in DOMAIN nodes THEN bound[a] ELSE Unbound]
StageOf == [a \in Agents |-> Stage(a)]
Verified == {a \in Agents : bound[a] \in DOMAIN nodes /\ Counts(a)}
Stopped == {a \in stops : bound[a] \in DOMAIN nodes}

LEMMA Unseen ==
  ASSUME UNCHANGED <<nodes, bound, stops>>,
         \A a \in Agents : bound[a] \in DOMAIN nodes => (Counts(a)' <=> Counts(a))
  PROVE  UNCHANGED Assignments!vars
  BY DEF Assignments!vars, Stage

LEMMA HeldTask ==
  ASSUME NEW a \in Agents, Assigned(a), bound[a] \in Tasks
  PROVE  /\ bound[a] \in DOMAIN nodes /\ Stage(a) = "held"
         /\ nodes[bound[a]].owner = a /\ nodes[bound[a]].status = "in_progress"
  BY DEF Assigned, Claims, Holds, WithStatus, Stage

(* A graph that changes at one task changes the stage of its holders only.  *)
LEMMA OtherStages ==
  ASSUME NEW t \in DOMAIN nodes, DOMAIN nodes' = DOMAIN nodes,
         \A u \in DOMAIN nodes \ {t} : nodes'[u] = nodes[u],
         NEW b \in Agents, bound'[b] = bound[b], nodes[t].owner # b, nodes'[t].owner # b
  PROVE  Stage(b)' = Stage(b)
  BY DEF Stage

LEMMA ActivateRefines ==
  ASSUME CoordinatorInv, Persist, NEW a \in Agents, NEW t \in Tasks \cup {Standalone},
         op.action = "activate", op.agent = a, op.task = t
  PROVE  \/ t \in Tasks /\ Assignments!Assign(a, t)
         \/ UNCHANGED Assignments!vars
<1>1. /\ bound[a] = Unbound /\ Fresh(a) /\ IsGraph(nodes) /\ bound \in [Agents -> Tasks \cup {Standalone, Unbound}]
      /\ t \in Tasks => t \in DOMAIN nodes /\ nodes[t].owner = Main
  BY DEF Persist, CoordinatorInv, TypeOK, OpInv, ActivateInv, JournalInv
<1>2. /\ bound' = [bound EXCEPT ![a] = t]
      /\ nodes' = IF t \in Tasks THEN Claimed(nodes, t, a) ELSE nodes
      /\ UNCHANGED <<stops, result>>
  BY DEF Persist
<1>3. Unbound \notin DOMAIN nodes /\ Standalone \notin DOMAIN nodes /\ DOMAIN nodes \subseteq Tasks
  BY <1>1, NotTasks DEF IsGraph
<1>4. bound'[a] = t /\ \A b \in Agents \ {a} : bound'[b] = bound[b]
  BY <1>1, <1>2
<1>5. CASE t \notin Tasks
  <2>1. t \notin DOMAIN nodes /\ nodes' = nodes
    BY <1>2, <1>3, <1>5
  <2>2. TaskOf' = TaskOf /\ StageOf' = StageOf /\ Verified' = Verified /\ Stopped' = Stopped
    <3>1. \A b \in Agents : (bound'[b] \in DOMAIN nodes <=> bound[b] \in DOMAIN nodes)
                            /\ (bound[b] \in DOMAIN nodes => bound'[b] = bound[b])
      BY <1>1, <1>3, <1>4, <2>1
    <3>2. \A b \in Agents : Stage(b)' = Stage(b)
      BY <2>1, <3>1 DEF Stage
    <3>3. TaskOf' = TaskOf
      BY <2>1, <3>1 DEF TaskOf
    <3>4. StageOf' = StageOf
      BY <3>2 DEF StageOf
    <3>5. Verified' = Verified
      BY <1>2, <2>1, <3>1 DEF Verified, Counts
    <3>6. stops \subseteq Agents
      BY DEF CoordinatorInv, TypeOK
    <3>7. Stopped' = Stopped
      BY <1>2, <2>1, <3>1, <3>6 DEF Stopped
    <3>8. QED
      BY <3>3, <3>4, <3>5, <3>7
  <2>3. QED
    BY <2>2 DEF Assignments!vars, TaskOf, StageOf, Verified, Stopped
<1>6. CASE t \in Tasks
  <2>1. /\ t \in DOMAIN nodes /\ nodes[t].owner = Main /\ a # Main
        /\ DOMAIN nodes' = DOMAIN nodes /\ \A u \in DOMAIN nodes \ {t} : nodes'[u] = nodes[u]
        /\ nodes'[t].owner = a /\ nodes'[t].status = "in_progress"
    BY <1>1, <1>2, <1>6, ClaimedGraph, MainIsNoAgent
  <2>2. Stage(a) = "new" /\ Stage(a)' = "held"
    BY <1>1, <1>3, <1>4, <2>1 DEF Stage
  <2>3. \A b \in Agents \ {a} : Stage(b)' = Stage(b)
    BY <1>4, <2>1, OtherStages, MainIsNoAgent
  <2>4. \A b \in Agents : TaskOf[b] = t => StageOf[b] \notin {"held", "completed"}
    BY <1>3, <2>1, MainIsNoAgent DEF TaskOf, StageOf, Stage
  <2>5. StageOf[a] = "new" /\ StageOf' = [StageOf EXCEPT ![a] = "held"]
    BY <2>2, <2>3 DEF StageOf
  <2>6. TaskOf' = [TaskOf EXCEPT ![a] = t]
    BY <1>4, <2>1 DEF TaskOf
  <2>7. Verified' = Verified
    BY <1>1, <1>2, <1>3, <1>4, <2>1 DEF Verified, Counts, Fresh
  <2>8. Stopped' = Stopped
    <3>1. stops \subseteq Agents /\ a \notin stops
      BY <1>1 DEF CoordinatorInv, TypeOK, Fresh
    <3>2. QED
      BY <1>2, <1>4, <2>1, <3>1 DEF Stopped
  <2>9. QED
    BY <1>6, <2>4, <2>5, <2>6, <2>7, <2>8
       DEF Assignments!Assign, Assignments!Taken, TaskOf, StageOf, Verified, Stopped
<1>7. QED
  BY <1>5, <1>6

LEMMA ObserveRefines ==
  ASSUME CoordinatorInv, Persist, NEW a \in Agents, NEW t \in Tasks \cup {Standalone},
         op.action = "observe", op.agent = a, op.task = t
  PROVE  \/ Assignments!Complete(a) \/ Assignments!Release({a})
         \/ UNCHANGED Assignments!vars
<1>1. /\ a \in DOMAIN jobs /\ IsTerminal(a) /\ bound[a] = t /\ Assigned(a) /\ IsGraph(nodes) /\ JobOK(a)
      /\ op.complete = (jobs[a].status = "completed") /\ ~StopPending(a)
  BY DEF Persist, CoordinatorInv, TypeOK, Op, OpInv, ObserveInv, JobInv, StopPending
<1>2. /\ nodes' = IF t \notin Tasks THEN nodes
                  ELSE IF op.complete THEN ChildCompleted(nodes, t, FALSE, {})
                  ELSE Released(nodes, t)
      /\ UNCHANGED <<bound, stops, result>>
  BY DEF Persist
<1>3. \A b \in Agents : Counts(b)' <=> Counts(b)
  BY <1>2 DEF Counts
<1>4. CASE t \notin Tasks
  BY <1>2, <1>3, <1>4, Unseen
<1>5. CASE t \in Tasks
  <2>1. t \in DOMAIN nodes /\ Stage(a) = "held" /\ nodes[t].owner = a /\ a # Main
    BY <1>1, <1>5, HeldTask, MainIsNoAgent
  <2>2. CASE jobs[a].status = "completed"
    <3>1. Counts(a)
      BY <1>1, <2>2 DEF JobOK, Counts
    <3> DEFINE h == ChildCompleted(nodes, t, FALSE, {})
    <3>2. /\ DOMAIN h = DOMAIN nodes /\ \A u \in DOMAIN nodes \ {t} : h[u] = nodes[u]
          /\ h[t].owner = nodes[t].owner /\ h[t].status = "completed"
      BY <1>1, <2>1, CompletedGraph, Zenon
    <3>3. nodes' = h
      BY <1>1, <1>2, <1>5, <2>2
    <3> HIDE DEF h
    <3>4. Stage(a)' = "completed" /\ \A b \in Agents \ {a} : Stage(b)' = Stage(b)
      <4>1. /\ DOMAIN nodes' = DOMAIN nodes /\ \A u \in DOMAIN nodes \ {t} : nodes'[u] = nodes[u]
            /\ nodes'[t].owner = a /\ nodes'[t].status = "completed" /\ bound' = bound
        BY <1>2, <2>1, <3>2, <3>3
      <4>2. Stage(a)' = "completed"
        BY <1>1, <2>1, <4>1 DEF Stage
      <4>3. \A b \in Agents \ {a} : Stage(b)' = Stage(b)
        BY <2>1, <4>1, OtherStages
      <4>4. QED
        BY <4>2, <4>3
    <3>5. StageOf[a] = "held" /\ a \in Verified /\ StageOf' = [StageOf EXCEPT ![a] = "completed"]
      BY <1>1, <2>1, <3>1, <3>4 DEF StageOf, Verified
    <3>6. TaskOf' = TaskOf /\ Verified' = Verified /\ Stopped' = Stopped
      BY <1>2, <1>3, <3>2, <3>3 DEF TaskOf, Verified, Stopped
    <3>7. QED
      BY <3>5, <3>6 DEF Assignments!Complete, TaskOf, StageOf, Verified, Stopped
  <2>3. CASE jobs[a].status # "completed"
    <3>1. ~Counts(a)
      BY <1>1, <2>3 DEF JobOK, Counts
    <3>2. nodes' = Released(nodes, t)
      BY <1>1, <1>2, <1>5, <2>3
    <3>3. /\ DOMAIN nodes' = DOMAIN nodes /\ \A u \in DOMAIN nodes \ {t} : nodes'[u] = nodes[u]
          /\ nodes'[t].owner = Main
      BY <1>1, <2>1, <3>2, ReleasedGraph
    <3>4. Stage(a)' = "released" /\ \A b \in Agents \ {a} : Stage(b)' = Stage(b)
      BY <1>1, <1>2, <2>1, <3>3, OtherStages, MainIsNoAgent DEF Stage
    <3>5. /\ StageOf[a] = "held" /\ a \notin Verified
          /\ StageOf' = [b \in Agents |-> IF b \in {a} THEN "released" ELSE StageOf[b]]
      BY <1>1, <2>1, <3>1, <3>4 DEF StageOf, Verified
    <3>6. TaskOf' = TaskOf /\ Verified' = Verified /\ Stopped' = Stopped
      BY <1>2, <1>3, <3>3 DEF TaskOf, Verified, Stopped
    <3>7. QED
      BY <3>5, <3>6 DEF Assignments!Release, TaskOf, StageOf, Verified, Stopped
  <2>4. QED
    BY <2>2, <2>3
<1>6. QED
  BY <1>4, <1>5

LEMMA StopRefines ==
  ASSUME CoordinatorInv, Persist, NEW a \in Agents, NEW t \in Tasks \cup {Standalone},
         op.action = "request_stop", op.agent = a, op.task = t
  PROVE  Assignments!Stop(a) \/ UNCHANGED Assignments!vars
<1>1. bound[a] = t /\ Assigned(a) /\ DOMAIN nodes \subseteq Tasks /\ stops \subseteq Agents
  BY DEF Persist, CoordinatorInv, TypeOK, OpInv, StopInv, IsGraph
<1>2. stops' = stops \cup {a} /\ UNCHANGED <<nodes, bound, result>>
  BY DEF Persist
<1>3. TaskOf' = TaskOf /\ StageOf' = StageOf
  BY <1>2 DEF TaskOf, StageOf, Stage
<1>4. CASE t \in Tasks
  <2>1. StageOf[a] = "held" /\ bound[a] \in DOMAIN nodes
    BY <1>1, <1>4, HeldTask DEF StageOf
  <2>2. Verified' = Verified \ {a} /\ Stopped' = Stopped \cup {a}
    BY <1>1, <1>2, <2>1 DEF Verified, Stopped, Counts
  <2>3. QED
    BY <1>3, <2>1, <2>2 DEF Assignments!Stop, TaskOf, StageOf, Verified, Stopped
<1>5. CASE t \notin Tasks
  <2>1. Verified' = Verified /\ Stopped' = Stopped
    BY <1>1, <1>2, <1>5 DEF Verified, Stopped, Counts
  <2>2. QED
    BY <1>3, <2>1 DEF Assignments!vars, TaskOf, StageOf, Verified, Stopped
<1>6. QED
  BY <1>4, <1>5

(* The result of a child that was not stopped is what verifies its work.    *)
LEMMA OutcomeRefines ==
  ASSUME CoordinatorInv, NEW a \in Agents, RecordOutcome(a)
  PROVE  Assignments!Verify(a) \/ UNCHANGED Assignments!vars
<1>1. /\ work[a] # Idle /\ result[a] = "none" /\ result \in [Agents -> Reasons] /\ DOMAIN nodes \subseteq Tasks
      /\ result' = [result EXCEPT ![a] = work[a].reason] /\ UNCHANGED <<nodes, bound, stops>>
  BY DEF RecordOutcome, CoordinatorInv, TypeOK, Idle, WorkInv, WorkOK, IsGraph
<1>2. Assigned(a)
  BY <1>1, ExecutingChild
<1>3. \A b \in Agents \ {a} : Counts(b)' <=> Counts(b)
  BY <1>1 DEF Counts
<1>4. CASE Counts(a)' /\ bound[a] \in DOMAIN nodes
  <2>1. StageOf[a] = "held" /\ a \notin stops /\ a \notin Stopped
    BY <1>1, <1>2, <1>4, HeldTask DEF StageOf, Counts, Stopped
  <2>2. TaskOf' = TaskOf /\ StageOf' = StageOf /\ Stopped' = Stopped
    BY <1>1 DEF TaskOf, StageOf, Stage, Stopped
  <2>3. Verified' = Verified \cup {a}
    BY <1>1, <1>3, <1>4 DEF Verified
  <2>4. QED
    BY <2>1, <2>2, <2>3 DEF Assignments!Verify, TaskOf, StageOf, Verified, Stopped
<1>5. CASE ~(Counts(a)' /\ bound[a] \in DOMAIN nodes)
  <2>1. ~Counts(a)
    BY <1>1 DEF Counts
  <2>2. QED
    BY <1>1, <1>3, <1>5, <2>1, Unseen
<1>6. QED
  BY <1>4, <1>5

(* A recovery gives back the tasks of stopped children, and no others.      *)
LEMMA RecoveryRefines ==
  ASSUME CoordinatorInv, NEW S \in SUBSET Orphans(nodes), nodes' = Reconciled(nodes, S),
         UNCHANGED <<bound, stops>>, \A a \in Agents : Counts(a)' <=> Counts(a)
  PROVE  (\E X \in SUBSET Agents : Assignments!Release(X)) \/ UNCHANGED Assignments!vars
<1>1. /\ DOMAIN nodes' = DOMAIN nodes /\ \A t \in DOMAIN nodes \ S : nodes'[t] = nodes[t]
      /\ \A t \in S : /\ t \in DOMAIN nodes /\ nodes[t].owner \in stops
                      /\ nodes[t].status = "in_progress" /\ bound[nodes[t].owner] = t
                      /\ nodes'[t].owner = Main
  BY ReconciledGraph
<1>2. stops \subseteq Agents
  BY DEF CoordinatorInv, TypeOK
<1> DEFINE X == {nodes[t].owner : t \in S}
<1>3. \A b \in X : b \in stops /\ b \in Agents /\ Stage(b) = "held" /\ Stage(b)' = "released"
  BY <1>1, <1>2, MainIsNoAgent DEF Stage
<1>4. \A b \in Agents \ X : Stage(b)' = Stage(b)
  <2>1. SUFFICES ASSUME NEW b \in Agents, b \notin X PROVE Stage(b)' = Stage(b)
    OBVIOUS
  <2>2. CASE bound[b] \in S
    <3>1. nodes[bound[b]].owner # b /\ nodes'[bound[b]].owner # b /\ bound[b] \in DOMAIN nodes
      BY <1>1, <2>1, <2>2, MainIsNoAgent
    <3>2. QED
      BY <1>1, <3>1 DEF Stage
  <2>3. CASE bound[b] \notin S
    BY <1>1, <2>3 DEF Stage
  <2>4. QED
    BY <2>2, <2>3
<1>5. TaskOf' = TaskOf /\ Verified' = Verified /\ Stopped' = Stopped
  BY <1>1 DEF TaskOf, Verified, Stopped
<1>6. \A b \in X : StageOf[b] = "held" /\ b \notin Verified
  BY <1>3 DEF StageOf, Verified, Counts
<1>7. StageOf' = [b \in Agents |-> IF b \in X THEN "released" ELSE StageOf[b]]
  BY <1>3, <1>4 DEF StageOf
<1>8. X \in SUBSET Agents
  BY <1>3
<1> HIDE DEF X
<1>9. CASE X # {}
  BY <1>5, <1>6, <1>7, <1>8, <1>9 DEF Assignments!Release, TaskOf, StageOf, Verified, Stopped
<1>10. CASE X = {}
  <2>1. StageOf' = StageOf
    BY <1>7, <1>10 DEF StageOf
  <2>2. QED
    BY <1>5, <2>1 DEF Assignments!vars, TaskOf, StageOf, Verified, Stopped
<1>11. QED
  BY <1>9, <1>10

(* What a restore does to the results: only those of stopped children change. *)
LEMMA RestoredCounts ==
  ASSUME NEW g, NEW js, NEW asleep, RestoreSubagents(g, js, asleep), UNCHANGED stops,
         NEW a \in Agents
  PROVE  Counts(a)' <=> Counts(a)
<1>1. result'[a] = IF a \in Restorable(g, js) THEN Verdict(a) ELSE result[a]
  BY DEF RestoreSubagents
<1>2. QED
  BY <1>1 DEF Verdict, Counts

LEMMA StepAssignments == CoordinatorInv /\ [Next]_vars => [Assignments!Next]_(Assignments!vars)
<1> SUFFICES ASSUME CoordinatorInv, [Next]_vars
             PROVE  Assignments!Next \/ UNCHANGED Assignments!vars
  OBVIOUS
<1>1. CASE \E a \in Agents : \/ \E t \in Tasks \cup {Standalone} : Spawn(a, t)
                             \/ Observe(a) \/ Stop(a)
                             \/ \E report \in Reports : Finish(a, report)
                             \/ Fail(a) \/ Settle(a)
  <2>1. UNCHANGED <<nodes, bound, stops, result>>
    BY <1>1 DEF Spawn, Observe, Stop, Finish, Fail, Settle, journal
  <2>2. QED
    BY <2>1, Unseen DEF Counts
<1>2. CASE \E a \in Agents : RecordOutcome(a)
  BY <1>2, OutcomeRefines DEF Assignments!Next
<1>3. CASE \E a \in Agents : RecordFailure(a)
  <2>1. PICK a \in Agents : RecordFailure(a)
    BY <1>3
  <2>2. /\ result[a] = "none" /\ result \in [Agents -> Reasons] /\ UNCHANGED <<nodes, bound, stops>>
        /\ \/ \E reason \in {"stopped", "failed"} : result' = [result EXCEPT ![a] = reason]
           \/ result' = result
    BY <2>1 DEF RecordFailure, CoordinatorInv, TypeOK, Idle, WorkInv, WorkOK
  <2>3. QED
    BY <2>2, Unseen DEF Counts
<1>4. CASE Persist
  <2>1. op \in Op
    BY <1>4 DEF Persist, CoordinatorInv, TypeOK
  <2>2. /\ op.agent \in Agents /\ op.task \in Tasks \cup {Standalone}
        /\ op.action \in {"activate", "observe", "request_stop"}
    BY <2>1 DEF Op
  <2>3. PICK a \in Agents, t \in Tasks \cup {Standalone} : op.agent = a /\ op.task = t
    BY <2>2
  <2>4. QED
    BY <1>4, <2>2, <2>3, ActivateRefines, ObserveRefines, StopRefines DEF Assignments!Next
<1>5. CASE RollbackLifecycle \/ CommitLifecycle \/ Pause \/ SwitchAway \/ Crash \/ LeaveManual \/ UNCHANGED vars
  <2>1. UNCHANGED <<nodes, bound, stops, result>>
    BY <1>5 DEF RollbackLifecycle, CommitLifecycle, Pause, SwitchAway, Crash, LeaveManual, vars, journal
  <2>2. QED
    BY <2>1, Unseen DEF Counts
<1>6. CASE RestorePausedCurrentThread
  <2>1. UNCHANGED <<nodes, bound, stops>> /\ \A a \in Agents : Counts(a)' <=> Counts(a)
    BY <1>6, RestoredCounts DEF RestorePausedCurrentThread
  <2>2. QED
    BY <2>1, Unseen
<1>7. CASE Resume
  <2>1. /\ nodes' = Reconciled(nodes, Orphans(nodes)) /\ UNCHANGED <<bound, stops>>
        /\ RestoreSubagents(nodes', jobs, manual')
    BY <1>7 DEF Resume
  <2>2. \A a \in Agents : Counts(a)' <=> Counts(a)
    BY <2>1, RestoredCounts
  <2>3. QED
    BY <2>1, <2>2, RecoveryRefines DEF Assignments!Next
<1>8. CASE CrashInResume
  <2>1. /\ \E S \in SUBSET Orphans(nodes) : nodes' = Reconciled(nodes, S)
        /\ UNCHANGED <<bound, stops, result>>
    BY <1>8 DEF CrashInResume
  <2>2. \A a \in Agents : Counts(a)' <=> Counts(a)
    BY <2>1 DEF Counts
  <2>3. QED
    BY <2>1, <2>2, RecoveryRefines DEF Assignments!Next
<1>9. QED
  BY <1>1, <1>2, <1>3, <1>4, <1>5, <1>6, <1>7, <1>8 DEF Next

LEMMA InitAssignments == Init => Assignments!Init
<1> SUFFICES ASSUME Init PROVE Assignments!Init
  OBVIOUS
<1>1. DOMAIN nodes \subseteq Tasks /\ \A a \in Agents : bound[a] \notin DOMAIN nodes
  BY GraphsFresh, NotTasks DEF Init, IsGraph
<1>2. stops = {}
  BY DEF Init
<1>3. QED
  BY <1>1, <1>2 DEF Assignments!Init, Stage

(* The coordinator, its hosts, the journal and the recovery implement the   *)
(* life of an assignment: a child gets one task, once; a task has one       *)
(* holder; verified work of a child nobody stopped completes its task, and  *)
(* nothing else does; every other child gives its task back.                *)
THEOREM CoordinatorImplementsAssignments == Spec => ImplementsAssignments
  BY InitAssignments, StepAssignments, CoordinatorInvariant, PTL
     DEF Spec, ImplementsAssignments, Assignments!Spec
=============================================================================
