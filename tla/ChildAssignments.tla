-------------------------- MODULE ChildAssignments --------------------------
(***************************************************************************)
(* What the Runtime promises about tasks of the DAG that are assigned to   *)
(* child agents, without the processes, jobs and journals that keep the    *)
(* promise: a child is assigned one task, once, ever; a task has one       *)
(* holder; verified work of a child nobody stopped completes its task, and *)
(* nothing else does; every other child gives its task back.               *)
(***************************************************************************)
EXTENDS FiniteSets

CONSTANTS Tasks, Agents, NoTask

VARIABLES
  task,     \* the task each child was assigned
  stage,    \* how far its assignment is
  verified, \* children with verified work that counts
  stopped   \* children the parent told to stop

vars == <<task, stage, verified, stopped>>

Stages == {"new", "held", "completed", "released"}

TypeOK ==
  /\ task \in [Agents -> Tasks \cup {NoTask}]
  /\ stage \in [Agents -> Stages]
  /\ verified \subseteq Agents
  /\ stopped \subseteq Agents

Init ==
  /\ task = [a \in Agents |-> NoTask]
  /\ stage = [a \in Agents |-> "new"]
  /\ verified = {}
  /\ stopped = {}

Taken(t) == \E b \in Agents : task[b] = t /\ stage[b] \in {"held", "completed"}

Assign(a, t) ==
  /\ stage[a] = "new"
  /\ ~Taken(t)
  /\ task' = [task EXCEPT ![a] = t]
  /\ stage' = [stage EXCEPT ![a] = "held"]
  /\ UNCHANGED <<verified, stopped>>

Verify(a) ==
  /\ stage[a] = "held"
  /\ a \notin stopped
  /\ verified' = verified \cup {a}
  /\ UNCHANGED <<task, stage, stopped>>

\* A stop takes the credit for work verified before it.
Stop(a) ==
  /\ stage[a] = "held"
  /\ stopped' = stopped \cup {a}
  /\ verified' = verified \ {a}
  /\ UNCHANGED <<task, stage>>

Complete(a) ==
  /\ stage[a] = "held"
  /\ a \in verified
  /\ stage' = [stage EXCEPT ![a] = "completed"]
  /\ UNCHANGED <<task, verified, stopped>>

\* A recovery may take back the tasks of several children at once.
Release(S) ==
  /\ S # {}
  /\ \A a \in S : stage[a] = "held" /\ a \notin verified
  /\ stage' = [a \in Agents |-> IF a \in S THEN "released" ELSE stage[a]]
  /\ UNCHANGED <<task, verified, stopped>>

Next ==
  \/ \E a \in Agents : \/ \E t \in Tasks : Assign(a, t)
                       \/ Verify(a) \/ Stop(a) \/ Complete(a)
  \/ \E S \in SUBSET Agents : Release(S)

Spec == Init /\ [][Next]_vars
=============================================================================
