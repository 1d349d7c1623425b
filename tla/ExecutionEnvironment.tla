------------------------ MODULE ExecutionEnvironment ------------------------
(***************************************************************************)
(* The worktrees of child agents (ExecutionEnvironmentManager and the      *)
(* executions of subagent-host that use it), from provisioning to the       *)
(* handoff of the result and the removal of the worktree.                  *)
(*                                                                         *)
(* What is durable is spread over six places that no transaction joins:    *)
(* the descriptor file, the worktree, Git's refs, the artifact file, the   *)
(* journals, and the workspace that receives the patch. There is a step    *)
(* for each write, since the process may die after it and other children   *)
(* move while it is awaited.                                               *)
(*                                                                         *)
(* A commit is a pair: whether the changes that the child must start from  *)
(* (the workspace's own, or its dependencies') are in it, and how much of  *)
(* the child's work is.                                                    *)
(***************************************************************************)
EXTENDS Naturals, FiniteSets

CONSTANTS
  Children,
  Limit,      \* max_managed_worktrees
  MaxWork,    \* bound: writes of each child
  MaxEdits,   \* bound: things the user does to the workspace and its branches
  MaxMishaps  \* bound: crashes, failed calls, worktrees lost

VARIABLES
  record,   \* the descriptor files
  tree,     \* the worktrees
  ref,      \* the hidden refs of each environment
  session,  \* children whose threads are bound to their environments
  artifact, \* the artifact files
  told,     \* the parent's journal: result and artifact of each child
  target,   \* does the child's patch apply to the workspace, or is it there
  branch,   \* what the branch of a handoff points to
  step, mem, \* where each execution or handoff is, and its copy of the descriptor
  written,  \* ghost: the work of each child that was not lost to an accident
  given,    \* ghost: children whose result has reached the user
  edits, mishaps

durable == <<record, tree, ref, session, artifact, told>>
outside == <<target, branch, given, edits>>
vars == <<durable, outside, step, mem, written, mishaps>>

Nothing == <<>>
Bare == <<FALSE, 0>>
Commits == {Nothing} \cup (BOOLEAN \X (0..MaxWork))
Statuses == {"absent", "provisioning", "ready", "running", "result_ready", "conflicted", "handed_off",
             "retained", "removed", "failed"}
Provisioning == {"adding", "filling", "baseline", "ready"}
Executing == {"bind", "mark", "running", "saving", "pausing", "finalizing", "artifact", "outcome"}
Handing == {"applying", "delivering", "conflicting", "cleaning", "removing", "removed", "reporting"}
Descriptors ==
  [status : Statuses, base : Commits, baseline : Commits, result : Commits]
NoDescriptor == [status |-> "absent", base |-> Nothing, baseline |-> Nothing, result |-> Nothing]
NoTree == [there |-> FALSE, files |-> Nothing, head |-> Nothing]
NoArtifact == [status |-> "none", commit |-> Nothing]
NoMemory == [env |-> NoDescriptor, accepted |-> FALSE, todo |-> {}]
TreeAt(commit) == [there |-> TRUE, files |-> commit, head |-> commit]

TypeOK ==
  /\ record \in [Children -> Descriptors]
  /\ tree \in [Children -> [there : BOOLEAN, files : Commits, head : Commits]]
  /\ ref \in [Children -> [baseline : Commits, result : Commits]]
  /\ session \subseteq Children /\ given \subseteq Children
  /\ \A c \in Children :
       /\ artifact[c].status \in {"none", "ready", "retained", "delivered", "conflicted"}
       /\ told[c].result \in {"none", "completed", "failed"}
       /\ mem[c].todo \subseteq {"artifact", "record"}
       /\ written[c] \in 0..MaxWork
  /\ target \in [Children -> {"without", "with", "other"}]
  /\ branch \in [Children -> {"none", "result", "other"}]
  /\ step \in [Children -> {"idle", "capacity", "claim", "restoring", "restored", "refused", "failing",
                            "unwinding", "done"} \cup Provisioning \cup Executing \cup Handing]

Init ==
  /\ record = [c \in Children |-> NoDescriptor]
  /\ tree = [c \in Children |-> NoTree]
  /\ ref = [c \in Children |-> [baseline |-> Nothing, result |-> Nothing]]
  /\ session = {} /\ given = {}
  /\ artifact = [c \in Children |-> NoArtifact]
  /\ told = [c \in Children |-> [result |-> "none", artifact |-> NoArtifact]]
  /\ target = [c \in Children |-> "without"] /\ branch = [c \in Children |-> "none"]
  /\ step = [c \in Children |-> "idle"] /\ mem = [c \in Children |-> NoMemory]
  /\ written = [c \in Children |-> 0]
  /\ edits = 0 /\ mishaps = 0

At(c, s) == step[c] = s
Goto(c, s) == step' = [step EXCEPT ![c] = s]
Recall(c, env) == mem' = [mem EXCEPT ![c].env = env]
\* persistEnvironment: one atomic write.
Persist(c, env) == record' = [record EXCEPT ![c] = env]
With(env, status) == [env EXCEPT !.status = status]
Mishap == mishaps < MaxMishaps /\ mishaps' = mishaps + 1
Fine == UNCHANGED mishaps

-----------------------------------------------------------------------------
(* Provisioning *)

\* acquireChildEnvironment: a child with a session never gets another checkout.
Start(c) ==
  /\ At(c, "idle") /\ told[c].result = "none"
  /\ Goto(c, IF record[c] # NoDescriptor THEN "restoring" ELSE IF c \in session THEN "failing" ELSE "capacity")
  /\ UNCHANGED <<durable, outside, mem, written>> /\ Fine

Counted == {c \in Children : record[c].status \notin {"absent", "removed", "failed"}}

CheckCapacity(c) ==
  /\ At(c, "capacity")
  /\ Goto(c, IF Cardinality(Counted) >= Limit THEN "refused" ELSE "claim")
  /\ UNCHANGED <<durable, outside, mem, written>> /\ Fine

Claim(c) ==
  /\ At(c, "claim")
  /\ Recall(c, With(NoDescriptor, "provisioning")) /\ Persist(c, With(NoDescriptor, "provisioning"))
  /\ Goto(c, "adding")
  /\ UNCHANGED <<tree, ref, session, artifact, told, outside, written>> /\ Fine

AddTree(c) ==
  /\ At(c, "adding")
  /\ tree' = [tree EXCEPT ![c] = TreeAt(Bare)]
  /\ mem' = [mem EXCEPT ![c].env.base = Bare]
  /\ Goto(c, "filling")
  /\ UNCHANGED <<record, ref, session, artifact, told, outside, written>> /\ Fine

\* mergeDependencyCommits or applyCurrentWorkspaceSnapshot, copyWorktreeIncludes.
Fill(c) ==
  /\ At(c, "filling")
  /\ tree' = [tree EXCEPT ![c].files = <<TRUE, 0>>]
  /\ Goto(c, "baseline")
  /\ UNCHANGED <<record, ref, session, artifact, told, outside, mem, written>> /\ Fine

\* The results of two dependencies do not merge: the worktree is kept for inspection.
MergeConflicts(c) ==
  /\ At(c, "filling") /\ Mishap
  /\ Persist(c, With(mem[c].env, "conflicted"))
  /\ Goto(c, "failing")
  /\ UNCHANGED <<tree, ref, session, artifact, told, outside, mem, written>>

Baseline(c) ==
  /\ At(c, "baseline")
  /\ tree' = [tree EXCEPT ![c].head = tree[c].files]
  /\ ref' = [ref EXCEPT ![c].baseline = tree[c].files]
  /\ mem' = [mem EXCEPT ![c].env.baseline = tree[c].files]
  /\ Goto(c, "ready")
  /\ UNCHANGED <<record, session, artifact, told, outside, written>> /\ Fine

PersistReady(c) ==
  /\ At(c, "ready")
  /\ Recall(c, With(mem[c].env, "ready")) /\ Persist(c, With(mem[c].env, "ready"))
  /\ Goto(c, "bind")
  /\ UNCHANGED <<tree, ref, session, artifact, told, outside, written>> /\ Fine

\* cleanupFailedProvision, whose own failures and those of the last write are swallowed.
FailProvision(c) ==
  /\ step[c] \in Provisioning /\ Mishap
  /\ \/ tree' = [tree EXCEPT ![c] = NoTree] /\ ref' = [ref EXCEPT ![c].baseline = Nothing]
     \/ UNCHANGED <<tree, ref>>
  /\ Persist(c, With(mem[c].env, "failed")) \/ UNCHANGED record
  /\ Goto(c, "failing")
  /\ UNCHANGED <<session, artifact, told, outside, mem, written>>

RestoreBaseline(env) == IF env.baseline # Nothing THEN env.baseline ELSE env.base

RestoreCommit(env) ==
  IF env.result # Nothing THEN env.result ELSE IF env.baseline # Nothing THEN env.baseline ELSE env.base

\* restore: a worktree that is there is taken as it is.
Restore(c) ==
  /\ At(c, "restoring")
  /\ LET commit == RestoreCommit(record[c])
     IN  /\ tree' = [tree EXCEPT ![c] = IF @.there \/ commit = Nothing THEN @ ELSE TreeAt(commit)]
         /\ Goto(c, IF ~tree[c].there /\ commit = Nothing THEN "failing" ELSE "restored")
  /\ Recall(c, With(record[c], IF record[c].result # Nothing THEN "result_ready" ELSE "ready"))
  /\ UNCHANGED <<record, ref, session, artifact, told, outside, written>> /\ Fine

PersistRestored(c) ==
  /\ At(c, "restored")
  /\ Persist(c, mem[c].env)
  /\ Goto(c, "bind")
  /\ UNCHANGED <<tree, ref, session, artifact, told, outside, mem, written>> /\ Fine

-----------------------------------------------------------------------------
(* The execution *)

\* bindChildSession: the child's thread exists and names its environment.
Bind(c) ==
  /\ At(c, "bind")
  /\ session' = session \cup {c}
  /\ Goto(c, "mark")
  /\ UNCHANGED <<record, tree, ref, artifact, told, outside, mem, written>> /\ Fine

MarkRunning(c) ==
  /\ At(c, "mark")
  /\ Recall(c, With(record[c], "running")) /\ Persist(c, With(record[c], "running"))
  /\ Goto(c, "running")
  /\ UNCHANGED <<tree, ref, session, artifact, told, outside, written>> /\ Fine

Write(c) ==
  /\ written[c] < MaxWork /\ tree[c].there /\ tree[c].files[2] < MaxWork
  /\ tree' = [tree EXCEPT ![c].files[2] = @ + 1]
  /\ written' = [written EXCEPT ![c] = @ + 1]
  /\ UNCHANGED <<record, ref, session, artifact, told, outside, step, mem>> /\ Fine

Work(c) == At(c, "running") /\ Write(c)

\* A command that could not be proved dead writes after the child has ended.
StrayWrite(c) == step[c] \in {"idle", "done"} \cup Handing /\ Write(c)

\* checkpointWorktree and update-ref.
Commit(c) ==
  /\ tree' = [tree EXCEPT ![c].head = tree[c].files]
  /\ ref' = [ref EXCEPT ![c].result = tree[c].files]

\* checkpoint: after a tool call, or because the parent shuts down.
Checkpoint(c, next) ==
  /\ At(c, "running") /\ Commit(c)
  /\ mem' = [mem EXCEPT ![c].env.result = tree[c].files,
                        ![c].env.status = IF next = "saving" THEN "running" ELSE "ready"]
  /\ Goto(c, next)
  /\ UNCHANGED <<record, session, artifact, told, outside, written>> /\ Fine

PersistCheckpoint(c) ==
  /\ step[c] \in {"saving", "pausing"}
  /\ Persist(c, mem[c].env)
  /\ Goto(c, IF At(c, "saving") THEN "running" ELSE "idle")
  /\ UNCHANGED <<tree, ref, session, artifact, told, outside, mem, written>> /\ Fine

HasBaseline(env) == env.baseline # Nothing \/ env.base # Nothing

\* finalize: the report of the child was accepted, or its result is retained.
Finalize(c, accepted) ==
  /\ At(c, "running") \/ (At(c, "unwinding") /\ ~accepted)
  /\ HasBaseline(mem[c].env) /\ tree[c].there
  /\ Commit(c)
  /\ mem' = [mem EXCEPT ![c].env.result = tree[c].files,
                        ![c].env.status = IF accepted THEN "result_ready" ELSE "retained",
                        ![c].accepted = accepted]
  /\ Goto(c, "finalizing")
  /\ UNCHANGED <<record, session, artifact, told, outside, written>> /\ Fine

\* finalize throws and so does its repetition: the outcome has no artifact.
CannotFinalize(c) ==
  /\ step[c] \in {"running", "unwinding"}
  /\ ~HasBaseline(mem[c].env) \/ ~tree[c].there
  /\ Goto(c, "failing")
  /\ UNCHANGED <<durable, outside, mem, written>> /\ Fine

PersistFinalOnly(c) ==
  /\ At(c, "finalizing")
  /\ Persist(c, mem[c].env)
  /\ Goto(c, "outcome")
  /\ UNCHANGED <<tree, ref, session, artifact, told, outside, mem, written>> /\ Fine

PersistFinal(c) ==
  /\ At(c, "finalizing")
  /\ Persist(c, mem[c].env)
  /\ Goto(c, "artifact")
  /\ UNCHANGED <<tree, ref, session, artifact, told, outside, mem, written>> /\ Fine

PersistArtifact(c) ==
  /\ At(c, "artifact")
  /\ artifact' = [artifact EXCEPT ![c] =
       [status |-> IF mem[c].accepted THEN "ready" ELSE "retained", commit |-> mem[c].env.result]]
  /\ Goto(c, "outcome")
  /\ UNCHANGED <<record, tree, ref, session, told, outside, mem, written>> /\ Fine

\* recordSubagentOutcome.
RecordOutcome(c) ==
  /\ At(c, "outcome")
  /\ told' = [told EXCEPT ![c] =
       [result |-> IF mem[c].accepted THEN "completed" ELSE "failed", artifact |-> artifact[c]]]
  /\ Goto(c, "done")
  /\ UNCHANGED <<record, tree, ref, session, artifact, outside, mem, written>> /\ Fine

\* The first failure sends the execution to failedChildOutcome, where a second one is swallowed.
FailExecution(c) ==
  /\ step[c] \in Executing /\ Mishap
  /\ Goto(c, IF At(c, "pausing") THEN "idle"
             ELSE IF At(c, "outcome") /\ ~mem[c].accepted THEN "done" ELSE "unwinding")
  /\ UNCHANGED <<durable, outside, mem, written>>

RecordFailure(c) ==
  /\ step[c] \in {"refused", "failing"}
  /\ \/ told' = [told EXCEPT ![c] = [result |-> "failed", artifact |-> NoArtifact]] /\ Fine
     \/ Mishap /\ UNCHANGED told
  /\ Goto(c, "done")
  /\ UNCHANGED <<record, tree, ref, session, artifact, outside, mem, written>>

-----------------------------------------------------------------------------
(* The handoff of a result, one at a time (handoff_subagent) *)

Free == \A c \in Children : step[c] \notin Handing

\* What is left to write once the outcome of the handoff is known.
Settle(c, status, next) ==
  /\ mem' = [mem EXCEPT ![c].env = With(record[c], status), ![c].todo = {"artifact", "record"}]
  /\ Goto(c, next)

\* handoff to a branch: an existing branch must hold the very commit.
HandToBranch(c) ==
  /\ At(c, "done") /\ Free /\ told[c].result = "completed"
  /\ \/ branch[c] = "other" /\ Settle(c, "conflicted", "conflicting") /\ UNCHANGED <<branch, given>>
     \/ /\ branch[c] # "other" /\ Settle(c, "handed_off", "delivering")
        /\ branch' = [branch EXCEPT ![c] = "result"] /\ given' = given \cup {c}
  /\ UNCHANGED <<durable, target, edits, written>> /\ Fine

HandToWorkspace(c) ==
  /\ At(c, "done") /\ Free /\ told[c].result = "completed"
  /\ Goto(c, "applying")
  /\ UNCHANGED <<durable, outside, mem, written>> /\ Fine

EmptyPatch(c) == told[c].artifact.commit[2] = 0

ApplyTrusting(c) ==
  /\ At(c, "applying")
  /\ Settle(c, "handed_off", "delivering")
  /\ IF target[c] # "without" \/ EmptyPatch(c) THEN UNCHANGED <<target, given>>
     ELSE target' = [target EXCEPT ![c] = "with"] /\ given' = given \cup {c}
  /\ UNCHANGED <<durable, branch, edits, written>> /\ Fine

\* git apply, or the proof by the reversed patch that it was applied before.
Apply(c) ==
  /\ At(c, "applying")
  /\ \/ EmptyPatch(c) /\ Settle(c, "handed_off", "delivering") /\ UNCHANGED <<target, given>>
     \/ /\ ~EmptyPatch(c) /\ target[c] \in {"without", "with"}
        /\ target' = [target EXCEPT ![c] = "with"] /\ given' = given \cup {c}
        /\ Settle(c, "handed_off", "delivering")
     \/ /\ ~EmptyPatch(c) /\ target[c] = "other"
        /\ Settle(c, "conflicted", "conflicting") /\ UNCHANGED <<target, given>>
  /\ UNCHANGED <<durable, branch, edits, written>> /\ Fine

Delivered(c) == mem[c].env.status = "handed_off"
AfterWrites(c, todo) == IF todo # {} THEN step[c] ELSE IF Delivered(c) THEN "cleaning" ELSE "reporting"

WriteArtifact(c) ==
  /\ step[c] \in {"delivering", "conflicting"} /\ "artifact" \in mem[c].todo
  /\ artifact' = [artifact EXCEPT ![c] =
       [status |-> IF Delivered(c) THEN "delivered" ELSE "conflicted", commit |-> told[c].artifact.commit]]
  /\ mem' = [mem EXCEPT ![c].todo = @ \ {"artifact"}]
  /\ Goto(c, AfterWrites(c, mem[c].todo \ {"artifact"}))
  /\ UNCHANGED <<record, tree, ref, session, told, outside, written>> /\ Fine

WriteRecord(c) ==
  /\ step[c] \in {"delivering", "conflicting"} /\ "record" \in mem[c].todo
  /\ Persist(c, mem[c].env)
  /\ mem' = [mem EXCEPT ![c].todo = @ \ {"record"}]
  /\ Goto(c, AfterWrites(c, mem[c].todo \ {"record"}))
  /\ UNCHANGED <<tree, ref, session, artifact, told, outside, written>> /\ Fine

\* cleanup: a worktree with changes stays.
CheckTree(c) ==
  /\ At(c, "cleaning")
  /\ LET dirty == tree[c].there /\ tree[c].files # tree[c].head
     IN  /\ record' = IF dirty THEN [record EXCEPT ![c].status = "retained"] ELSE record
         /\ Goto(c, IF dirty THEN "reporting" ELSE IF tree[c].there THEN "removing" ELSE "removed")
  /\ Recall(c, record[c])
  /\ UNCHANGED <<tree, ref, session, artifact, told, outside, written>> /\ Fine

\* git worktree remove refuses changes that came since.
RemoveTree(c) ==
  /\ At(c, "removing")
  /\ IF tree[c].files # tree[c].head THEN UNCHANGED tree /\ Goto(c, "reporting")
     ELSE tree' = [tree EXCEPT ![c] = NoTree] /\ Goto(c, "removed")
  /\ UNCHANGED <<record, ref, session, artifact, told, outside, mem, written>> /\ Fine

PersistRemoved(c) ==
  /\ At(c, "removed")
  /\ Persist(c, With(mem[c].env, "removed"))
  /\ Goto(c, "reporting")
  /\ UNCHANGED <<tree, ref, session, artifact, told, outside, mem, written>> /\ Fine

\* subagent.handoff_completed.
Report(c) ==
  /\ At(c, "reporting")
  /\ told' = [told EXCEPT ![c].artifact = artifact[c]]
  /\ Goto(c, "done")
  /\ UNCHANGED <<record, tree, ref, session, artifact, outside, mem, written>> /\ Fine

\* A failed cleanup is swallowed; any other failure ends the handoff.
FailHandoff(c) ==
  /\ step[c] \in Handing /\ Mishap
  /\ Goto(c, IF step[c] \in {"cleaning", "removing", "removed"} THEN "reporting" ELSE "done")
  /\ UNCHANGED <<durable, outside, mem, written>>

-----------------------------------------------------------------------------
(* The rest of the world *)

EditWorkspace(c) ==
  /\ edits < MaxEdits /\ edits' = edits + 1
  /\ \E now \in {"without", "other"} : target' = [target EXCEPT ![c] = now]
  /\ UNCHANGED <<durable, branch, given, step, mem, written>> /\ Fine

MakeBranch(c) ==
  /\ edits < MaxEdits /\ edits' = edits + 1
  /\ branch' = [branch EXCEPT ![c] = "other"]
  /\ UNCHANGED <<durable, target, given, step, mem, written>> /\ Fine

\* What of a child's work can be had again.
Held(c) ==
  LET inTree == IF tree[c].there THEN {tree[c].files[2]} ELSE {}
      inRefs == IF record[c].result # Nothing /\ ref[c].result # Nothing
                  /\ record[c].result[2] <= ref[c].result[2]
                THEN {record[c].result[2]} ELSE {}
  IN  {0} \cup inTree \cup inRefs
Top(S) == CHOOSE n \in S : \A m \in S : m <= n

\* Somebody deletes a worktree: what was in it alone is lost.
LoseTree(c) ==
  /\ step[c] \in {"idle", "done"} /\ tree[c].there /\ Mishap
  /\ tree' = [tree EXCEPT ![c] = NoTree]
  /\ written' = [written EXCEPT ![c] =
       IF record[c].result # Nothing THEN record[c].result[2] ELSE 0]
  /\ UNCHANGED <<record, ref, session, artifact, told, outside, step, mem>>

\* The process dies, possibly in the middle of a patch, and is started again.
Crash ==
  /\ Mishap /\ \E c \in Children : step[c] # "idle" \/ mem[c] # NoMemory
  /\ step' = [c \in Children |-> IF told[c].result = "none" THEN "idle" ELSE "done"]
  /\ mem' = [c \in Children |-> NoMemory]
  /\ \/ UNCHANGED target
     \/ \E c \in Children : /\ At(c, "applying") /\ ~EmptyPatch(c) /\ target[c] = "without"
                            /\ target' = [target EXCEPT ![c] = "other"]
  /\ UNCHANGED <<durable, branch, given, edits, written>>

Provision(c) ==
  Start(c) \/ CheckCapacity(c) \/ Claim(c) \/ AddTree(c) \/ Fill(c) \/ MergeConflicts(c) \/ Baseline(c)
  \/ PersistReady(c) \/ FailProvision(c) \/ Restore(c) \/ PersistRestored(c)
Execute(c) ==
  Bind(c) \/ MarkRunning(c) \/ Work(c) \/ (\E next \in {"saving", "pausing"} : Checkpoint(c, next))
  \/ PersistCheckpoint(c) \/ (\E accepted \in BOOLEAN : Finalize(c, accepted)) \/ CannotFinalize(c)
  \/ PersistFinal(c) \/ PersistArtifact(c) \/ RecordOutcome(c) \/ FailExecution(c) \/ RecordFailure(c)
Hand(c) ==
  HandToBranch(c) \/ HandToWorkspace(c) \/ Apply(c) \/ WriteArtifact(c) \/ WriteRecord(c) \/ CheckTree(c)
  \/ RemoveTree(c) \/ PersistRemoved(c) \/ Report(c) \/ FailHandoff(c)
Outside(c) == StrayWrite(c) \/ EditWorkspace(c) \/ MakeBranch(c) \/ LoseTree(c)

Next == Crash \/ \E c \in Children : Provision(c) \/ Execute(c) \/ Hand(c) \/ Outside(c)

Spec == Init /\ [][Next]_vars

-----------------------------------------------------------------------------
(* Properties *)

\* Whatever fails, work that a child did can be had again, from its worktree or
\* from the commit that its descriptor names and a ref protects (checkpoint,
\* finalize, cleanup, restore).
WorkIsKept == \A c \in Children : written[c] <= Top(Held(c))

\* A result that is called delivered has reached the user: its patch was in the
\* workspace or its commit in a branch (handoff).
DeliveredIsThere ==
  \A c \in Children :
    (artifact[c].status = "delivered" \/ told[c].artifact.status = "delivered") =>
      c \in given \/ EmptyPatch(c)

\* The result of a completed child outlives its worktree: its artifact names the
\* commit that the result ref protects, unless more was committed on top (finalize).
ResultIsDurable ==
  \A c \in Children : told[c].result = "completed" =>
    /\ artifact[c].status # "none" /\ artifact[c].commit = told[c].artifact.commit
    /\ ref[c].result # Nothing /\ artifact[c].commit[2] <= ref[c].result[2]

\* "Restore the exact child checkout or reconstruct it from the durable Git ref":
\* a child runs on the changes it was to start from (provision, restore).
RunsOnItsBase == \A c \in Children : At(c, "running") => tree[c].files[1]
=============================================================================
