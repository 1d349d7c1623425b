-------------------------- MODULE TaskGraph_proofs --------------------------
(* Proofs about the task DAG, for any tasks, agents and revisions.          *)
EXTENDS TaskGraph, FiniteSetTheorems, TLAPS

(* A graph that changes one task stays well formed when the dependencies    *)
(* stay: what every operation but a revision relies on.                     *)
LEMMA SameDepsWellFormed ==
  ASSUME NEW g, NEW h, WellFormed(g), DOMAIN h = DOMAIN g,
         \A u \in DOMAIN g : h[u].deps = g[u].deps
  PROVE  WellFormed(h)
<1>1. \A u \in DOMAIN h : h[u].deps \subseteq DOMAIN h \ {u}
  BY DEF WellFormed
<1>2. Acyclic(h)
  <2>1. SUFFICES ASSUME NEW S \in SUBSET DOMAIN h, S # {}
                 PROVE  \E u \in S : h[u].deps \cap S = {}
    BY DEF Acyclic
  <2>2. PICK u \in S : g[u].deps \cap S = {}
    BY <2>1 DEF WellFormed, Acyclic
  <2>3. h[u].deps = g[u].deps
    OBVIOUS
  <2>4. QED
    BY <2>2, <2>3
<1>3. QED
  BY <1>1, <1>2 DEF WellFormed

(* The nodes of a graph, as the provers need them.                          *)
LEMMA NodeFields ==
  ASSUME NEW n \in Node
  PROVE  /\ n.status \in TaskStatus /\ n.owner \in Agents \cup {Main}
         /\ n.deps \subseteq Tasks /\ n.blocker \in Blockers
         /\ n.artifact \in BOOLEAN /\ n.lineage \subseteq Tasks
  BY DEF Node

(* One task that is not completed gets a new node with the same             *)
(* dependencies: the conditions under which the final assertion accepts.    *)
LEMMA ReplaceNode ==
  ASSUME NEW g, IsGraph(g), NEW s, GraphValid(g, s),
         NEW t \in DOMAIN g, g[t].status # "completed",
         NEW n \in Node, n.deps = g[t].deps,
         n.status # "pending" => DepsCompleted(g, t),
         n.owner # Main => n.status \in {"in_progress", "completed"},
         (n.status = "blocked") = (n.blocker # "none"),
         n.artifact => /\ n.status = "completed"
                       /\ n.owner # Main
                       /\ n.lineage = ArtifactsOf(g, g[t].deps),
         n.status = "in_progress" /\ n.owner = Main => MainRunning(g) \subseteq {t},
         n.owner # Main => \A u \in DOMAIN g \ {t} : g[u].owner # n.owner
  PROVE  LET h == [g EXCEPT ![t] = n] IN IsGraph(h) /\ GraphValid(h, DerivedStatus(h))
<1> DEFINE h == [g EXCEPT ![t] = n]
<1>1. DOMAIN h = DOMAIN g /\ h[t] = n /\ (\A u \in DOMAIN g \ {t} : h[u] = g[u]) /\ IsGraph(h)
  BY DEF IsGraph
<1> HIDE DEF h
<1>2. WellFormed(h)
  BY <1>1, SameDepsWellFormed DEF GraphValid
<1>3. \A u, v \in MainRunning(h) : u = v
  <2>1. \A u \in MainRunning(h) : u # t => u \in MainRunning(g)
    BY <1>1 DEF MainRunning, WithStatus, MainOwned
  <2>2. t \in MainRunning(h) => MainRunning(g) \subseteq {t}
    BY <1>1 DEF MainRunning, WithStatus, MainOwned
  <2>3. \A u, v \in MainRunning(g) : u = v
    BY DEF GraphValid
  <2>4. QED
    BY <2>1, <2>2, <2>3
<1>4. OneTaskPerAgent(h)
  <2>1. SUFFICES ASSUME NEW u \in DOMAIN h, NEW v \in DOMAIN h,
                        h[u].owner = h[v].owner, h[u].owner # Main, u # v
                 PROVE  FALSE
    BY DEF OneTaskPerAgent, MainOwned
  <2>2. \A x, y \in DOMAIN g : g[x].owner = g[y].owner /\ g[x].owner # Main => x = y
    BY DEF GraphValid, OneTaskPerAgent, MainOwned
  <2>3. CASE u = t
    BY <1>1, <2>1, <2>3
  <2>4. CASE v = t
    BY <1>1, <2>1, <2>4
  <2>5. CASE u # t /\ v # t
    BY <1>1, <2>1, <2>2, <2>5
  <2>6. QED
    BY <2>3, <2>4, <2>5
<1>5. WithStatus(g, {"completed"}) \subseteq WithStatus(h, {"completed"})
  BY <1>1 DEF WithStatus
<1>6. t \notin WithStatus(g, {"completed"})
  BY DEF WithStatus
<1>7. ASSUME NEW u \in DOMAIN h PROVE NodeValid(h, u)
  <2>1. \A x \in DOMAIN g : g[x].status # "pending" => g[x].deps \subseteq WithStatus(g, {"completed"})
    BY DEF GraphValid, NodeValid, DepsCompleted
  <2>2. h[u].status # "pending" => DepsCompleted(h, u)
    <3>1. CASE u = t
      BY <1>1, <1>5, <3>1 DEF DepsCompleted
    <3>2. CASE u # t
      BY <1>1, <1>5, <2>1, <3>2 DEF DepsCompleted
    <3>3. QED
      BY <3>1, <3>2
  <2>3. \A D \in SUBSET WithStatus(g, {"completed"}) : ArtifactsOf(h, D) = ArtifactsOf(g, D)
    <3>1. \A d \in WithStatus(g, {"completed"}) : h[d] = g[d]
      BY <1>1, <1>6 DEF WithStatus
    <3>2. QED
      BY <3>1 DEF ArtifactsOf
  <2>4. h[u].artifact => /\ h[u].status = "completed"
                         /\ ~MainOwned(h, u)
                         /\ h[u].lineage = ArtifactsOf(h, h[u].deps)
    <3>1. CASE u = t
      <4>1. h[u] = n /\ h[u].deps = g[t].deps
        BY <1>1, <3>1
      <4>2. n.status = "completed" => g[t].deps \in SUBSET WithStatus(g, {"completed"})
        BY DEF DepsCompleted
      <4>3. QED
        BY <4>1, <4>2, <2>3 DEF MainOwned
    <3>2. CASE u # t
      <4>1. h[u] = g[u] /\ u \in DOMAIN g
        BY <1>1, <3>2
      <4>2. NodeValid(g, u)
        BY <4>1 DEF GraphValid
      <4>3. g[u].artifact => /\ g[u].status = "completed"
                             /\ g[u].owner # Main
                             /\ g[u].lineage = ArtifactsOf(g, g[u].deps)
        BY <4>2 DEF NodeValid, MainOwned
      <4>4. g[u].status = "completed" => g[u].deps \in SUBSET WithStatus(g, {"completed"})
        BY <2>1, <4>1
      <4>5. QED
        BY <4>1, <4>3, <4>4, <2>3 DEF MainOwned
    <3>3. QED
      BY <3>1, <3>2
  <2>5. ~MainOwned(h, u) => h[u].status \in {"in_progress", "completed"}
    BY <1>1 DEF GraphValid, NodeValid, MainOwned
  <2>6. (h[u].status = "blocked") = (h[u].blocker # "none")
    <3>1. CASE u = t
      BY <1>1, <3>1
    <3>2. CASE u # t
      BY <1>1, <3>2 DEF GraphValid, NodeValid
    <3>3. QED
      BY <3>1, <3>2
  <2>7. QED
    BY <2>2, <2>4, <2>5, <2>6 DEF NodeValid
<1>8. DOMAIN h # {}
  BY <1>1
<1>9. GraphValid(h, DerivedStatus(h))
  BY <1>2, <1>3, <1>4, <1>7, <1>8 DEF GraphValid
<1>10. QED
  BY <1>1, <1>9 DEF h

-----------------------------------------------------------------------------
(* The graph a state holds: none yet, or one the final assertion accepts.   *)
GraphOrNone ==
  \/ nodes = NoGraph /\ status = "completed"
  \/ GraphValid(nodes, status)

GraphInvariant == TypeOK /\ GraphOrNone

(* A task of a valid graph: what its node says when it is not completed.    *)
LEMMA OpenNode ==
  ASSUME NEW g, IsGraph(g), NEW s, GraphValid(g, s), NEW t \in DOMAIN g
  PROVE  /\ g[t] \in Node
         /\ g[t].status # "completed" => g[t].artifact = FALSE
         /\ g[t].status # "pending" => DepsCompleted(g, t)
         /\ (g[t].status = "blocked") = (g[t].blocker # "none")
         /\ g[t].owner # Main => g[t].status \in {"in_progress", "completed"}
         /\ g[t].owner # Main => \A u \in DOMAIN g \ {t} : g[u].owner # g[t].owner
<1>1. g[t] \in Node
  BY DEF IsGraph
<1>2. NodeValid(g, t) /\ OneTaskPerAgent(g)
  BY DEF GraphValid
<1>3. g[t].artifact \in BOOLEAN
  BY <1>1, NodeFields
<1>4. g[t].status # "completed" => g[t].artifact = FALSE
  BY <1>2, <1>3 DEF NodeValid
<1>5. g[t].owner # Main => g[t].status \in {"in_progress", "completed"}
  BY <1>2 DEF NodeValid, MainOwned
<1>6. g[t].owner # Main => \A u \in DOMAIN g \ {t} : g[u].owner # g[t].owner
  BY <1>2 DEF OneTaskPerAgent, MainOwned
<1>7. QED
  BY <1>1, <1>2, <1>4, <1>5, <1>6 DEF NodeValid

(* Each operation of a task, when its guard holds, returns a valid graph.   *)
LEMMA StartAccepted ==
  ASSUME NEW g, IsGraph(g), NEW s, GraphValid(g, s), NEW t \in DOMAIN g, CanStart(g, s, t)
  PROVE  IsGraph(Started(g, t)) /\ GraphValid(Started(g, t), s)
<1> DEFINE n == [g[t] EXCEPT !.status = "in_progress"]
           h == [g EXCEPT ![t] = n]
<1>1. g[t] \in Node /\ g[t].status = "pending" /\ g[t].owner = Main /\ DepsCompleted(g, t)
      /\ MainRunning(g) = {} /\ s = "active" /\ g[t].artifact = FALSE /\ g[t].blocker = "none"
  BY OpenNode, NodeFields DEF CanStart, Startable, WithStatus, MainOwned
<1>2. /\ n \in Node /\ n.deps = g[t].deps /\ n.status = "in_progress" /\ n.owner = Main
      /\ n.blocker = "none" /\ n.artifact = FALSE
  BY <1>1 DEF Node, TaskStatus
<1>3. IsGraph(h) /\ GraphValid(h, DerivedStatus(h))
  BY <1>1, <1>2, ReplaceNode
<1>4. h = Started(g, t)
  BY DEF Started, IsGraph
<1>5. DerivedStatus(h) = "active"
  <2>1. t \in DOMAIN h /\ h[t].status = "in_progress"
    BY <1>2 DEF IsGraph
  <2>2. t \in WithStatus(h, {"in_progress"}) /\ t \in Open(h)
    BY <2>1 DEF WithStatus, Open
  <2>3. QED
    BY <2>2 DEF DerivedStatus
<1>6. QED
  BY <1>1, <1>3, <1>4, <1>5

LEMMA CompleteAccepted ==
  ASSUME NEW g, IsGraph(g), NEW s, GraphValid(g, s), NEW t \in DOMAIN g, CanFinish(g, t)
  PROVE  LET h == Completed(g, t) IN IsGraph(h) /\ GraphValid(h, DerivedStatus(h))
<1> DEFINE n == [g[t] EXCEPT !.status = "completed"]
           h == [g EXCEPT ![t] = n]
<1>1. /\ g[t] \in Node /\ g[t].status = "in_progress" /\ g[t].owner = Main /\ DepsCompleted(g, t)
      /\ g[t].artifact = FALSE /\ g[t].blocker = "none"
  BY OpenNode, NodeFields DEF CanFinish, MainRunning, WithStatus, MainOwned
<1>2. /\ n \in Node /\ n.deps = g[t].deps /\ n.status = "completed" /\ n.owner = Main
      /\ n.blocker = "none" /\ n.artifact = FALSE
  BY <1>1 DEF Node, TaskStatus
<1>3. h = Completed(g, t)
  BY DEF Completed, IsGraph
<1>4. IsGraph(h) /\ GraphValid(h, DerivedStatus(h))
  BY <1>1, <1>2, ReplaceNode
<1>5. QED
  BY <1>3, <1>4

LEMMA BlockAccepted ==
  ASSUME NEW g, IsGraph(g), NEW s, GraphValid(g, s), NEW t \in DOMAIN g, CanFinish(g, t),
         NEW blocker \in {"recoverable", "terminal"}
  PROVE  LET h == BlockedBy(g, t, blocker) IN IsGraph(h) /\ GraphValid(h, DerivedStatus(h))
<1> DEFINE n == [g[t] EXCEPT !.status = "blocked", !.blocker = blocker]
           h == [g EXCEPT ![t] = n]
<1>1. /\ g[t] \in Node /\ g[t].status = "in_progress" /\ g[t].owner = Main /\ DepsCompleted(g, t)
      /\ g[t].artifact = FALSE /\ g[t].blocker = "none"
  BY OpenNode, NodeFields DEF CanFinish, MainRunning, WithStatus, MainOwned
<1>2. /\ n \in Node /\ n.deps = g[t].deps /\ n.status = "blocked" /\ n.owner = Main
      /\ n.blocker = blocker /\ n.artifact = FALSE
  BY <1>1 DEF Node, TaskStatus, Blockers
<1>3. h = BlockedBy(g, t, blocker)
  BY DEF BlockedBy, IsGraph
<1>4. IsGraph(h) /\ GraphValid(h, DerivedStatus(h))
  BY <1>1, <1>2, ReplaceNode
<1>5. QED
  BY <1>3, <1>4

LEMMA ResumeAccepted ==
  ASSUME NEW g, IsGraph(g), NEW s, GraphValid(g, s), NEW t \in DOMAIN g, CanResume(g, t)
  PROVE  LET h == Resumed(g, t) IN IsGraph(h) /\ GraphValid(h, DerivedStatus(h))
<1> DEFINE n == [g[t] EXCEPT !.status = "pending", !.blocker = "none"]
           h == [g EXCEPT ![t] = n]
<1>1. g[t] \in Node /\ g[t].status = "blocked" /\ g[t].owner = Main /\ g[t].artifact = FALSE
  BY OpenNode DEF CanResume, WithStatus, MainOwned
<1>2. /\ n \in Node /\ n.deps = g[t].deps /\ n.status = "pending" /\ n.owner = Main
      /\ n.blocker = "none" /\ n.artifact = FALSE
  BY <1>1 DEF Node, TaskStatus, Blockers
<1>3. h = Resumed(g, t)
  BY DEF Resumed, IsGraph
<1>4. IsGraph(h) /\ GraphValid(h, DerivedStatus(h))
  BY <1>1, <1>2, ReplaceNode
<1>5. QED
  BY <1>3, <1>4

LEMMA ClaimAccepted ==
  ASSUME NEW g, IsGraph(g), NEW s, GraphValid(g, s), NEW t \in DOMAIN g,
         NEW a \in Agents, CanClaim(g, s, t, a)
  PROVE  LET h == Claimed(g, t, a) IN IsGraph(h) /\ GraphValid(h, DerivedStatus(h))
<1> DEFINE n == [g[t] EXCEPT !.status = "in_progress", !.owner = a]
           h == [g EXCEPT ![t] = n]
<1>1. /\ g[t] \in Node /\ g[t].status = "pending" /\ DepsCompleted(g, t)
      /\ g[t].artifact = FALSE /\ g[t].blocker = "none"
      /\ \A u \in DOMAIN g : g[u].owner # a
  BY OpenNode, NodeFields DEF CanClaim, Startable, WithStatus
<1>2. /\ n \in Node /\ n.deps = g[t].deps /\ n.status = "in_progress" /\ n.owner = a
      /\ n.blocker = "none" /\ n.artifact = FALSE /\ a # Main
  BY <1>1, MainIsNoAgent DEF Node, TaskStatus
<1>3. h = Claimed(g, t, a)
  BY DEF Claimed, IsGraph
<1>4. IsGraph(h) /\ GraphValid(h, DerivedStatus(h))
  BY <1>1, <1>2, ReplaceNode
<1>5. QED
  BY <1>3, <1>4

LEMMA ChildCompleteAccepted ==
  ASSUME NEW g, IsGraph(g), NEW s, GraphValid(g, s), NEW t \in DOMAIN g,
         NEW a \in Agents, Holds(g, t, a), NEW artifact \in BOOLEAN, NEW lineage \in SUBSET Tasks,
         artifact => lineage = ArtifactsOf(g, g[t].deps)
  PROVE  LET h == ChildCompleted(g, t, artifact, lineage)
         IN IsGraph(h) /\ GraphValid(h, DerivedStatus(h))
<1> DEFINE n == [g[t] EXCEPT !.status = "completed", !.artifact = artifact, !.lineage = lineage]
           h == [g EXCEPT ![t] = n]
<1>1. /\ g[t] \in Node /\ g[t].status = "in_progress" /\ g[t].owner = a /\ a # Main
      /\ DepsCompleted(g, t) /\ g[t].blocker = "none"
      /\ \A u \in DOMAIN g \ {t} : g[u].owner # a
  BY OpenNode, NodeFields, MainIsNoAgent DEF Holds, WithStatus
<1>2. /\ n \in Node /\ n.deps = g[t].deps /\ n.status = "completed" /\ n.owner = a
      /\ n.blocker = "none" /\ n.artifact = artifact /\ n.lineage = lineage
  BY <1>1 DEF Node, TaskStatus
<1>3. h = ChildCompleted(g, t, artifact, lineage)
  BY DEF ChildCompleted, IsGraph
<1>4. IsGraph(h) /\ GraphValid(h, DerivedStatus(h))
  BY <1>1, <1>2, ReplaceNode
<1>5. QED
  BY <1>3, <1>4

LEMMA ReleaseAccepted ==
  ASSUME NEW g, IsGraph(g), NEW s, GraphValid(g, s), NEW t \in DOMAIN g,
         NEW a \in Agents, Holds(g, t, a)
  PROVE  LET h == Released(g, t) IN IsGraph(h) /\ GraphValid(h, DerivedStatus(h))
<1> DEFINE n == [g[t] EXCEPT !.status = "pending", !.owner = Main]
           h == [g EXCEPT ![t] = n]
<1>1. /\ g[t] \in Node /\ g[t].status = "in_progress" /\ g[t].artifact = FALSE
      /\ g[t].blocker = "none"
  BY OpenNode, NodeFields DEF Holds, WithStatus
<1>2. /\ n \in Node /\ n.deps = g[t].deps /\ n.status = "pending" /\ n.owner = Main
      /\ n.blocker = "none" /\ n.artifact = FALSE
  BY <1>1 DEF Node, TaskStatus
<1>3. h = Released(g, t)
  BY DEF Released, IsGraph
<1>4. IsGraph(h) /\ GraphValid(h, DerivedStatus(h))
  BY <1>1, <1>2, ReplaceNode
<1>5. QED
  BY <1>3, <1>4

-----------------------------------------------------------------------------
(* Induction over the edits of a batch, as a fact about sets: a set of      *)
(* positions that has the first and the successor of each is all of them.   *)
LEMMA RangeInduction ==
  ASSUME NEW n \in Nat, NEW S \in SUBSET (0 .. n), 0 \in S,
         \A i \in 1 .. n : i - 1 \in S => i \in S
  PROVE  S = 0 .. n
<1>1. SUFFICES ASSUME NEW k \in (0 .. n) \ S PROVE FALSE
  OBVIOUS
<1> DEFINE T == {x \in (0 .. n) \ S : x <= k}
           f == [x \in T |-> x - 1]
<1>2. \A x \in T : x - 1 \in T
  OBVIOUS
<1>3. IsFiniteSet(T)
  <2>1. T \in SUBSET (0 .. n)
    OBVIOUS
  <2>2. IsFiniteSet(0 .. n)
    BY FS_Interval
  <2>3. QED
    BY <2>1, <2>2, FS_Subset
<1>4. f \in Injection(T, T)
  <2>1. f \in [T -> T]
    BY <1>2
  <2>2. \A x, y \in T : f[x] = f[y] => x = y
    OBVIOUS
  <2>3. QED
    BY <2>1, <2>2 DEF Injection, IsInjective
<1>5. f \in Surjection(T, T)
  BY <1>3, <1>4, FS_Injection
<1>6. k \in T
  OBVIOUS
<1>7. PICK x \in T : f[x] = k
  BY <1>5, <1>6 DEF Surjection
<1>8. QED
  BY <1>7

(* The recursive function of the drafts is well defined: it starts with the *)
(* graph and each draft is the previous one, edited.                        *)
LEMMA DraftsDefined ==
  ASSUME NEW g, NEW edits \in Seq(Edit)
  PROVE  /\ Drafts(g, edits)[0] = g
         /\ \A i \in DOMAIN edits : Drafts(g, edits)[i] = Edited(Drafts(g, edits)[i-1], edits[i])
<1> DEFINE n == Len(edits)
           Rec(f, m) == f = [i \in 0 .. m |-> IF i = 0 THEN g ELSE Edited(f[i-1], edits[i])]
           S == {m \in 0 .. n : \E f : Rec(f, m)}
<1>1. n \in Nat /\ DOMAIN edits = 1 .. n
  OBVIOUS
<1>2. 0 \in S
  <2>1. Rec([i \in 0 .. 0 |-> g], 0)
    OBVIOUS
  <2>2. 0 \in 0 .. n
    BY <1>1
  <2> HIDE DEF Rec
  <2>3. QED
    BY <2>1, <2>2 DEF S
<1>3. ASSUME NEW m \in 1 .. n, m - 1 \in S PROVE m \in S
  <2>1. PICK f : Rec(f, m - 1)
    BY <1>3
  <2> DEFINE h == [i \in 0 .. m |-> IF i = m THEN Edited(f[m-1], edits[m]) ELSE f[i]]
  <2>2. \A i \in 0 .. m - 1 : f[i] = IF i = 0 THEN g ELSE Edited(f[i-1], edits[i])
    BY <2>1
  <2>3. \A i \in 0 .. m : h[i] = IF i = 0 THEN g ELSE Edited(h[i-1], edits[i])
    <3>1. SUFFICES ASSUME NEW i \in 0 .. m
                   PROVE  h[i] = IF i = 0 THEN g ELSE Edited(h[i-1], edits[i])
      OBVIOUS
    <3>2. CASE i = m
      <4>1. h[i] = Edited(f[m-1], edits[m]) /\ i # 0 /\ i - 1 \in 0 .. m /\ i - 1 # m
        BY <1>1, <3>2
      <4>2. h[i-1] = f[m-1]
        BY <4>1, <3>2
      <4>3. QED
        BY <4>1, <4>2, <3>2
    <3>3. CASE i # m
      <4>1. i \in 0 .. m - 1 /\ h[i] = f[i]
        BY <1>1, <3>3
      <4>2. i # 0 => h[i-1] = f[i-1]
        BY <1>1, <4>1
      <4>3. QED
        BY <2>2, <4>1, <4>2
    <3>4. QED
      BY <3>2, <3>3
  <2>4. Rec(h, m)
    BY <2>3
  <2>5. m \in 0 .. n
    BY <1>1
  <2> HIDE DEF Rec, h
  <2>6. QED
    BY <2>4, <2>5 DEF S
<1>4. n \in S
  <2> HIDE DEF S
  <2>1. S \in SUBSET (0 .. n)
    BY DEF S
  <2>2. S = 0 .. n
    BY <1>1, <1>2, <1>3, <2>1, RangeInduction
  <2>3. QED
    BY <1>1, <2>2
<1>5. Drafts(g, edits) = CHOOSE f : Rec(f, n)
  BY DEF Drafts
<1>6. Rec(Drafts(g, edits), n)
  BY <1>4, <1>5
<1>7. QED
  BY <1>1, <1>6

-----------------------------------------------------------------------------
(* What a draft h of a revision of g keeps: the history of g; each running  *)
(* task of the main agent, until an edit updates it; and every started task *)
(* that is not back to pending.                                             *)
Kept(g, h, S) == \A t \in S : t \in DOMAIN h /\ h[t] = g[t]

Updates(edits, i, t) ==
  \E j \in 1 .. i : edits[j].op = "update_task" /\ edits[j].task = t

DraftInvariant(g, h, edits, i) ==
  /\ IsGraph(h)
  /\ Kept(g, h, History(g))
  /\ \A t \in DOMAIN g \cap DOMAIN h :
       "pending" \notin {g[t].status, h[t].status} => h[t] = g[t]
  /\ \A t \in MainRunning(g) :
       /\ Updates(edits, i, t) => t \notin MainRunning(h)
       /\ ~Updates(edits, i, t) => t \in DOMAIN h /\ h[t] = g[t]

LEMMA EditFields ==
  ASSUME NEW e \in Edit
  PROVE  /\ e.op \in {"add_task", "update_task", "remove_task", "set_goal"}
         /\ e.op # "set_goal" => e.task \in Tasks
         /\ e.op \in {"add_task", "update_task"} => e.deps \subseteq Tasks
         /\ e.op = "remove_task" => e.inherit \in BOOLEAN
<1>1. CASE e \in [op : {"add_task", "update_task"}, task : Tasks, deps : SUBSET Tasks]
  BY <1>1
<1>2. CASE e \in [op : {"remove_task"}, task : Tasks, inherit : BOOLEAN]
  BY <1>2
<1>3. CASE e \in [op : {"set_goal"}]
  BY <1>3
<1>4. QED
  BY <1>1, <1>2, <1>3 DEF Edit

LEMMA NewNodeType ==
  ASSUME NEW deps \in SUBSET Tasks
  PROVE  NewNode(deps) \in Node /\ NewNode(deps).status = "pending"
  BY DEF NewNode, Node, TaskStatus, Blockers

(* One edit, seen from a task u that it does not name.                      *)
LEMMA EditedElsewhere ==
  ASSUME NEW h, IsGraph(h), NEW e \in Edit, EditAllowed(h, e),
         NEW u \in DOMAIN h, e.op # "set_goal" => e.task # u,
         e.op = "remove_task" => e.task \notin h[u].deps
  PROVE  u \in DOMAIN Edited(h, e) /\ Edited(h, e)[u] = h[u]
  BY EditFields DEF Edited, WithoutTask

(* One edit, seen from the task it names: afterwards it is pending or gone. *)
LEMMA EditedHere ==
  ASSUME NEW h, IsGraph(h), NEW e \in Edit, EditAllowed(h, e), e.op # "set_goal"
  PROVE  e.task \in DOMAIN Edited(h, e) => Edited(h, e)[e.task].status = "pending"
<1>1. e.op \in {"add_task", "update_task"} => NewNode(e.deps).status = "pending"
  BY EditFields, NewNodeType
<1>2. CASE e.op = "add_task"
  BY <1>1, <1>2 DEF Edited
<1>3. CASE e.op = "update_task"
  BY <1>1, <1>3 DEF Edited, EditAllowed, Revisable, Open
<1>4. CASE e.op = "remove_task"
  BY <1>4 DEF Edited, WithoutTask
<1>5. QED
  BY <1>2, <1>3, <1>4, EditFields

(* No edit starts a task, and every edit returns a graph.                   *)
LEMMA EditedStatus ==
  ASSUME NEW h, IsGraph(h), NEW e \in Edit, EditAllowed(h, e)
  PROVE  /\ IsGraph(Edited(h, e))
         /\ MainRunning(Edited(h, e)) \subseteq MainRunning(h)
         /\ \A t \in DOMAIN Edited(h, e) :
              \/ Edited(h, e)[t].status = "pending"
              \/ t \in DOMAIN h /\ h[t].status = Edited(h, e)[t].status
<1>1. \A u \in DOMAIN h : h[u] \in Node
  BY DEF IsGraph
<1>2. CASE e.op = "add_task"
  <2>1. e.task \in Tasks /\ NewNode(e.deps) \in Node /\ NewNode(e.deps).status = "pending"
    BY <1>2, EditFields, NewNodeType
  <2>2. Edited(h, e) =
          [t \in DOMAIN h \cup {e.task} |-> IF t = e.task THEN NewNode(e.deps) ELSE h[t]]
    BY <1>2 DEF Edited
  <2>3. IsGraph(Edited(h, e))
    BY <1>1, <2>1, <2>2 DEF IsGraph
  <2>4. QED
    BY <2>1, <2>2, <2>3 DEF MainRunning, WithStatus, MainOwned
<1>3. CASE e.op = "update_task"
  <2>1. NewNode(e.deps) \in Node /\ NewNode(e.deps).status = "pending"
    BY <1>3, EditFields, NewNodeType
  <2>2. Edited(h, e) = [h EXCEPT ![e.task] = NewNode(e.deps)]
    BY <1>3 DEF Edited
  <2>3. IsGraph(Edited(h, e))
    BY <1>1, <2>1, <2>2 DEF IsGraph
  <2>4. QED
    BY <2>1, <2>2, <2>3 DEF MainRunning, WithStatus, MainOwned, IsGraph
<1>4. CASE e.op = "remove_task"
  <2>1. e.task \in DOMAIN h
    BY <1>4 DEF EditAllowed, Revisable, Open
  <2> DEFINE new(t) == [h[t] EXCEPT !.deps = (@ \ {e.task}) \cup h[e.task].deps]
  <2>2. \A t \in DOMAIN h : new(t) \in Node /\ new(t).status = h[t].status /\ new(t).owner = h[t].owner
    <3>1. \A m, n \in Node : LET k == [m EXCEPT !.deps = (@ \ {e.task}) \cup n.deps]
                             IN k \in Node /\ k.status = m.status /\ k.owner = m.owner
      BY DEF Node
    <3>2. QED
      BY <1>1, <2>1, <3>1
  <2>3. Edited(h, e) =
          [t \in DOMAIN h \ {e.task} |-> IF e.inherit /\ e.task \in h[t].deps THEN new(t) ELSE h[t]]
    BY <1>4 DEF Edited, WithoutTask
  <2> HIDE DEF new
  <2>4. \A t \in DOMAIN Edited(h, e) :
          /\ t \in DOMAIN h /\ Edited(h, e)[t] \in Node
          /\ Edited(h, e)[t].status = h[t].status /\ Edited(h, e)[t].owner = h[t].owner
    BY <1>1, <2>2, <2>3
  <2>5. IsGraph(Edited(h, e))
    BY <2>3, <2>4 DEF IsGraph
  <2>6. QED
    BY <2>4, <2>5 DEF MainRunning, WithStatus, MainOwned
<1>5. CASE e.op = "set_goal"
  <2>1. Edited(h, e) = h
    BY <1>5 DEF Edited
  <2>2. QED
    BY <2>1
<1>6. QED
  BY <1>2, <1>3, <1>4, <1>5, EditFields

(* A task of the history, or a running one, needs only completed tasks, so  *)
(* neither removing nor rewiring another task reaches it.                   *)
LEMMA EditKeepsDraft ==
  ASSUME NEW g, IsGraph(g), NEW s, GraphValid(g, s), NEW edits \in Seq(Edit),
         NEW i \in DOMAIN edits, NEW h, DraftInvariant(g, h, edits, i - 1),
         EditAllowed(h, edits[i])
  PROVE  DraftInvariant(g, Edited(h, edits[i]), edits, i)
<1> DEFINE e == edits[i]
<1>1. e \in Edit /\ i \in Nat \ {0} /\ IsGraph(h) /\ EditAllowed(h, e)
  BY DEF DraftInvariant
<1>2. \A t \in DOMAIN g : g[t].status # "pending" =>
        g[t].deps \subseteq WithStatus(g, {"completed"})
  BY DEF GraphValid, NodeValid, DepsCompleted
<1>3. \A t \in WithStatus(g, {"completed"}) : t \in DOMAIN h /\ h[t].status = "completed"
  BY DEF DraftInvariant, Kept, History, WithStatus
<1>4. e.op = "remove_task" => e.task \notin WithStatus(g, {"completed"})
  BY <1>3 DEF EditAllowed, Revisable, Open, WithStatus
<1>5. ASSUME NEW t \in History(g)
      PROVE  t \in DOMAIN Edited(h, e) /\ Edited(h, e)[t] = g[t]
  <2>1. t \in DOMAIN g /\ t \in DOMAIN h /\ h[t] = g[t] /\ g[t].status # "pending"
    BY DEF DraftInvariant, Kept, History, WithStatus, GraphValid, NodeValid
  <2>2. e.op # "set_goal" => e.task # t
    BY <1>1, <2>1, EditFields DEF EditAllowed, Revisable, Open, History, WithStatus, MainOwned
  <2>3. e.op = "remove_task" => e.task \notin h[t].deps
    BY <1>2, <1>4, <2>1
  <2> HIDE DEF e
  <2>4. QED
    BY <1>1, <2>1, <2>2, <2>3, EditedElsewhere
<1>6. ASSUME NEW t \in MainRunning(g), ~Updates(edits, i, t)
      PROVE  t \in DOMAIN Edited(h, e) /\ Edited(h, e)[t] = g[t]
  <2>1. ~Updates(edits, i - 1, t) /\ ~(e.op = "update_task" /\ e.task = t)
    BY <1>1, <1>6 DEF Updates
  <2>2. t \in DOMAIN g /\ t \in DOMAIN h /\ h[t] = g[t] /\ g[t].status = "in_progress"
    BY <2>1 DEF DraftInvariant, MainRunning, WithStatus
  <2>3. e.op # "set_goal" => e.task # t
    BY <1>1, <2>1, <2>2, EditFields DEF EditAllowed
  <2>4. e.op = "remove_task" => e.task \notin h[t].deps
    BY <1>2, <1>4, <2>2
  <2> HIDE DEF e
  <2>5. QED
    BY <1>1, <2>2, <2>3, <2>4, EditedElsewhere
<1>7. ASSUME NEW t \in MainRunning(g), Updates(edits, i, t)
      PROVE  t \notin MainRunning(Edited(h, e))
  <2>1. CASE Updates(edits, i - 1, t)
    <3>1. t \notin MainRunning(h)
      BY <2>1 DEF DraftInvariant
    <3>2. QED
      BY <1>1, <3>1, EditedStatus
  <2>2. CASE ~Updates(edits, i - 1, t)
    <3>1. e.op = "update_task" /\ e.task = t
      BY <1>1, <1>7, <2>2 DEF Updates
    <3>2. t \in DOMAIN Edited(h, e) => Edited(h, e)[t].status = "pending"
      BY <1>1, <3>1, EditedHere
    <3>3. QED
      BY <3>2 DEF MainRunning, WithStatus
  <2>3. QED
    BY <2>1, <2>2
<1>8. IsGraph(Edited(h, e))
  BY <1>1, EditedStatus
<1> HIDE DEF e
<1>9. ASSUME NEW t \in DOMAIN g \cap DOMAIN Edited(h, e),
              g[t].status # "pending", Edited(h, e)[t].status # "pending"
       PROVE  Edited(h, e)[t] = g[t]
  <2>1. t \in DOMAIN h /\ h[t].status # "pending"
    BY <1>1, <1>9, EditedStatus
  <2>2. h[t] = g[t]
    BY <1>9, <2>1 DEF DraftInvariant
  <2>3. e.op # "set_goal" => e.task # t
    BY <1>1, <1>9, EditedHere
  <2>4. e.op = "remove_task" => e.task \notin h[t].deps
    BY <1>2, <1>4, <1>9, <2>2
  <2> HIDE DEF e
  <2>5. QED
    BY <1>1, <2>1, <2>2, <2>3, <2>4, EditedElsewhere
<1>10. DraftInvariant(g, Edited(h, e), edits, i)
  BY <1>5, <1>6, <1>7, <1>8, <1>9 DEF DraftInvariant, Kept
<1>11. QED
  BY <1>10 DEF e

(* The batch as a whole, of any length.                                     *)
LEMMA RevisionKeeps ==
  ASSUME NEW g, IsGraph(g), NEW s, GraphValid(g, s), NEW edits \in Seq(Edit),
         RevisionAllowed(g, edits)
  PROVE  DraftInvariant(g, Revised(g, edits), edits, Len(edits))
<1> DEFINE d == Drafts(g, edits)
           n == Len(edits)
           S == {i \in 0 .. n : DraftInvariant(g, d[i], edits, i)}
<1>1. n \in Nat /\ DOMAIN edits = 1 .. n
  OBVIOUS
<1>2. d[0] = g /\ \A i \in 1 .. n : d[i] = Edited(d[i-1], edits[i]) /\ EditAllowed(d[i-1], edits[i])
  BY <1>1, DraftsDefined DEF RevisionAllowed
<1> HIDE DEF d
<1>3. 0 \in S
  <2>1. DraftInvariant(g, g, edits, 0)
    BY DEF DraftInvariant, Kept, Updates, History, WithStatus, MainRunning
  <2>2. QED
    BY <1>1, <1>2, <2>1
<1>4. ASSUME NEW i \in 1 .. n, i - 1 \in S PROVE i \in S
  <2>1. DraftInvariant(g, d[i-1], edits, i - 1) /\ i \in DOMAIN edits /\ i \in 0 .. n
    BY <1>1, <1>4
  <2>2. d[i] = Edited(d[i-1], edits[i]) /\ EditAllowed(d[i-1], edits[i])
    BY <1>2
  <2>3. DraftInvariant(g, d[i], edits, i)
    BY <2>1, <2>2, EditKeepsDraft
  <2>4. QED
    BY <2>1, <2>3
<1>5. n \in S
  <2> HIDE DEF S
  <2>1. S \in SUBSET (0 .. n)
    BY DEF S
  <2>2. S = 0 .. n
    BY <1>1, <1>3, <1>4, <2>1, RangeInduction
  <2>3. QED
    BY <1>1, <2>2
<1>6. QED
  BY <1>5 DEF Revised, d

-----------------------------------------------------------------------------
(* What each step needs of the invariant: a task exists only in a valid     *)
(* graph.                                                                   *)
LEMMA HasTask ==
  ASSUME GraphInvariant, nodes # NoGraph \/ \E t : t \in DOMAIN nodes
  PROVE  IsGraph(nodes) /\ GraphValid(nodes, status)
  BY DEF GraphInvariant, GraphOrNone, TypeOK, NoGraph

LEMMA StatusType ==
  ASSUME NEW g
  PROVE  DerivedStatus(g) \in GraphStatus
  BY DEF DerivedStatus, GraphStatus

LEMMA CommitKeeps ==
  ASSUME NEW g, NEW s, IsGraph(g), s \in GraphStatus, Commit(g, s)
  PROVE  GraphInvariant'
  BY DEF Commit, GraphInvariant, TypeOK, GraphOrNone, IsGraph

(* The operations of one task return graphs.                                *)
LEMMA TaskStepKeeps ==
  ASSUME GraphInvariant, NEW t \in Tasks,
         \/ Start(t) \/ Complete(t) \/ Resume(t)
         \/ \E blocker \in {"recoverable", "terminal"} : Block(t, blocker)
  PROVE  GraphInvariant'
<1>1. t \in DOMAIN nodes
  BY DEF Start, Complete, Resume, Block, CanStart, CanFinish, CanResume, Startable,
         MainRunning, WithStatus
<1>2. IsGraph(nodes) /\ GraphValid(nodes, status) /\ status \in GraphStatus
  BY <1>1, HasTask DEF GraphInvariant, TypeOK
<1>3. CASE Start(t)
  <2>1. CanStart(nodes, status, t) /\ Commit(Started(nodes, t), status)
    BY <1>3 DEF Start
  <2>2. IsGraph(Started(nodes, t))
    BY <1>1, <1>2, <2>1, StartAccepted
  <2>3. QED
    BY <1>2, <2>1, <2>2, CommitKeeps
<1>4. CASE Complete(t)
  <2> DEFINE g == Completed(nodes, t)
  <2>1. CanFinish(nodes, t) /\ Commit(g, DerivedStatus(g))
    BY <1>4 DEF Complete
  <2>2. IsGraph(g)
    BY <1>1, <1>2, <2>1, CompleteAccepted
  <2> HIDE DEF g
  <2>3. QED
    BY <2>1, <2>2, StatusType, CommitKeeps
<1>5. CASE Resume(t)
  <2> DEFINE g == Resumed(nodes, t)
  <2>1. CanResume(nodes, t) /\ Commit(g, DerivedStatus(g))
    BY <1>5 DEF Resume
  <2>2. IsGraph(g)
    BY <1>1, <1>2, <2>1, ResumeAccepted
  <2> HIDE DEF g
  <2>3. QED
    BY <2>1, <2>2, StatusType, CommitKeeps
<1>6. ASSUME NEW blocker \in {"recoverable", "terminal"}, Block(t, blocker)
      PROVE  GraphInvariant'
  <2> DEFINE g == BlockedBy(nodes, t, blocker)
  <2>1. CanFinish(nodes, t) /\ Commit(g, DerivedStatus(g))
    BY <1>6 DEF Block
  <2>2. IsGraph(g)
    BY <1>1, <1>2, <2>1, BlockAccepted
  <2> HIDE DEF g
  <2>3. QED
    BY <2>1, <2>2, StatusType, CommitKeeps
<1>7. QED
  BY <1>3, <1>4, <1>5, <1>6

LEMMA ReviseKeeps ==
  ASSUME GraphInvariant, NEW edits \in Revisions, Revise(edits)
  PROVE  /\ GraphInvariant'
         /\ IsGraph(nodes) /\ GraphValid(nodes, status)
         /\ nodes' = Revised(nodes, edits)
         /\ DraftInvariant(nodes, Revised(nodes, edits), edits, Len(edits))
<1> DEFINE g == Revised(nodes, edits)
<1>1. nodes # NoGraph /\ RevisionAllowed(nodes, edits) /\ Commit(g, DerivedStatus(g))
  BY DEF Revise
<1>2. IsGraph(nodes) /\ GraphValid(nodes, status) /\ edits \in Seq(Edit)
  BY <1>1, HasTask, RevisionsType
<1>3. DraftInvariant(nodes, g, edits, Len(edits))
  BY <1>1, <1>2, RevisionKeeps
<1>4. nodes' = g
  BY <1>1 DEF Commit
<1>5. IsGraph(g)
  BY <1>3 DEF DraftInvariant
<1> HIDE DEF g
<1>6. GraphInvariant'
  BY <1>1, <1>5, StatusType, CommitKeeps
<1>7. QED
  BY <1>2, <1>3, <1>4, <1>6 DEF g

LEMMA ChildStepKeeps ==
  ASSUME GraphInvariant, NEW t \in Tasks, NEW a \in Agents,
         \/ Claim(t, a) \/ ChildRelease(t, a)
         \/ \E artifact \in BOOLEAN, lineage \in SUBSET Tasks : ChildComplete(t, a, artifact, lineage)
  PROVE  GraphInvariant'
<1>1. t \in DOMAIN nodes
  BY DEF Claim, ChildRelease, ChildComplete, CanClaim, Holds, Startable, WithStatus
<1>2. IsGraph(nodes) /\ GraphValid(nodes, status)
  BY <1>1, HasTask
<1>3. CASE Claim(t, a)
  <2> DEFINE g == Claimed(nodes, t, a)
  <2>1. CanClaim(nodes, status, t, a) /\ Commit(g, DerivedStatus(g))
    BY <1>3 DEF Claim
  <2>2. IsGraph(g)
    BY <1>1, <1>2, <2>1, ClaimAccepted
  <2> HIDE DEF g
  <2>3. QED
    BY <2>1, <2>2, StatusType, CommitKeeps
<1>4. CASE ChildRelease(t, a)
  <2> DEFINE g == Released(nodes, t)
  <2>1. Holds(nodes, t, a) /\ Commit(g, DerivedStatus(g))
    BY <1>4 DEF ChildRelease
  <2>2. IsGraph(g)
    BY <1>1, <1>2, <2>1, ReleaseAccepted
  <2> HIDE DEF g
  <2>3. QED
    BY <2>1, <2>2, StatusType, CommitKeeps
<1>5. ASSUME NEW artifact \in BOOLEAN, NEW lineage \in SUBSET Tasks,
             ChildComplete(t, a, artifact, lineage)
      PROVE  GraphInvariant'
  <2> DEFINE g == ChildCompleted(nodes, t, artifact, lineage)
  <2>1. Commit(g, DerivedStatus(g))
    BY <1>5 DEF ChildComplete
  <2>2. IsGraph(g)
    <3>1. nodes[t] \in Node
      BY <1>1, <1>2 DEF IsGraph
    <3>2. [nodes[t] EXCEPT !.status = "completed", !.artifact = artifact, !.lineage = lineage] \in Node
      BY <3>1 DEF Node, TaskStatus
    <3>3. QED
      BY <1>2, <3>2 DEF IsGraph, ChildCompleted
  <2> HIDE DEF g
  <2>3. QED
    BY <2>1, <2>2, StatusType, CommitKeeps
<1>6. QED
  BY <1>3, <1>4, <1>5

LEMMA CreateKeeps ==
  ASSUME GraphInvariant, NEW S \in SUBSET Tasks, NEW deps \in [S -> SUBSET Tasks], Create(S, deps)
  PROVE  GraphInvariant'
<1> DEFINE g == [t \in S |-> NewNode(deps[t])]
<1>1. Commit(g, "active")
  BY DEF Create
<1>2. \A t \in S : NewNode(deps[t]) \in Node
  BY NewNodeType
<1>3. IsGraph(g)
  BY <1>2 DEF IsGraph
<1> HIDE DEF g
<1>4. "active" \in GraphStatus
  BY DEF GraphStatus
<1>5. QED
  BY <1>1, <1>3, <1>4, CommitKeeps

LEMMA GraphInvariantKept ==
  ASSUME GraphInvariant, [Next]_vars
  PROVE  GraphInvariant'
<1>1. CASE \E S \in SUBSET Tasks : \E deps \in [S -> SUBSET Tasks] : Create(S, deps)
  BY <1>1, CreateKeeps
<1>2. CASE MainStep
  BY <1>2, TaskStepKeeps, ReviseKeeps DEF MainStep
<1>3. CASE ChildStep
  BY <1>3, ChildStepKeeps DEF ChildStep
<1>4. CASE NewTurn
  BY <1>4 DEF NewTurn, GraphInvariant, TypeOK, GraphOrNone
<1>5. CASE UNCHANGED vars
  <2>1. UNCHANGED <<nodes, status, touched>>
    BY <1>5 DEF vars
  <2>2. QED
    BY <2>1 DEF GraphInvariant, TypeOK, GraphOrNone
<1>6. QED
  BY <1>1, <1>2, <1>3, <1>4, <1>5 DEF Next

(* Every graph the operations produce is one the final assertion accepts.   *)
THEOREM GraphStaysValid == Spec => []GraphInvariant
<1>1. Init => GraphInvariant
  <2>1. IsGraph(NoGraph)
    BY DEF IsGraph, NoGraph
  <2>2. QED
    BY <2>1 DEF Init, GraphInvariant, TypeOK, GraphOrNone, GraphStatus
<1>2. GraphInvariant /\ [Next]_vars => GraphInvariant'
  BY GraphInvariantKept
<1>3. QED
  BY <1>1, <1>2, PTL DEF Spec

(* TypeOK holds of every graph any sequence of operations produces.         *)
THEOREM GraphTypeCorrect == Spec => []TypeOK
<1>1. GraphInvariant => TypeOK
  BY DEF GraphInvariant
<1>2. QED
  BY <1>1, GraphStaysValid, PTL

(* An operation that its own guards accept is not refused afterwards by the *)
(* final assertion.                                                         *)
THEOREM FinalCheckIsRedundant == Spec => []FinalCheckNeverFires
<1>1. GraphInvariant => FinalCheckNeverFires
  <2>1. SUFFICES ASSUME GraphInvariant, NEW t \in DOMAIN nodes
        PROVE
          /\ CanStart(nodes, status, t) => GraphValid(Started(nodes, t), status)
          /\ CanFinish(nodes, t) =>
               /\ GraphValid(Completed(nodes, t), DerivedStatus(Completed(nodes, t)))
               /\ \A blocker \in {"recoverable", "terminal"} :
                    GraphValid(BlockedBy(nodes, t, blocker), DerivedStatus(BlockedBy(nodes, t, blocker)))
          /\ CanResume(nodes, t) => GraphValid(Resumed(nodes, t), DerivedStatus(Resumed(nodes, t)))
          /\ \A a \in Agents :
               /\ CanClaim(nodes, status, t, a) =>
                    GraphValid(Claimed(nodes, t, a), DerivedStatus(Claimed(nodes, t, a)))
               /\ Holds(nodes, t, a) =>
                    /\ GraphValid(ChildCompleted(nodes, t, FALSE, {}),
                                  DerivedStatus(ChildCompleted(nodes, t, FALSE, {})))
                    /\ LET g == ChildCompleted(nodes, t, TRUE, ArtifactsOf(nodes, nodes[t].deps))
                       IN GraphValid(g, DerivedStatus(g))
                    /\ GraphValid(Released(nodes, t), DerivedStatus(Released(nodes, t)))
    BY DEF FinalCheckNeverFires
  <2>2. IsGraph(nodes) /\ GraphValid(nodes, status)
    BY <2>1, HasTask
  <2>3. {} \in SUBSET Tasks /\ ArtifactsOf(nodes, nodes[t].deps) \in SUBSET Tasks
    <3>1. nodes[t] \in Node
      BY <2>1, <2>2 DEF IsGraph
    <3>2. QED
      BY <3>1, NodeFields DEF ArtifactsOf
  <2>4. CanStart(nodes, status, t) => GraphValid(Started(nodes, t), status)
    BY <2>1, <2>2, StartAccepted
  <2>5. CanFinish(nodes, t) => GraphValid(Completed(nodes, t), DerivedStatus(Completed(nodes, t)))
    BY <2>1, <2>2, CompleteAccepted
  <2>6. CanFinish(nodes, t) => \A blocker \in {"recoverable", "terminal"} :
          GraphValid(BlockedBy(nodes, t, blocker), DerivedStatus(BlockedBy(nodes, t, blocker)))
    BY <2>1, <2>2, BlockAccepted
  <2>7. CanResume(nodes, t) => GraphValid(Resumed(nodes, t), DerivedStatus(Resumed(nodes, t)))
    BY <2>1, <2>2, ResumeAccepted
  <2>8. ASSUME NEW a \in Agents, CanClaim(nodes, status, t, a)
        PROVE  GraphValid(Claimed(nodes, t, a), DerivedStatus(Claimed(nodes, t, a)))
    BY <2>1, <2>2, <2>8, ClaimAccepted
  <2>9. ASSUME NEW a \in Agents, Holds(nodes, t, a)
        PROVE  /\ GraphValid(ChildCompleted(nodes, t, FALSE, {}),
                             DerivedStatus(ChildCompleted(nodes, t, FALSE, {})))
               /\ LET g == ChildCompleted(nodes, t, TRUE, ArtifactsOf(nodes, nodes[t].deps))
                  IN GraphValid(g, DerivedStatus(g))
    BY <2>1, <2>2, <2>3, <2>9, ChildCompleteAccepted
  <2>10. ASSUME NEW a \in Agents, Holds(nodes, t, a)
         PROVE  GraphValid(Released(nodes, t), DerivedStatus(Released(nodes, t)))
    BY <2>1, <2>2, <2>10, ReleaseAccepted
  <2>11. QED
    BY <2>4, <2>5, <2>6, <2>7, <2>8, <2>9, <2>10
<1>2. QED
  BY <1>1, GraphStaysValid, PTL

(* An unfinished graph always has a task that runs, that may be started, or *)
(* that is blocked and may be resumed.  The witness is a task that needs no *)
(* other unfinished one, which exists because the graph is acyclic.         *)
THEOREM GraphNeverWedged == Spec => []NeverWedged
<1>1. GraphInvariant => NeverWedged
  <2>1. SUFFICES ASSUME GraphInvariant, Open(nodes) # {},
                        WithStatus(nodes, {"in_progress"}) = {}
                 PROVE  \/ \E t \in Tasks : CanStart(nodes, status, t)
                        \/ status # "active" /\ \E t \in Tasks : CanResume(nodes, t)
    BY DEF NeverWedged
  <2>2. IsGraph(nodes) /\ GraphValid(nodes, status)
    BY <2>1, HasTask DEF Open
  <2>3. PICK m \in Open(nodes) : nodes[m].deps \cap Open(nodes) = {}
    BY <2>1, <2>2 DEF GraphValid, WellFormed, Acyclic, Open
  <2>4. m \in DOMAIN nodes /\ m \in Tasks /\ nodes[m].deps \subseteq DOMAIN nodes
    BY <2>2, <2>3 DEF IsGraph, Open, GraphValid, WellFormed
  <2>5. DepsCompleted(nodes, m)
    BY <2>3, <2>4 DEF DepsCompleted, Open
  <2>6. ASSUME NEW t \in DOMAIN nodes
        PROVE  /\ nodes[t].status \in TaskStatus
               /\ ~MainOwned(nodes, t) => nodes[t].status \in {"in_progress", "completed"}
    <3>1. nodes[t] \in Node
      BY <2>2 DEF IsGraph
    <3>2. QED
      BY <2>2, <3>1, NodeFields DEF GraphValid, NodeValid
  <2>7. CASE Startable(nodes) # {}
    <3>1. PICK t \in Startable(nodes) : TRUE
      BY <2>7
    <3>2. t \in DOMAIN nodes /\ nodes[t].status = "pending" /\ t \in Tasks
      BY <2>2, <3>1 DEF Startable, WithStatus, IsGraph
    <3>3. MainOwned(nodes, t)
      BY <2>6, <3>2
    <3>4. MainRunning(nodes) = {}
      BY <2>1 DEF MainRunning
    <3>5. status = "active"
      BY <2>1, <2>2, <2>7 DEF GraphValid, DerivedStatus
    <3>6. QED
      BY <3>1, <3>2, <3>3, <3>4, <3>5 DEF CanStart
  <2>8. CASE Startable(nodes) = {}
    <3>1. status # "active"
      BY <2>1, <2>2, <2>8 DEF GraphValid, DerivedStatus
    <3>2. nodes[m].status = "blocked"
      <4>1. nodes[m].status # "pending"
        BY <2>4, <2>5, <2>8 DEF Startable, WithStatus
      <4>2. nodes[m].status # "completed"
        BY <2>3, <2>4 DEF Open, WithStatus
      <4>3. nodes[m].status # "in_progress"
        BY <2>1, <2>4 DEF WithStatus
      <4>4. QED
        BY <2>4, <2>6, <4>1, <4>2, <4>3 DEF TaskStatus
    <3>3. MainOwned(nodes, m)
      BY <2>4, <2>6, <3>2
    <3>4. CanResume(nodes, m)
      BY <2>4, <3>2, <3>3 DEF CanResume, WithStatus
    <3>5. QED
      BY <2>4, <3>1, <3>4
  <2>9. QED
    BY <2>7, <2>8
<1>2. QED
  BY <1>1, GraphStaysValid, PTL

(* revisionTouchesActiveMainTask tells exactly the batches, of any length,  *)
(* that return the running task of the main agent to pending.               *)
THEOREM TouchDecidesExactly == Spec => []TouchIsExact
<1>1. GraphInvariant => TouchIsExact
  <2>1. SUFFICES ASSUME GraphInvariant, NEW edits \in Revisions, RevisionAllowed(nodes, edits)
                 PROVE  TouchesMainTask(nodes, edits) <=>
                          \E t \in MainRunning(nodes) : t \notin MainRunning(Revised(nodes, edits))
    BY DEF TouchIsExact, TouchesMainTask
  <2>2. CASE MainRunning(nodes) = {}
    BY <2>2 DEF TouchesMainTask
  <2>3. CASE MainRunning(nodes) # {}
    <3> DEFINE h == Revised(nodes, edits)
    <3>1. PICK t \in MainRunning(nodes) : TRUE
      BY <2>3
    <3>2. t \in DOMAIN nodes /\ nodes[t].status = "in_progress" /\ nodes[t].owner = Main
      BY <3>1 DEF MainRunning, WithStatus, MainOwned
    <3>3. IsGraph(nodes) /\ GraphValid(nodes, status) /\ edits \in Seq(Edit)
      BY <2>1, <3>2, HasTask, RevisionsType
    <3>4. \A u \in MainRunning(nodes) : u = t
      BY <3>1, <3>3 DEF GraphValid
    <3>5. DraftInvariant(nodes, h, edits, Len(edits))
      BY <2>1, <3>3, RevisionKeeps
    <3>6. TouchesMainTask(nodes, edits) <=> Updates(edits, Len(edits), t)
      BY <3>1, <3>3, <3>4 DEF TouchesMainTask, Updates
    <3> HIDE DEF h
    <3>7. Updates(edits, Len(edits), t) => t \notin MainRunning(h)
      BY <3>1, <3>5 DEF DraftInvariant
    <3>8. ~Updates(edits, Len(edits), t) => t \in MainRunning(h)
      BY <3>1, <3>2, <3>5 DEF DraftInvariant, MainRunning, WithStatus, MainOwned
    <3>9. TouchesMainTask(nodes, edits) <=> \E u \in MainRunning(nodes) : u \notin MainRunning(h)
      BY <3>1, <3>4, <3>6, <3>7, <3>8
    <3>10. QED
      BY <3>9 DEF h
  <2>4. QED
    BY <2>2, <2>3
<1>2. QED
  BY <1>1, GraphStaysValid, PTL

(* No operation of the main agent, and no revision of any length, changes a *)
(* completed task or one that a child agent holds.                          *)
THEOREM HistoryImmutable == Spec => HistoryIsKept
<1>1. GraphInvariant /\ MainStep =>
        \A t \in History(nodes) : t \in DOMAIN nodes' /\ nodes'[t] = nodes[t]
  <2>1. SUFFICES ASSUME GraphInvariant, MainStep, NEW t \in History(nodes)
                 PROVE  t \in DOMAIN nodes' /\ nodes'[t] = nodes[t]
    OBVIOUS
  <2>2. t \in DOMAIN nodes /\ (nodes[t].status = "completed" \/ ~MainOwned(nodes, t))
    BY DEF History, WithStatus
  <2>3. IsGraph(nodes)
    BY <2>1 DEF GraphInvariant, TypeOK
  <2>4. ASSUME NEW u \in Tasks, Start(u) PROVE t \in DOMAIN nodes' /\ nodes'[t] = nodes[t]
    BY <2>2, <2>3, <2>4 DEF Start, Commit, Started, CanStart, Startable, WithStatus, IsGraph
  <2>5. ASSUME NEW u \in Tasks, Complete(u) PROVE t \in DOMAIN nodes' /\ nodes'[t] = nodes[t]
    BY <2>2, <2>3, <2>5 DEF Complete, Commit, Completed, CanFinish, MainRunning, WithStatus, IsGraph
  <2>6. ASSUME NEW u \in Tasks, NEW blocker \in {"recoverable", "terminal"}, Block(u, blocker)
        PROVE  t \in DOMAIN nodes' /\ nodes'[t] = nodes[t]
    BY <2>2, <2>3, <2>6 DEF Block, Commit, BlockedBy, CanFinish, MainRunning, WithStatus, IsGraph
  <2>7. ASSUME NEW u \in Tasks, Resume(u) PROVE t \in DOMAIN nodes' /\ nodes'[t] = nodes[t]
    BY <2>2, <2>3, <2>7 DEF Resume, Commit, Resumed, CanResume, WithStatus, IsGraph
  <2>8. ASSUME NEW edits \in Revisions, Revise(edits)
        PROVE  t \in DOMAIN nodes' /\ nodes'[t] = nodes[t]
    <3>1. /\ nodes' = Revised(nodes, edits)
          /\ DraftInvariant(nodes, Revised(nodes, edits), edits, Len(edits))
      BY <2>1, <2>8, ReviseKeeps
    <3>2. Kept(nodes, nodes', History(nodes))
      BY <3>1 DEF DraftInvariant
    <3>3. QED
      BY <2>1, <3>2 DEF Kept
  <2>9. QED
    BY <2>1, <2>4, <2>5, <2>6, <2>7, <2>8 DEF MainStep
<1>2. GraphInvariant /\ [Next]_vars =>
        [(\A t \in History(nodes) : t \in DOMAIN nodes' /\ nodes'[t] = nodes[t]) \/ ~MainStep]_vars
  BY <1>1
<1>3. QED
  BY <1>2, GraphStaysValid, PTL DEF Spec, HistoryIsKept

(* A started or completed task keeps its dependencies, and their results,   *)
(* as long as it stays started in one graph.                                *)
THEOREM FoundationsNeverMove == Spec => FoundationsHold
<1> DEFINE Same(t) == nodes'[t].deps = nodes[t].deps /\ \A d \in nodes[t].deps : nodes'[d] = nodes[d]
<1>1. ASSUME GraphInvariant, Next, status # "completed",
             NEW t \in DOMAIN nodes \cap DOMAIN nodes',
             "pending" \notin {nodes[t].status, nodes'[t].status}
      PROVE  Same(t)
  <2>1. IsGraph(nodes) /\ GraphValid(nodes, status)
    BY <1>1, HasTask
  <2>2. nodes[t].deps \subseteq WithStatus(nodes, {"completed"})
    BY <1>1, <2>1 DEF GraphValid, NodeValid, DepsCompleted
  <2>3. ASSUME NEW x \in DOMAIN nodes, nodes[x].status # "completed", DOMAIN nodes' = DOMAIN nodes,
               \A u \in DOMAIN nodes \ {x} : nodes'[u] = nodes[u],
               nodes'[x].deps = nodes[x].deps
        PROVE  Same(t)
    BY <2>2, <2>3 DEF WithStatus
  <2>4. ASSUME NEW edits \in Revisions, Revise(edits) PROVE Same(t)
    <3>1. /\ nodes' = Revised(nodes, edits)
          /\ DraftInvariant(nodes, Revised(nodes, edits), edits, Len(edits))
      BY <1>1, <2>4, ReviseKeeps
    <3>2. nodes'[t] = nodes[t]
      BY <1>1, <3>1 DEF DraftInvariant
    <3>3. \A d \in WithStatus(nodes, {"completed"}) : nodes'[d] = nodes[d]
      BY <3>1 DEF DraftInvariant, Kept, History
    <3>4. QED
      BY <2>2, <3>2, <3>3
  <2>5. ASSUME NEW x \in Tasks, Start(x) PROVE Same(t)
    <3>1. x \in DOMAIN nodes /\ nodes[x].status = "pending" /\ nodes' = Started(nodes, x)
      BY <2>5 DEF Start, Commit, CanStart, Startable, WithStatus
    <3>2. QED
      BY <2>1, <2>3, <3>1 DEF Started, IsGraph, Node
  <2>6. ASSUME NEW x \in Tasks, Complete(x) PROVE Same(t)
    <3>1. x \in DOMAIN nodes /\ nodes[x].status = "in_progress" /\ nodes' = Completed(nodes, x)
      BY <2>6 DEF Complete, Commit, CanFinish, MainRunning, WithStatus
    <3>2. QED
      BY <2>1, <2>3, <3>1 DEF Completed, IsGraph, Node
  <2>7. ASSUME NEW x \in Tasks, NEW blocker \in {"recoverable", "terminal"}, Block(x, blocker)
        PROVE  Same(t)
    <3>1. x \in DOMAIN nodes /\ nodes[x].status = "in_progress" /\ nodes' = BlockedBy(nodes, x, blocker)
      BY <2>7 DEF Block, Commit, CanFinish, MainRunning, WithStatus
    <3>2. QED
      BY <2>1, <2>3, <3>1 DEF BlockedBy, IsGraph, Node
  <2>8. ASSUME NEW x \in Tasks, Resume(x) PROVE Same(t)
    <3>1. x \in DOMAIN nodes /\ nodes[x].status = "blocked" /\ nodes' = Resumed(nodes, x)
      BY <2>8 DEF Resume, Commit, CanResume, WithStatus
    <3>2. QED
      BY <2>1, <2>3, <3>1 DEF Resumed, IsGraph, Node
  <2>9. ASSUME NEW x \in Tasks, NEW a \in Agents, Claim(x, a) PROVE Same(t)
    <3>1. x \in DOMAIN nodes /\ nodes[x].status = "pending" /\ nodes' = Claimed(nodes, x, a)
      BY <2>9 DEF Claim, Commit, CanClaim, Startable, WithStatus
    <3>2. QED
      BY <2>1, <2>3, <3>1 DEF Claimed, IsGraph, Node
  <2>10. ASSUME NEW x \in Tasks, NEW a \in Agents, NEW artifact \in BOOLEAN,
                NEW lineage \in SUBSET Tasks, ChildComplete(x, a, artifact, lineage)
         PROVE  Same(t)
    <3>1. /\ x \in DOMAIN nodes /\ nodes[x].status = "in_progress"
          /\ nodes' = ChildCompleted(nodes, x, artifact, lineage)
      BY <2>10 DEF ChildComplete, Commit, Holds, WithStatus
    <3>2. QED
      BY <2>1, <2>3, <3>1 DEF ChildCompleted, IsGraph, Node
  <2>11. ASSUME NEW x \in Tasks, NEW a \in Agents, ChildRelease(x, a) PROVE Same(t)
    <3>1. x \in DOMAIN nodes /\ nodes[x].status = "in_progress" /\ nodes' = Released(nodes, x)
      BY <2>11 DEF ChildRelease, Commit, Holds, WithStatus
    <3>2. QED
      BY <2>1, <2>3, <3>1 DEF Released, IsGraph, Node
  <2>12. CASE NewTurn
    BY <2>12 DEF NewTurn
  <2>13. CASE MainStep
    BY <2>4, <2>5, <2>6, <2>7, <2>8, <2>13 DEF MainStep
  <2>14. CASE ChildStep
    BY <2>9, <2>10, <2>11, <2>14 DEF ChildStep
  <2>15. QED
    BY <1>1, <2>12, <2>13, <2>14 DEF Next, Create
<1>2. GraphInvariant /\ [Next]_vars =>
        [status # "completed" =>
           \A t \in DOMAIN nodes \cap DOMAIN nodes' :
             "pending" \notin {nodes[t].status, nodes'[t].status} =>
               /\ nodes'[t].deps = nodes[t].deps
               /\ \A d \in nodes[t].deps : nodes'[d] = nodes[d]]_vars
  BY <1>1
<1>3. QED
  BY <1>2, GraphStaysValid, PTL DEF Spec, FoundationsHold
=============================================================================
