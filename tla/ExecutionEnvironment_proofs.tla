--------------------- MODULE ExecutionEnvironment_proofs ---------------------
(***************************************************************************)
(* What a child agent did can be had again, what is called delivered has   *)
(* reached the user, and a completed result outlives its worktree, for     *)
(* every number of children, writes, edits and mishaps. EnvironmentInv is  *)
(* inductive and speaks of one child at a time: nothing that one child     *)
(* does touches another's files.                                           *)
(***************************************************************************)
EXTENDS ExecutionEnvironment, TLAPS

\* What the bounds may be.
Constants == MaxWork \in Nat /\ MaxMishaps \in Nat

Memories == [env : Descriptors, accepted : BOOLEAN, todo : SUBSET {"artifact", "record"}]
Artifacts == [status : {"none", "ready", "retained", "delivered", "conflicted"}, commit : Commits]
Results == [result : {"none", "completed", "failed"}, artifact : Artifacts]

Trees == [there : BOOLEAN, files : Commits, head : Commits]
Refs == [baseline : Commits, result : Commits]

\* The types that TypeOK leaves open.
Shaped ==
  /\ mem \in [Children -> Memories]
  /\ artifact \in [Children -> Artifacts]
  /\ told \in [Children -> Results]
  /\ written \in [Children -> 0..MaxWork]

\* A worktree holds all the work there is, and no less than the recorded result.
TreeInv(c) ==
  tree[c].there =>
    /\ tree[c].files # Nothing /\ tree[c].head # Nothing
    /\ record[c].status # "absent"
    /\ record[c].result # Nothing => record[c].result[2] <= tree[c].files[2]
    /\ written[c] <= tree[c].files[2]

\* The ref protects the recorded result, or one with more work in it.
RefInv(c) ==
  record[c].result # Nothing =>
    ref[c].result # Nothing /\ record[c].result[2] <= ref[c].result[2]

\* Without a worktree the recorded result holds all the work there is.
GoneInv(c) ==
  ~tree[c].there =>
    \/ written[c] = 0
    \/ record[c].result # Nothing /\ written[c] <= record[c].result[2]

\* Nothing is written before the worktree is ready, and a descriptor, once
\* written, is never absent again.
ProvisionInv(c) ==
  /\ record[c].status = "absent" => record[c] = NoDescriptor
  /\ At(c, "restoring") => record[c].status # "absent"
  /\ step[c] \in {"capacity", "claim"} => record[c] = NoDescriptor
  /\ step[c] \in Provisioning =>
       /\ record[c].status # "absent" /\ record[c].result = Nothing
       /\ mem[c].env.status # "absent" /\ mem[c].env.result = Nothing
       /\ written[c] = 0
       /\ step[c] # "adding" => tree[c].there

\* The worktree is clean, and its commit is the child's latest and protected.
Committed(c) ==
  /\ tree[c].files = ref[c].result /\ tree[c].head = ref[c].result
  /\ mem[c].env.result = ref[c].result /\ mem[c].env.status # "absent"

\* From a checkpoint to its outcome an execution writes one and the same commit.
ExecuteInv(c) ==
  /\ step[c] \in {"restored"} \cup Executing => tree[c].there
  /\ At(c, "restored") => mem[c].env.result = record[c].result /\ mem[c].env.status # "absent"
  /\ step[c] \in {"saving", "pausing", "finalizing", "artifact", "outcome"} => Committed(c)
  /\ step[c] \in {"artifact", "outcome"} => record[c].result = ref[c].result
  /\ At(c, "outcome") =>
       artifact[c].status \in {"ready", "retained"} /\ artifact[c].commit = ref[c].result

\* Descriptor, ref, worktree, artifact and journal agree on a completed result.
ResultInv(c) ==
  /\ told[c].result # "none" => step[c] \in {"done"} \cup Handing
  /\ step[c] \in Handing => told[c].result = "completed"
  /\ told[c].result = "completed" =>
       /\ record[c].result # Nothing /\ ref[c].result = record[c].result
       /\ tree[c].there => tree[c].head = record[c].result
       /\ artifact[c].status # "none" /\ artifact[c].commit = record[c].result
       /\ told[c].artifact.commit = record[c].result

Had(c) == c \in given \/ EmptyPatch(c)

\* Only what the user has is called delivered, or is about to be.
HandInv(c) ==
  /\ step[c] \in {"delivering", "conflicting", "removing", "removed"} =>
       mem[c].env.result = record[c].result
  /\ step[c] \in {"delivering", "conflicting"} =>
       mem[c].env.status # "absent" /\ (mem[c].env.status = "handed_off" => Had(c))
  /\ (artifact[c].status = "delivered" \/ told[c].artifact.status = "delivered") =>
       told[c].result = "completed" /\ Had(c)

ChildInv(c) ==
  TreeInv(c) /\ RefInv(c) /\ GoneInv(c) /\ ProvisionInv(c) /\ ExecuteInv(c) /\ ResultInv(c) /\ HandInv(c)

EnvironmentInv == TypeOK /\ Shaped /\ \A c \in Children : ChildInv(c)

-----------------------------------------------------------------------------
(* One child at a time *)

Steps == {"idle", "capacity", "claim", "restoring", "restored", "refused", "failing",
          "unwinding", "done"} \cup Provisioning \cup Executing \cup Handing

\* What TypeOK and Shaped say of the variables, function by function.
LEMMA Typed ==
  ASSUME EnvironmentInv
  PROVE  /\ record \in [Children -> Descriptors]
         /\ tree \in [Children -> Trees]
         /\ ref \in [Children -> Refs]
         /\ artifact \in [Children -> Artifacts]
         /\ told \in [Children -> Results]
         /\ mem \in [Children -> Memories]
         /\ written \in [Children -> 0..MaxWork]
         /\ step \in [Children -> Steps]
         /\ session \subseteq Children /\ given \subseteq Children
         /\ target \in [Children -> {"without", "with", "other"}]
         /\ branch \in [Children -> {"none", "result", "other"}]
BY DEF EnvironmentInv, TypeOK, Shaped, Steps, Trees, Refs

\* What Typed says, of the next state.
TypedNext ==
  /\ record' \in [Children -> Descriptors]
  /\ tree' \in [Children -> Trees]
  /\ ref' \in [Children -> Refs]
  /\ artifact' \in [Children -> Artifacts]
  /\ told' \in [Children -> Results]
  /\ mem' \in [Children -> Memories]
  /\ written' \in [Children -> 0..MaxWork]
  /\ step' \in [Children -> Steps]
  /\ session' \subseteq Children /\ given' \subseteq Children
  /\ target' \in [Children -> {"without", "with", "other"}]
  /\ branch' \in [Children -> {"none", "result", "other"}]

LEMMA TypedAgain ==
  ASSUME TypedNext
  PROVE  TypeOK' /\ Shaped'
BY DEF TypedNext, TypeOK, Shaped, Steps, Trees, Refs, Memories, Artifacts, Results

\* Nothing of d has changed, but it may have been given to the user.
Same(d) ==
  /\ record'[d] = record[d] /\ tree'[d] = tree[d] /\ ref'[d] = ref[d] /\ artifact'[d] = artifact[d]
  /\ told'[d] = told[d] /\ mem'[d] = mem[d] /\ written'[d] = written[d] /\ step'[d] = step[d]
  /\ d \in given => d \in given'

LEMMA SameKept ==
  ASSUME NEW d \in Children, ChildInv(d), Same(d)
  PROVE  ChildInv(d)'
BY DEF Same, ChildInv, TreeInv, RefInv, GoneInv, ProvisionInv, Committed, ExecuteInv, ResultInv, HandInv,
       Had, EmptyPatch, At

LEMMA OneChild ==
  ASSUME EnvironmentInv, NEW c \in Children, TypedNext, \A d \in Children \ {c} : Same(d), ChildInv(c)'
  PROVE  EnvironmentInv'
<1>1. TypeOK' /\ Shaped'
  BY TypedAgain
<1>2. \A d \in Children : ChildInv(d)'
  <2> TAKE d \in Children
  <2>1. ChildInv(d)
    BY DEF EnvironmentInv
  <2>2. QED BY <2>1, SameKept
<1>3. QED BY <1>1, <1>2 DEF EnvironmentInv

-----------------------------------------------------------------------------
(* Commits, descriptors, and the memory of an execution *)

LEMMA CommitTypes ==
  ASSUME Constants
  PROVE  /\ Nothing \in Commits /\ Bare \in Commits /\ <<TRUE, 0>> \in Commits
         /\ Bare # Nothing /\ <<TRUE, 0>> # Nothing
         /\ Bare[2] = 0 /\ <<TRUE, 0>>[2] = 0
         /\ \A k \in Commits : k # Nothing => k[2] \in 0..MaxWork
<1>1. Nothing \in Commits
  BY DEF Commits
<1>2. Bare \in Commits /\ <<TRUE, 0>> \in Commits
  <2>1. 0 \in 0..MaxWork
    BY DEF Constants
  <2>2. \A b \in BOOLEAN, n \in 0..MaxWork : <<b, n>> \in Commits
    BY DEF Commits
  <2>3. FALSE \in BOOLEAN /\ TRUE \in BOOLEAN
    OBVIOUS
  <2>4. QED BY <2>1, <2>2, <2>3, Zenon DEF Bare
<1>3. \A b \in BOOLEAN, n \in Nat : <<b, n>> # Nothing
  BY DEF Nothing
<1>4. \A k \in Commits : k # Nothing => k[2] \in 0..MaxWork
  BY DEF Commits
<1>5. QED BY <1>1, <1>2, <1>3, <1>4 DEF Bare

LEMMA DescriptorTypes ==
  ASSUME Constants
  PROVE  /\ NoDescriptor \in Descriptors /\ NoDescriptor.status = "absent" /\ NoDescriptor.result = Nothing
         /\ \A e \in Descriptors :
              /\ e.result \in Commits /\ e.baseline \in Commits /\ e.base \in Commits
              /\ \A s \in Statuses :
                   /\ With(e, s) \in Descriptors /\ With(e, s).status = s
                   /\ With(e, s).result = e.result
BY CommitTypes DEF Descriptors, NoDescriptor, With, Statuses

LEMMA MemoryTypes ==
  ASSUME Constants, EnvironmentInv
  PROVE  /\ NoMemory \in Memories
         /\ \A c \in Children :
              /\ mem[c].env \in Descriptors /\ mem[c].accepted \in BOOLEAN
              /\ mem[c].todo \subseteq {"artifact", "record"}
              /\ record[c] \in Descriptors
BY Typed, DescriptorTypes DEF Memories, NoMemory

\* The worktree of a child that has one: its files and its last commit.
LEMMA TreeTypes ==
  ASSUME Constants, EnvironmentInv, NEW c \in Children
  PROVE  /\ tree[c] \in Trees /\ tree[c].there \in BOOLEAN
         /\ tree[c].files \in Commits /\ tree[c].head \in Commits
         /\ ref[c] \in Refs /\ ref[c].baseline \in Commits /\ ref[c].result \in Commits
         /\ written[c] \in 0..MaxWork
         /\ NoTree \in Trees /\ ~NoTree.there
         /\ \A k \in Commits :
              TreeAt(k) \in Trees /\ TreeAt(k).there /\ TreeAt(k).files = k /\ TreeAt(k).head = k
BY Typed, CommitTypes DEF NoTree, TreeAt, Trees, Refs

LEMMA RecordTypes ==
  ASSUME Constants, EnvironmentInv, NEW c \in Children
  PROVE  /\ artifact[c] \in Artifacts /\ artifact[c].commit \in Commits
         /\ told[c] \in Results /\ told[c].artifact \in Artifacts /\ told[c].artifact.commit \in Commits
BY Typed DEF Artifacts, Results

\* What a variable is after a step that wrote one child's part of it.
NewRecord(c, e) ==
  record' \in [Children -> Descriptors] /\ record'[c] = e /\ \A d \in Children \ {c} : record'[d] = record[d]
NewMemory(c, m) ==
  mem' \in [Children -> Memories] /\ mem'[c] = m /\ \A d \in Children \ {c} : mem'[d] = mem[d]
NewTree(c, t) ==
  tree' \in [Children -> Trees] /\ tree'[c] = t /\ \A d \in Children \ {c} : tree'[d] = tree[d]
NewRef(c, r) ==
  ref' \in [Children -> Refs] /\ ref'[c] = r /\ \A d \in Children \ {c} : ref'[d] = ref[d]
NewArtifact(c, a) ==
  /\ artifact' \in [Children -> Artifacts] /\ artifact'[c] = a
  /\ \A d \in Children \ {c} : artifact'[d] = artifact[d]
NewTold(c, t) ==
  told' \in [Children -> Results] /\ told'[c] = t /\ \A d \in Children \ {c} : told'[d] = told[d]
NewWritten(c, n) ==
  written' \in [Children -> 0..MaxWork] /\ written'[c] = n /\ \A d \in Children \ {c} : written'[d] = written[d]

LEMMA RecordWritten ==
  ASSUME EnvironmentInv, NEW c \in Children, NEW e \in Descriptors, record' = [record EXCEPT ![c] = e]
  PROVE  NewRecord(c, e)
BY Typed DEF NewRecord

LEMMA MemoryWritten ==
  ASSUME EnvironmentInv, NEW c \in Children, NEW m \in Memories, mem' = [mem EXCEPT ![c] = m]
  PROVE  NewMemory(c, m)
BY Typed DEF NewMemory

LEMMA TreeWritten ==
  ASSUME EnvironmentInv, NEW c \in Children, NEW t \in Trees, tree' = [tree EXCEPT ![c] = t]
  PROVE  NewTree(c, t)
BY Typed DEF NewTree, Trees

LEMMA RefWritten ==
  ASSUME EnvironmentInv, NEW c \in Children, NEW r \in Refs, ref' = [ref EXCEPT ![c] = r]
  PROVE  NewRef(c, r)
BY Typed DEF NewRef, Refs

LEMMA ArtifactWritten ==
  ASSUME EnvironmentInv, NEW c \in Children, NEW a \in Artifacts, artifact' = [artifact EXCEPT ![c] = a]
  PROVE  NewArtifact(c, a)
BY Typed DEF NewArtifact

LEMMA ToldWritten ==
  ASSUME EnvironmentInv, NEW c \in Children, NEW t \in Results, told' = [told EXCEPT ![c] = t]
  PROVE  NewTold(c, t)
BY Typed DEF NewTold

LEMMA WrittenWritten ==
  ASSUME EnvironmentInv, NEW c \in Children, NEW n \in 0..MaxWork, written' = [written EXCEPT ![c] = n]
  PROVE  NewWritten(c, n)
BY Typed DEF NewWritten

\* Editing a field of a worktree, of a ref, of a descriptor or of a memory.
LEMMA TreeEdits ==
  ASSUME Constants, EnvironmentInv, NEW c \in Children, NEW k \in Commits
  PROVE  /\ [tree[c] EXCEPT !.files = k] \in Trees /\ [tree[c] EXCEPT !.head = k] \in Trees
         /\ [ref[c] EXCEPT !.baseline = k] \in Refs /\ [ref[c] EXCEPT !.result = k] \in Refs
<1>1. tree[c] \in Trees /\ ref[c] \in Refs
  BY TreeTypes
<1>2. QED BY <1>1 DEF Trees, Refs

LEMMA EnvironmentEdits ==
  ASSUME Constants, EnvironmentInv, NEW c \in Children, NEW k \in Commits
  PROVE  /\ [mem[c].env EXCEPT !.base = k] \in Descriptors
         /\ [mem[c].env EXCEPT !.baseline = k] \in Descriptors
<1>1. mem[c].env \in Descriptors
  BY MemoryTypes
<1>2. QED BY <1>1 DEF Descriptors

LEMMA MemoryEdits ==
  ASSUME Constants, EnvironmentInv, NEW c \in Children, NEW e \in Descriptors
  PROVE  /\ [mem[c] EXCEPT !.env = e] \in Memories
         /\ [mem[c] EXCEPT !.env = e].env = e /\ [mem[c] EXCEPT !.env = e].todo = mem[c].todo
<1>1. mem[c] \in Memories
  BY Typed
<1>2. QED BY <1>1 DEF Memories

\* A new environment in memory, the rest of it unchanged.
LEMMA Recalled ==
  ASSUME Constants, EnvironmentInv, NEW c \in Children, NEW e \in Descriptors, Recall(c, e)
  PROVE  NewMemory(c, [mem[c] EXCEPT !.env = e]) /\ mem'[c].env = e /\ mem'[c].todo = mem[c].todo
<1>1. [mem[c] EXCEPT !.env = e] \in Memories
  BY Typed DEF Memories
<1>2. mem' = [mem EXCEPT ![c] = [mem[c] EXCEPT !.env = e]]
  BY DEF Recall
<1>3. NewMemory(c, [mem[c] EXCEPT !.env = e])
  BY <1>1, <1>2, MemoryWritten
<1>4. QED BY <1>3, Typed DEF NewMemory, Memories

LEMMA WithTypes ==
  ASSUME Constants, NEW e \in Descriptors, NEW s \in Statuses
  PROVE  With(e, s) \in Descriptors /\ With(e, s).status = s /\ With(e, s).result = e.result
BY DEF Descriptors, With

\* A descriptor written with a new status.
LEMMA Marked ==
  ASSUME Constants, EnvironmentInv, NEW c \in Children, NEW e \in Descriptors, NEW s \in Statuses,
         Persist(c, With(e, s))
  PROVE  NewRecord(c, With(e, s)) /\ record'[c].status = s /\ record'[c].result = e.result
BY WithTypes, RecordWritten DEF Persist, NewRecord

LEMMA RecalledAs ==
  ASSUME Constants, EnvironmentInv, NEW c \in Children, NEW e \in Descriptors, NEW s \in Statuses,
         Recall(c, With(e, s))
  PROVE  /\ NewMemory(c, [mem[c] EXCEPT !.env = With(e, s)]) /\ mem'[c].todo = mem[c].todo
         /\ mem'[c].env.status = s /\ mem'[c].env.result = e.result
BY WithTypes, Recalled

-----------------------------------------------------------------------------
(* Provisioning *)

USE DEF At, Fine, Mishap, durable, outside, Provisioning, Executing, Handing

LEMMA StartStep ==
  ASSUME Constants, EnvironmentInv, NEW c \in Children, Start(c)
  PROVE  EnvironmentInv'
<1>1. TypedNext
  BY Typed DEF Start, TypedNext, Goto, Steps, Trees, Refs
<1>2. \A d \in Children \ {c} : Same(d)
  BY Typed DEF Start, Same, Goto, Steps
<1>3. step[c] = "idle" /\ told[c].result = "none"
  BY DEF Start, Goto
<1>4. \/ step'[c] = "restoring" /\ record[c] # NoDescriptor
      \/ step'[c] = "failing"
      \/ step'[c] = "capacity" /\ record[c] = NoDescriptor
  BY Typed DEF Start, Goto
<1>5. NoDescriptor.status = "absent" /\ NoDescriptor.result = Nothing
  BY DescriptorTypes DEF Start, Goto
<1>6. /\ given' = given /\ record'[c] = record[c] /\ tree'[c] = tree[c] /\ ref'[c] = ref[c]
      /\ artifact'[c] = artifact[c] /\ told'[c] = told[c] /\ mem'[c] = mem[c] /\ written'[c] = written[c]
  BY DEF Start
<1>7. ChildInv(c)
  BY DEF EnvironmentInv
<1>8. ChildInv(c)'
  BY <1>3, <1>4, <1>5, <1>6, <1>7
     DEF ChildInv, TreeInv, RefInv, GoneInv, ProvisionInv, Committed, ExecuteInv, ResultInv, HandInv, Had,
         EmptyPatch
<1>9. QED BY <1>1, <1>2, <1>8, OneChild

LEMMA CheckCapacityStep ==
  ASSUME Constants, EnvironmentInv, NEW c \in Children, CheckCapacity(c)
  PROVE  EnvironmentInv'
<1>1. TypedNext
  BY Typed DEF CheckCapacity, TypedNext, Goto, Steps, Trees, Refs
<1>2. \A d \in Children \ {c} : Same(d)
  BY Typed DEF CheckCapacity, Same, Goto, Steps
<1>3. step[c] = "capacity"
  BY DEF CheckCapacity, Goto
<1>4. step'[c] \in {"refused", "claim"}
  BY Typed DEF CheckCapacity, Goto
<1>5. /\ given' = given /\ record'[c] = record[c] /\ tree'[c] = tree[c] /\ ref'[c] = ref[c]
      /\ artifact'[c] = artifact[c] /\ told'[c] = told[c] /\ mem'[c] = mem[c] /\ written'[c] = written[c]
  BY DEF CheckCapacity
<1>6. ChildInv(c)
  BY DEF EnvironmentInv
<1>7. ChildInv(c)'
  BY <1>3, <1>4, <1>5, <1>6
     DEF ChildInv, TreeInv, RefInv, GoneInv, ProvisionInv, Committed, ExecuteInv, ResultInv, HandInv, Had,
         EmptyPatch
<1>8. QED BY <1>1, <1>2, <1>7, OneChild

LEMMA ClaimStep ==
  ASSUME Constants, EnvironmentInv, NEW c \in Children, Claim(c)
  PROVE  EnvironmentInv'
<1>1. record[c].status = "absent" /\ record[c].result = Nothing
  BY DescriptorTypes DEF EnvironmentInv, ChildInv, ProvisionInv, Claim
<1>2. /\ NewRecord(c, With(NoDescriptor, "provisioning")) /\ record'[c].status = "provisioning"
      /\ record'[c].result = NoDescriptor.result
  <2>1. NoDescriptor \in Descriptors /\ "provisioning" \in Statuses
    BY DescriptorTypes, MemoryTypes DEF Statuses
  <2>2. Persist(c, With(NoDescriptor, "provisioning"))
    BY DEF Claim
  <2>3. QED BY <2>1, <2>2, Marked
<1>3. /\ NewMemory(c, [mem[c] EXCEPT !.env = With(NoDescriptor, "provisioning")])
      /\ mem'[c].todo = mem[c].todo
      /\ mem'[c].env.status = "provisioning" /\ mem'[c].env.result = NoDescriptor.result
  <2>1. NoDescriptor \in Descriptors /\ "provisioning" \in Statuses
    BY DescriptorTypes, MemoryTypes DEF Statuses
  <2>2. Recall(c, With(NoDescriptor, "provisioning"))
    BY DEF Claim
  <2>3. QED BY <2>1, <2>2, RecalledAs
<1>4. TypedNext
  BY Typed, <1>1, <1>2, <1>3 DEF Claim, TypedNext, Goto, Steps, Trees, Refs, NewRecord, NewMemory
<1>5. \A d \in Children \ {c} : Same(d)
  BY Typed, <1>1, <1>2, <1>3 DEF Claim, Same, Goto, Steps, NewRecord, NewMemory
<1>6. step[c] = "claim" /\ step'[c] = "adding"
  BY Typed DEF Claim, Goto, Steps
<1>7. record'[c].status = "provisioning" /\ record'[c].result = Nothing
  BY <1>1, <1>2, <1>3, DescriptorTypes
<1>8. mem'[c].env.status = "provisioning" /\ mem'[c].env.result = Nothing
  BY <1>1, <1>2, <1>3, DescriptorTypes
<1>9. /\ given' = given /\ tree'[c] = tree[c] /\ ref'[c] = ref[c] /\ artifact'[c] = artifact[c]
       /\ told'[c] = told[c] /\ written'[c] = written[c]
  BY DEF Claim
<1>10. ChildInv(c)
  BY DEF EnvironmentInv
<1>11. ChildInv(c)'
  BY <1>1, <1>6, <1>7, <1>8, <1>9, <1>10
     DEF ChildInv, TreeInv, RefInv, GoneInv, ProvisionInv, Committed, ExecuteInv, ResultInv, HandInv, Had,
         EmptyPatch
<1>12. QED BY <1>4, <1>5, <1>11, OneChild

LEMMA AddTreeStep ==
  ASSUME Constants, EnvironmentInv, NEW c \in Children, AddTree(c)
  PROVE  EnvironmentInv'
<1>1. NewTree(c, TreeAt(Bare))
  <2>1. TreeAt(Bare) \in Trees
    BY CommitTypes, TreeTypes
  <2>2. tree' = [tree EXCEPT ![c] = TreeAt(Bare)]
    BY Typed DEF AddTree
  <2>3. QED BY <2>1, <2>2, TreeWritten
<1>2. NewMemory(c, [mem[c] EXCEPT !.env = [mem[c].env EXCEPT !.base = Bare]])
  <2>1. [mem[c] EXCEPT !.env = [mem[c].env EXCEPT !.base = Bare]] \in Memories
    BY CommitTypes, EnvironmentEdits, MemoryEdits
  <2>2. mem' = [mem EXCEPT ![c] = [mem[c] EXCEPT !.env = [mem[c].env EXCEPT !.base = Bare]]]
    BY Typed DEF AddTree
  <2>3. QED BY <2>1, <2>2, MemoryWritten
<1>3. TypedNext
  BY Typed, <1>1, <1>2 DEF AddTree, TypedNext, Goto, Steps, Trees, Refs, NewTree, NewMemory
<1>4. \A d \in Children \ {c} : Same(d)
  BY Typed, <1>1, <1>2 DEF AddTree, Same, Goto, Steps, NewTree, NewMemory
<1>5. step[c] = "adding" /\ step'[c] = "filling"
  BY Typed DEF AddTree, Goto, Steps
<1>6. tree'[c].there /\ tree'[c].files = Bare /\ tree'[c].head = Bare
  BY <1>1, <1>2, CommitTypes, TreeTypes DEF NewTree
<1>7. mem'[c].env.status = mem[c].env.status /\ mem'[c].env.result = mem[c].env.result
  BY <1>1, <1>2
     DEF AddTree, Goto, NewTree, NewMemory, Memories, Descriptors, Bare
<1>8. Bare[2] = 0
  BY <1>1, <1>2
     DEF AddTree, Goto, NewTree, NewMemory, Memories, Descriptors, Bare
<1>9. /\ given' = given /\ record'[c] = record[c] /\ ref'[c] = ref[c] /\ artifact'[c] = artifact[c]
      /\ told'[c] = told[c] /\ written'[c] = written[c]
  BY DEF AddTree
<1>10. ChildInv(c)
  BY DEF EnvironmentInv
<1>11. ChildInv(c)'
  BY <1>5, <1>6, <1>7, <1>8, <1>9, <1>10, CommitTypes
     DEF ChildInv, TreeInv, RefInv, GoneInv, ProvisionInv, Committed, ExecuteInv, ResultInv, HandInv, Had,
         EmptyPatch
<1>12. QED BY <1>3, <1>4, <1>11, OneChild

LEMMA FillStep ==
  ASSUME Constants, EnvironmentInv, NEW c \in Children, Fill(c)
  PROVE  EnvironmentInv'
<1>1. NewTree(c, [tree[c] EXCEPT !.files = <<TRUE, 0>>])
  <2>1. [tree[c] EXCEPT !.files = <<TRUE, 0>>] \in Trees
    BY CommitTypes, TreeEdits
  <2>2. tree' = [tree EXCEPT ![c] = [tree[c] EXCEPT !.files = <<TRUE, 0>>]]
    BY Typed DEF Fill
  <2>3. QED BY <2>1, <2>2, TreeWritten
<1>2. TypedNext
  BY Typed, <1>1 DEF Fill, TypedNext, Goto, Steps, Trees, Refs, NewTree
<1>3. \A d \in Children \ {c} : Same(d)
  BY Typed, <1>1 DEF Fill, Same, Goto, Steps, NewTree
<1>4. step[c] = "filling" /\ step'[c] = "baseline"
  BY Typed DEF Fill, Goto, Steps
<1>5. tree'[c].there = tree[c].there /\ tree'[c].head = tree[c].head /\ tree'[c].files = <<TRUE, 0>>
  BY <1>1, TreeTypes DEF NewTree, Trees
<1>6. /\ given' = given /\ record'[c] = record[c] /\ ref'[c] = ref[c] /\ artifact'[c] = artifact[c]
      /\ told'[c] = told[c] /\ mem'[c] = mem[c] /\ written'[c] = written[c]
  BY DEF Fill
<1>7. tree'[c].files # Nothing /\ tree'[c].files[2] = 0
  BY <1>5, CommitTypes
<1>8. ChildInv(c)
  BY DEF EnvironmentInv
<1>9. written[c] = 0 /\ record[c].result = Nothing /\ tree[c].there
  BY <1>4, <1>8 DEF ChildInv, ProvisionInv
<1>10. tree'[c].there /\ tree'[c].head = tree[c].head
  BY <1>5, <1>9
<1>11. ChildInv(c)'
  BY <1>4, <1>7, <1>9, <1>10, <1>6, <1>8
     DEF ChildInv, TreeInv, RefInv, GoneInv, ProvisionInv, Committed, ExecuteInv, ResultInv, HandInv, Had,
         EmptyPatch
<1>12. QED BY <1>2, <1>3, <1>11, OneChild

LEMMA MergeConflictsStep ==
  ASSUME Constants, EnvironmentInv, NEW c \in Children, MergeConflicts(c)
  PROVE  EnvironmentInv'
<1>1. /\ NewRecord(c, With(mem[c].env, "conflicted")) /\ record'[c].status = "conflicted"
      /\ record'[c].result = mem[c].env.result
  <2>1. mem[c].env \in Descriptors /\ "conflicted" \in Statuses
    BY DescriptorTypes, MemoryTypes DEF Statuses
  <2>2. Persist(c, With(mem[c].env, "conflicted"))
    BY DEF MergeConflicts
  <2>3. QED BY <2>1, <2>2, Marked
<1>2. TypedNext
  BY Typed, <1>1 DEF MergeConflicts, TypedNext, Goto, Steps, Trees, Refs, NewRecord
<1>3. \A d \in Children \ {c} : Same(d)
  BY Typed, <1>1 DEF MergeConflicts, Same, Goto, Steps, NewRecord
<1>4. step[c] = "filling" /\ step'[c] = "failing"
  BY Typed DEF MergeConflicts, Goto, Steps
<1>5. record'[c].status = "conflicted" /\ record'[c].result = mem[c].env.result
  BY <1>1, DescriptorTypes
<1>6. /\ given' = given /\ tree'[c] = tree[c] /\ ref'[c] = ref[c] /\ artifact'[c] = artifact[c]
      /\ told'[c] = told[c] /\ mem'[c] = mem[c] /\ written'[c] = written[c]
  BY DEF MergeConflicts
<1>7. ChildInv(c)
  BY DEF EnvironmentInv
<1>8. ChildInv(c)'
  BY <1>4, <1>5, <1>6, <1>7, <1>1
     DEF ChildInv, TreeInv, RefInv, GoneInv, ProvisionInv, Committed, ExecuteInv, ResultInv, HandInv, Had,
         EmptyPatch
<1>9. QED BY <1>2, <1>3, <1>8, OneChild

LEMMA BaselineStep ==
  ASSUME Constants, EnvironmentInv, NEW c \in Children, Baseline(c)
  PROVE  EnvironmentInv'
<1>1. NewTree(c, [tree[c] EXCEPT !.head = tree[c].files])
  <2>1. [tree[c] EXCEPT !.head = tree[c].files] \in Trees
    BY TreeTypes, TreeEdits
  <2>2. tree' = [tree EXCEPT ![c] = [tree[c] EXCEPT !.head = tree[c].files]]
    BY Typed DEF Baseline
  <2>3. QED BY <2>1, <2>2, TreeWritten
<1>2. NewRef(c, [ref[c] EXCEPT !.baseline = tree[c].files])
  <2>1. [ref[c] EXCEPT !.baseline = tree[c].files] \in Refs
    BY TreeTypes, TreeEdits
  <2>2. ref' = [ref EXCEPT ![c] = [ref[c] EXCEPT !.baseline = tree[c].files]]
    BY Typed DEF Baseline
  <2>3. QED BY <2>1, <2>2, RefWritten
<1>3. NewMemory(c, [mem[c] EXCEPT !.env = [mem[c].env EXCEPT !.baseline = tree[c].files]])
  <2>1. [mem[c] EXCEPT !.env = [mem[c].env EXCEPT !.baseline = tree[c].files]] \in Memories
    BY TreeTypes, EnvironmentEdits, MemoryEdits
  <2>2. mem' = [mem EXCEPT ![c] = [mem[c] EXCEPT !.env = [mem[c].env EXCEPT !.baseline = tree[c].files]]]
    BY Typed DEF Baseline
  <2>3. QED BY <2>1, <2>2, MemoryWritten
<1>4. TypedNext
  BY Typed, <1>1, <1>2, <1>3 DEF Baseline, TypedNext, Goto, Steps, Trees, Refs, NewTree, NewRef, NewMemory
<1>5. \A d \in Children \ {c} : Same(d)
  BY Typed, <1>1, <1>2, <1>3 DEF Baseline, Same, Goto, Steps, NewTree, NewRef, NewMemory
<1>6. step[c] = "baseline" /\ step'[c] = "ready"
  BY Typed DEF Baseline, Goto, Steps
<1>7. tree'[c].there = tree[c].there /\ tree'[c].files = tree[c].files /\ tree'[c].head = tree[c].files
  BY <1>1, <1>2, <1>3
     DEF Baseline, Goto, NewTree, NewRef, NewMemory, Memories, Descriptors, Trees, Refs
<1>8. ref'[c].result = ref[c].result
  BY <1>1, <1>2, <1>3
     DEF Baseline, Goto, NewTree, NewRef, NewMemory, Memories, Descriptors, Trees, Refs
<1>9. mem'[c].env.status = mem[c].env.status /\ mem'[c].env.result = mem[c].env.result
  BY <1>1, <1>2, <1>3
     DEF Baseline, Goto, NewTree, NewRef, NewMemory, Memories, Descriptors, Trees, Refs
<1>10. /\ given' = given /\ record'[c] = record[c] /\ artifact'[c] = artifact[c] /\ told'[c] = told[c]
       /\ written'[c] = written[c]
  BY DEF Baseline
<1>11. ChildInv(c)
  BY DEF EnvironmentInv
<1>12. ChildInv(c)'
  BY <1>6, <1>7, <1>8, <1>9, <1>10, <1>11
     DEF ChildInv, TreeInv, RefInv, GoneInv, ProvisionInv, Committed, ExecuteInv, ResultInv, HandInv, Had,
         EmptyPatch
<1>13. QED BY <1>4, <1>5, <1>12, OneChild

LEMMA PersistReadyStep ==
  ASSUME Constants, EnvironmentInv, NEW c \in Children, PersistReady(c)
  PROVE  EnvironmentInv'
<1>1. /\ NewRecord(c, With(mem[c].env, "ready")) /\ record'[c].status = "ready"
      /\ record'[c].result = mem[c].env.result
  <2>1. mem[c].env \in Descriptors /\ "ready" \in Statuses
    BY DescriptorTypes, MemoryTypes DEF Statuses
  <2>2. Persist(c, With(mem[c].env, "ready"))
    BY DEF PersistReady
  <2>3. QED BY <2>1, <2>2, Marked
<1>2. /\ NewMemory(c, [mem[c] EXCEPT !.env = With(mem[c].env, "ready")]) /\ mem'[c].todo = mem[c].todo
      /\ mem'[c].env.status = "ready" /\ mem'[c].env.result = mem[c].env.result
  <2>1. mem[c].env \in Descriptors /\ "ready" \in Statuses
    BY DescriptorTypes, MemoryTypes DEF Statuses
  <2>2. Recall(c, With(mem[c].env, "ready"))
    BY DEF PersistReady
  <2>3. QED BY <2>1, <2>2, RecalledAs
<1>3. TypedNext
  BY Typed, <1>1, <1>2 DEF PersistReady, TypedNext, Goto, Steps, Trees, Refs, NewRecord, NewMemory
<1>4. \A d \in Children \ {c} : Same(d)
  BY Typed, <1>1, <1>2 DEF PersistReady, Same, Goto, Steps, NewRecord, NewMemory
<1>5. step[c] = "ready" /\ step'[c] = "bind"
  BY Typed DEF PersistReady, Goto, Steps
<1>6. record'[c].status = "ready" /\ record'[c].result = mem[c].env.result
  BY <1>1, <1>2, DescriptorTypes
<1>7. /\ given' = given /\ tree'[c] = tree[c] /\ ref'[c] = ref[c] /\ artifact'[c] = artifact[c]
      /\ told'[c] = told[c] /\ written'[c] = written[c]
  BY DEF PersistReady
<1>8. ChildInv(c)
  BY DEF EnvironmentInv
<1>9. ChildInv(c)'
  BY <1>5, <1>6, <1>7, <1>8, <1>1, <1>2
     DEF ChildInv, TreeInv, RefInv, GoneInv, ProvisionInv, Committed, ExecuteInv, ResultInv, HandInv, Had,
         EmptyPatch
<1>10. QED BY <1>3, <1>4, <1>9, OneChild

LEMMA FailProvisionStep ==
  ASSUME Constants, EnvironmentInv, NEW c \in Children, FailProvision(c)
  PROVE  EnvironmentInv'
<1>1. step[c] \in Provisioning /\ step'[c] = "failing"
  BY Typed DEF FailProvision, Goto
<1>2. ChildInv(c)
  BY DEF EnvironmentInv
<1>3. /\ record[c].status # "absent" /\ record[c].result = Nothing
      /\ mem[c].env.result = Nothing /\ written[c] = 0
  BY <1>1, <1>2 DEF ChildInv, ProvisionInv
<1>4. /\ record' \in [Children -> Descriptors] /\ \A d \in Children \ {c} : record'[d] = record[d]
      /\ record'[c].status # "absent" /\ record'[c].result = Nothing
  <2>1. CASE Persist(c, With(mem[c].env, "failed"))
    <3>1. mem[c].env \in Descriptors /\ "failed" \in Statuses
      BY MemoryTypes DEF Statuses
    <3>2. QED BY <2>1, <3>1, <1>3, Marked DEF NewRecord
  <2>2. CASE record' = record
    BY <2>2, <1>3, Typed
  <2>3. QED BY <2>1, <2>2 DEF FailProvision
<1>5. /\ tree' \in [Children -> Trees] /\ \A d \in Children \ {c} : tree'[d] = tree[d]
      /\ tree'[c] = tree[c] \/ tree'[c] = NoTree
      /\ ref' \in [Children -> Refs] /\ \A d \in Children \ {c} : ref'[d] = ref[d]
      /\ ref'[c].result = ref[c].result
  <2>1. CASE tree' = [tree EXCEPT ![c] = NoTree] /\ ref' = [ref EXCEPT ![c].baseline = Nothing]
    <3>1. NewTree(c, NoTree)
      BY <2>1, TreeTypes, TreeWritten
    <3>2. Nothing \in Commits /\ ref[c] \in Refs
      BY CommitTypes, TreeTypes
    <3> DEFINE r == [ref[c] EXCEPT !.baseline = Nothing]
    <3>3. ref' = [ref EXCEPT ![c] = r]
      BY <2>1
    <3>4. r \in Refs /\ r.result = ref[c].result
      BY <3>2 DEF Refs
    <3> HIDE DEF r
    <3>5. NewRef(c, r)
      BY <3>3, <3>4, RefWritten
    <3>6. QED BY <3>1, <3>4, <3>5 DEF NewTree, NewRef
  <2>2. CASE UNCHANGED <<tree, ref>>
    BY <2>2, Typed DEF Trees, Refs
  <2>3. QED BY <2>1, <2>2 DEF FailProvision
<1>6. TypedNext
  BY Typed, <1>4, <1>5 DEF FailProvision, TypedNext, Goto, Steps, Trees, Refs
<1>7. \A d \in Children \ {c} : Same(d)
  BY Typed, <1>4, <1>5 DEF FailProvision, Same, Goto
<1>8. /\ given' = given /\ artifact'[c] = artifact[c] /\ told'[c] = told[c] /\ mem'[c] = mem[c]
      /\ written'[c] = written[c]
  BY DEF FailProvision
<1>9. ChildInv(c)'
  BY <1>1, <1>2, <1>3, <1>4, <1>5, <1>8, TreeTypes
     DEF ChildInv, TreeInv, RefInv, GoneInv, ProvisionInv, Committed, ExecuteInv, ResultInv, HandInv, Had,
         EmptyPatch
<1>10. QED BY <1>6, <1>7, <1>9, OneChild

LEMMA RestoreStep ==
  ASSUME Constants, EnvironmentInv, NEW c \in Children, Restore(c)
  PROVE  EnvironmentInv'
<1>1. step[c] = "restoring" /\ step'[c] \in {"restored", "failing"}
  BY Typed DEF Restore, Goto
<1> DEFINE commit == RestoreCommit(record[c])
<1>2. commit \in Commits /\ (record[c].result # Nothing => commit = record[c].result)
  BY Typed, DescriptorTypes DEF RestoreCommit
<1>3. NewTree(c, IF tree[c].there \/ commit = Nothing THEN tree[c] ELSE TreeAt(commit))
  <2>1. (IF tree[c].there \/ commit = Nothing THEN tree[c] ELSE TreeAt(commit)) \in Trees
    BY <1>2, TreeTypes
  <2>2. QED BY <2>1, TreeWritten DEF Restore
<1>4. ~tree[c].there /\ commit = Nothing => step'[c] = "failing"
  BY Typed DEF Restore, Goto
<1> HIDE DEF commit
<1>5. /\ mem' \in [Children -> Memories] /\ \A d \in Children \ {c} : mem'[d] = mem[d]
      /\ mem'[c].env.status # "absent" /\ mem'[c].env.result = record[c].result
  <2> DEFINE status == IF record[c].result # Nothing THEN "result_ready" ELSE "ready"
  <2>1. record[c] \in Descriptors /\ status \in Statuses /\ status # "absent"
    BY Typed DEF Statuses
  <2>2. Recall(c, With(record[c], status))
    BY DEF Restore
  <2> HIDE DEF status
  <2>3. /\ NewMemory(c, [mem[c] EXCEPT !.env = With(record[c], status)])
        /\ mem'[c].env.status = status /\ mem'[c].env.result = record[c].result
    BY <2>1, <2>2, RecalledAs
  <2>4. QED BY <2>1, <2>3 DEF NewMemory
<1>6. TypedNext
  BY Typed, <1>3, <1>5 DEF Restore, TypedNext, Goto, Steps, NewTree, Trees
<1>7. \A d \in Children \ {c} : Same(d)
  BY Typed, <1>3, <1>5 DEF Restore, Same, Goto, NewTree
<1>8. /\ given' = given /\ record'[c] = record[c] /\ ref'[c] = ref[c] /\ artifact'[c] = artifact[c]
      /\ told'[c] = told[c] /\ written'[c] = written[c]
  BY DEF Restore
<1>9. ChildInv(c)
  BY DEF EnvironmentInv
<1>10. CASE tree[c].there \/ commit = Nothing
  <2>1. tree'[c] = tree[c]
    BY <1>3, <1>10 DEF NewTree
  <2>2. ChildInv(c)'
    BY <1>1, <1>4, <1>5, <1>8, <1>9, <1>10, <2>1
       DEF ChildInv, TreeInv, RefInv, GoneInv, ProvisionInv, Committed, ExecuteInv, ResultInv, HandInv, Had,
         EmptyPatch
  <2>3. QED BY <1>6, <1>7, <2>2, OneChild
<1>11. CASE ~tree[c].there /\ commit # Nothing
  <2>1. tree'[c].there /\ tree'[c].files = commit /\ tree'[c].head = commit
    BY <1>2, <1>3, <1>11, TreeTypes DEF NewTree
  <2>2. commit[2] \in 0..MaxWork /\ written[c] \in 0..MaxWork
    BY <1>2, <1>11, CommitTypes, Typed
  <2>3. ChildInv(c)'
    BY <1>1, <1>2, <1>5, <1>8, <1>9, <1>11, <2>1, <2>2
       DEF ChildInv, TreeInv, RefInv, GoneInv, ProvisionInv, Committed, ExecuteInv, ResultInv, HandInv, Had,
         EmptyPatch
  <2>4. QED BY <1>6, <1>7, <2>3, OneChild
<1>12. QED BY <1>10, <1>11

LEMMA PersistRestoredStep ==
  ASSUME Constants, EnvironmentInv, NEW c \in Children, PersistRestored(c)
  PROVE  EnvironmentInv'
<1>1. NewRecord(c, mem[c].env)
  <2>1. mem[c].env \in Descriptors
    BY MemoryTypes
  <2>2. record' = [record EXCEPT ![c] = mem[c].env]
    BY DEF PersistRestored, Persist
  <2>3. QED BY <2>1, <2>2, RecordWritten
<1>2. TypedNext
  BY Typed, <1>1 DEF PersistRestored, TypedNext, Goto, Steps, Trees, Refs, NewRecord
<1>3. \A d \in Children \ {c} : Same(d)
  BY Typed, <1>1 DEF PersistRestored, Same, Goto, Steps, NewRecord
<1>4. step[c] = "restored" /\ step'[c] = "bind"
  BY Typed DEF PersistRestored, Goto, Steps
<1>5. record'[c] = mem[c].env
  BY <1>1 DEF NewRecord
<1>6. /\ given' = given /\ tree'[c] = tree[c] /\ ref'[c] = ref[c] /\ artifact'[c] = artifact[c]
      /\ told'[c] = told[c] /\ mem'[c] = mem[c] /\ written'[c] = written[c]
  BY DEF PersistRestored
<1>7. ChildInv(c)
  BY DEF EnvironmentInv
<1>8. ChildInv(c)'
  BY <1>4, <1>5, <1>6, <1>7
     DEF ChildInv, TreeInv, RefInv, GoneInv, ProvisionInv, Committed, ExecuteInv, ResultInv, HandInv, Had,
         EmptyPatch
<1>9. QED BY <1>2, <1>3, <1>8, OneChild

-----------------------------------------------------------------------------
(* The execution *)

LEMMA BindStep ==
  ASSUME Constants, EnvironmentInv, NEW c \in Children, Bind(c)
  PROVE  EnvironmentInv'
<1>1. TypedNext
  BY Typed DEF Bind, TypedNext, Goto, Steps, Trees, Refs
<1>2. \A d \in Children \ {c} : Same(d)
  BY Typed DEF Bind, Same, Goto, Steps
<1>3. step[c] = "bind" /\ step'[c] = "mark"
  BY Typed DEF Bind, Goto, Steps
<1>4. /\ given' = given /\ record'[c] = record[c] /\ tree'[c] = tree[c] /\ ref'[c] = ref[c]
      /\ artifact'[c] = artifact[c] /\ told'[c] = told[c] /\ mem'[c] = mem[c] /\ written'[c] = written[c]
  BY DEF Bind
<1>5. ChildInv(c)
  BY DEF EnvironmentInv
<1>6. ChildInv(c)'
  BY <1>3, <1>4, <1>5
     DEF ChildInv, TreeInv, RefInv, GoneInv, ProvisionInv, Committed, ExecuteInv, ResultInv, HandInv, Had,
         EmptyPatch
<1>7. QED BY <1>1, <1>2, <1>6, OneChild

LEMMA MarkRunningStep ==
  ASSUME Constants, EnvironmentInv, NEW c \in Children, MarkRunning(c)
  PROVE  EnvironmentInv'
<1>1. /\ NewRecord(c, With(record[c], "running")) /\ record'[c].status = "running"
      /\ record'[c].result = record[c].result
  <2>1. record[c] \in Descriptors /\ "running" \in Statuses
    BY DescriptorTypes, MemoryTypes DEF Statuses
  <2>2. Persist(c, With(record[c], "running"))
    BY DEF MarkRunning
  <2>3. QED BY <2>1, <2>2, Marked
<1>2. /\ NewMemory(c, [mem[c] EXCEPT !.env = With(record[c], "running")]) /\ mem'[c].todo = mem[c].todo
      /\ mem'[c].env.status = "running" /\ mem'[c].env.result = record[c].result
  <2>1. record[c] \in Descriptors /\ "running" \in Statuses
    BY DescriptorTypes, MemoryTypes DEF Statuses
  <2>2. Recall(c, With(record[c], "running"))
    BY DEF MarkRunning
  <2>3. QED BY <2>1, <2>2, RecalledAs
<1>3. TypedNext
  BY Typed, <1>1, <1>2 DEF MarkRunning, TypedNext, Goto, Steps, Trees, Refs, NewRecord, NewMemory
<1>4. \A d \in Children \ {c} : Same(d)
  BY Typed, <1>1, <1>2 DEF MarkRunning, Same, Goto, Steps, NewRecord, NewMemory
<1>5. step[c] = "mark" /\ step'[c] = "running"
  BY Typed DEF MarkRunning, Goto, Steps
<1>6. /\ given' = given /\ tree'[c] = tree[c] /\ ref'[c] = ref[c] /\ artifact'[c] = artifact[c]
      /\ told'[c] = told[c] /\ written'[c] = written[c]
  BY DEF MarkRunning
<1>7. ChildInv(c)
  BY DEF EnvironmentInv
<1>8. ChildInv(c)'
  BY <1>5, <1>6, <1>7, <1>1, <1>2
     DEF ChildInv, TreeInv, RefInv, GoneInv, ProvisionInv, Committed, ExecuteInv, ResultInv, HandInv, Had,
         EmptyPatch
<1>9. QED BY <1>3, <1>4, <1>8, OneChild

LEMMA MoreWork ==
  ASSUME Constants, NEW k \in Commits, k # Nothing, k[2] < MaxWork
  PROVE  LET more == [k EXCEPT ![2] = k[2] + 1]
         IN  more \in Commits /\ more # Nothing /\ more[2] = k[2] + 1
<1>1. PICK b \in BOOLEAN, n \in 0..MaxWork : k = <<b, n>>
  BY DEF Commits
<1>2. [k EXCEPT ![2] = k[2] + 1] = <<b, n + 1>> /\ k[2] = n
  BY <1>1
<1>3. n + 1 \in 0..MaxWork
  BY <1>2 DEF Constants
<1>4. <<b, n + 1>> \in Commits /\ <<b, n + 1>> # Nothing
  BY <1>3 DEF Commits, Nothing
<1>5. QED BY <1>2, <1>4

LEMMA WriteStep ==
  ASSUME Constants, EnvironmentInv, NEW c \in Children, Write(c),
         step[c] \in {"idle", "running", "done"} \cup Handing
  PROVE  EnvironmentInv'
<1>1. tree[c].there /\ tree[c].files[2] < MaxWork
  BY DEF Write
<1>2. ChildInv(c)
  BY DEF EnvironmentInv
<1>3. tree[c].files # Nothing /\ tree[c].files \in Commits /\ tree[c].files[2] \in 0..MaxWork
  BY <1>1, <1>2, TreeTypes, CommitTypes DEF ChildInv, TreeInv
<1> DEFINE more == [tree[c].files EXCEPT ![2] = tree[c].files[2] + 1]
           t == [tree[c] EXCEPT !.files = more]
<1>4. tree' = [tree EXCEPT ![c] = t]
  BY Typed DEF Write
<1>5. more \in Commits /\ more # Nothing /\ more[2] = tree[c].files[2] + 1
  BY <1>1, <1>3, MoreWork
<1> HIDE DEF more
<1>6. t \in Trees /\ t.files = more /\ t.head = tree[c].head /\ t.there = tree[c].there
  BY <1>5, TreeTypes DEF Trees
<1> HIDE DEF t
<1>7. NewTree(c, t)
  BY <1>4, <1>6, TreeWritten
<1>8. NewWritten(c, written[c] + 1)
  <2>1. written[c] + 1 \in 0..MaxWork
    BY Typed DEF Write, Constants
  <2>2. QED BY <2>1, WrittenWritten DEF Write
<1>9. TypedNext
  BY Typed, <1>7, <1>8 DEF Write, TypedNext, NewTree, NewWritten, Trees
<1>10. \A d \in Children \ {c} : Same(d)
  BY <1>7, <1>8 DEF Write, Same, NewTree, NewWritten
<1>11. /\ tree'[c].there /\ tree'[c].files # Nothing /\ tree'[c].files[2] = tree[c].files[2] + 1
       /\ tree'[c].head = tree[c].head /\ written'[c] = written[c] + 1
  BY <1>1, <1>5, <1>6, <1>7, <1>8 DEF NewTree, NewWritten
<1>12. /\ given' = given /\ record'[c] = record[c] /\ ref'[c] = ref[c] /\ artifact'[c] = artifact[c]
       /\ told'[c] = told[c] /\ mem'[c] = mem[c] /\ step'[c] = step[c]
  BY DEF Write
<1>13. /\ record[c].result # Nothing => record[c].result[2] \in 0..MaxWork
       /\ written[c] \in 0..MaxWork
  BY Typed, DescriptorTypes, CommitTypes
<1>14. ChildInv(c)'
  BY <1>1, <1>2, <1>3, <1>11, <1>12, <1>13
    
        DEF Constants, ChildInv, TreeInv, RefInv, GoneInv, ProvisionInv, Committed, ExecuteInv, ResultInv,
            HandInv, Had,
         EmptyPatch
<1>15. QED BY <1>9, <1>10, <1>14, OneChild

LEMMA CheckpointStep ==
  ASSUME Constants, EnvironmentInv, NEW c \in Children, NEW next \in {"saving", "pausing"}, Checkpoint(c, next)
  PROVE  EnvironmentInv'
<1> DEFINE now == IF next = "saving" THEN "running" ELSE "ready"
<1>1. now \in Statuses /\ now # "absent"
  BY DEF Statuses
<1>2. NewTree(c, [tree[c] EXCEPT !.head = tree[c].files])
  <2>1. [tree[c] EXCEPT !.head = tree[c].files] \in Trees
    BY TreeTypes, TreeEdits
  <2>2. tree' = [tree EXCEPT ![c] = [tree[c] EXCEPT !.head = tree[c].files]]
    BY Typed DEF Checkpoint, Commit
  <2>3. QED BY <2>1, <2>2, TreeWritten
<1>3. NewRef(c, [ref[c] EXCEPT !.result = tree[c].files])
  <2>1. [ref[c] EXCEPT !.result = tree[c].files] \in Refs
    BY TreeTypes, TreeEdits
  <2>2. ref' = [ref EXCEPT ![c] = [ref[c] EXCEPT !.result = tree[c].files]]
    BY Typed DEF Checkpoint, Commit
  <2>3. QED BY <2>1, <2>2, RefWritten
<1> DEFINE e == [mem[c].env EXCEPT !.result = tree[c].files, !.status = now]
           m == [mem[c] EXCEPT !.env = e]
<1>4. tree[c].files \in Commits /\ mem[c] \in Memories /\ mem \in [Children -> Memories]
  BY TreeTypes, Typed
<1>5. mem[c].env \in Descriptors
  BY MemoryTypes
<1>6. mem' = [mem EXCEPT ![c] = m]
  BY <1>4, <1>5 DEF Checkpoint, Memories, Descriptors
<1> HIDE DEF now
<1>7. e \in Descriptors /\ e.result = tree[c].files /\ e.status = now
  BY <1>1, <1>4, <1>5 DEF Descriptors
<1> HIDE DEF e
<1>8. m \in Memories /\ m.env = e
  BY <1>4, <1>7 DEF Memories
<1> HIDE DEF m
<1>9. NewMemory(c, m)
  BY <1>6, <1>8, MemoryWritten
<1>10. TypedNext
  BY Typed, <1>2, <1>3, <1>9 DEF Checkpoint, TypedNext, Goto, Steps, Trees, Refs, NewTree, NewRef, NewMemory
<1>11. \A d \in Children \ {c} : Same(d)
  BY Typed, <1>2, <1>3, <1>9 DEF Checkpoint, Same, Goto, Steps, NewTree, NewRef, NewMemory
<1>12. step[c] = "running" /\ step'[c] \in {"saving", "pausing"}
  BY Typed DEF Checkpoint, Goto, Steps
<1>13. tree'[c].there = tree[c].there /\ tree'[c].files = tree[c].files /\ tree'[c].head = tree[c].files
  BY <1>2, <1>3, <1>9, TreeTypes DEF NewTree, Trees
<1>14. ref'[c].result = tree[c].files
  BY <1>2, <1>3, <1>9, TreeTypes DEF NewRef, Refs
<1>15. mem'[c].env.result = tree[c].files /\ mem'[c].env.status # "absent"
  BY <1>1, <1>9, <1>7, <1>8 DEF NewMemory
<1>16. /\ given' = given /\ record'[c] = record[c] /\ artifact'[c] = artifact[c] /\ told'[c] = told[c]
       /\ written'[c] = written[c]
  BY DEF Checkpoint
<1>17. ChildInv(c)
  BY DEF EnvironmentInv
<1>18. ChildInv(c)'
  BY <1>12, <1>13, <1>14, <1>15, <1>16, <1>17
     DEF ChildInv, TreeInv, RefInv, GoneInv, ProvisionInv, Committed, ExecuteInv, ResultInv, HandInv, Had,
         EmptyPatch
<1>19. QED BY <1>10, <1>11, <1>18, OneChild

LEMMA PersistCheckpointStep ==
  ASSUME Constants, EnvironmentInv, NEW c \in Children, PersistCheckpoint(c)
  PROVE  EnvironmentInv'
<1>1. NewRecord(c, mem[c].env)
  <2>1. mem[c].env \in Descriptors
    BY MemoryTypes
  <2>2. record' = [record EXCEPT ![c] = mem[c].env]
    BY DEF PersistCheckpoint, Persist
  <2>3. QED BY <2>1, <2>2, RecordWritten
<1>2. TypedNext
  BY Typed, <1>1 DEF PersistCheckpoint, TypedNext, Goto, Steps, Trees, Refs, NewRecord
<1>3. \A d \in Children \ {c} : Same(d)
  BY Typed, <1>1 DEF PersistCheckpoint, Same, Goto, Steps, NewRecord
<1>4. (step[c] = "saving" /\ step'[c] = "running") \/ (step[c] = "pausing" /\ step'[c] = "idle")
  BY Typed DEF PersistCheckpoint, Goto, Steps
<1>5. record'[c] = mem[c].env
  BY <1>1 DEF NewRecord
<1>6. /\ given' = given /\ tree'[c] = tree[c] /\ ref'[c] = ref[c] /\ artifact'[c] = artifact[c]
      /\ told'[c] = told[c] /\ mem'[c] = mem[c] /\ written'[c] = written[c]
  BY DEF PersistCheckpoint
<1>7. ChildInv(c)
  BY DEF EnvironmentInv
<1>8. ChildInv(c)'
  BY <1>4, <1>5, <1>6, <1>7, TreeTypes, CommitTypes
     DEF ChildInv, TreeInv, RefInv, GoneInv, ProvisionInv, Committed, ExecuteInv, ResultInv, HandInv, Had,
         EmptyPatch
<1>9. QED BY <1>2, <1>3, <1>8, OneChild

LEMMA FinalizeStep ==
  ASSUME Constants, EnvironmentInv, NEW c \in Children, NEW accepted \in BOOLEAN, Finalize(c, accepted)
  PROVE  EnvironmentInv'
<1> DEFINE now == IF accepted THEN "result_ready" ELSE "retained"
<1>1. now \in Statuses /\ now # "absent"
  BY DEF Statuses
<1>2. NewTree(c, [tree[c] EXCEPT !.head = tree[c].files])
  <2>1. [tree[c] EXCEPT !.head = tree[c].files] \in Trees
    BY TreeTypes, TreeEdits
  <2>2. tree' = [tree EXCEPT ![c] = [tree[c] EXCEPT !.head = tree[c].files]]
    BY Typed DEF Finalize, Commit
  <2>3. QED BY <2>1, <2>2, TreeWritten
<1>3. NewRef(c, [ref[c] EXCEPT !.result = tree[c].files])
  <2>1. [ref[c] EXCEPT !.result = tree[c].files] \in Refs
    BY TreeTypes, TreeEdits
  <2>2. ref' = [ref EXCEPT ![c] = [ref[c] EXCEPT !.result = tree[c].files]]
    BY Typed DEF Finalize, Commit
  <2>3. QED BY <2>1, <2>2, RefWritten
<1> DEFINE e == [mem[c].env EXCEPT !.result = tree[c].files, !.status = now]
           m == [mem[c] EXCEPT !.env = e, !.accepted = accepted]
<1>4. tree[c].files \in Commits /\ mem[c] \in Memories /\ mem \in [Children -> Memories]
  BY TreeTypes, Typed
<1>5. mem[c].env \in Descriptors
  BY MemoryTypes
<1>6. mem' = [mem EXCEPT ![c] = m]
  BY <1>4, <1>5 DEF Finalize, Memories, Descriptors
<1> HIDE DEF now
<1>7. e \in Descriptors /\ e.result = tree[c].files /\ e.status = now
  BY <1>1, <1>4, <1>5 DEF Descriptors
<1> HIDE DEF e
<1>8. m \in Memories /\ m.env = e
  BY <1>4, <1>7 DEF Memories
<1> HIDE DEF m
<1>9. NewMemory(c, m)
  BY <1>6, <1>8, MemoryWritten
<1>10. TypedNext
  BY Typed, <1>2, <1>3, <1>9 DEF Finalize, TypedNext, Goto, Steps, Trees, Refs, NewTree, NewRef, NewMemory
<1>11. \A d \in Children \ {c} : Same(d)
  BY Typed, <1>2, <1>3, <1>9 DEF Finalize, Same, Goto, Steps, NewTree, NewRef, NewMemory
<1>12. step[c] \in {"running", "unwinding"} /\ step'[c] = "finalizing"
  BY Typed DEF Finalize, Goto, Steps
<1>13. tree'[c].there = tree[c].there /\ tree'[c].files = tree[c].files /\ tree'[c].head = tree[c].files
  BY <1>2, <1>3, <1>9, TreeTypes DEF NewTree, Trees
<1>14. ref'[c].result = tree[c].files
  BY <1>2, <1>3, <1>9, TreeTypes DEF NewRef, Refs
<1>15. mem'[c].env.result = tree[c].files /\ mem'[c].env.status # "absent"
  BY <1>1, <1>9, <1>7, <1>8 DEF NewMemory
<1>16. tree[c].there
  BY DEF Finalize
<1>17. /\ given' = given /\ record'[c] = record[c] /\ artifact'[c] = artifact[c] /\ told'[c] = told[c]
       /\ written'[c] = written[c]
  BY DEF Finalize
<1>18. ChildInv(c)
  BY DEF EnvironmentInv
<1>19. ChildInv(c)'
  BY <1>12, <1>13, <1>14, <1>15, <1>16, <1>17, <1>18
     DEF ChildInv, TreeInv, RefInv, GoneInv, ProvisionInv, Committed, ExecuteInv, ResultInv, HandInv, Had,
         EmptyPatch
<1>20. QED BY <1>10, <1>11, <1>19, OneChild

LEMMA CannotFinalizeStep ==
  ASSUME Constants, EnvironmentInv, NEW c \in Children, CannotFinalize(c)
  PROVE  EnvironmentInv'
<1>1. TypedNext
  BY Typed DEF CannotFinalize, TypedNext, Goto, Steps, Trees, Refs
<1>2. \A d \in Children \ {c} : Same(d)
  BY Typed DEF CannotFinalize, Same, Goto, Steps
<1>3. step[c] \in {"running", "unwinding"} /\ step'[c] = "failing"
  BY Typed DEF CannotFinalize, Goto, Steps
<1>4. /\ given' = given /\ record'[c] = record[c] /\ tree'[c] = tree[c] /\ ref'[c] = ref[c]
      /\ artifact'[c] = artifact[c] /\ told'[c] = told[c] /\ mem'[c] = mem[c] /\ written'[c] = written[c]
  BY DEF CannotFinalize
<1>5. ChildInv(c)
  BY DEF EnvironmentInv
<1>6. ChildInv(c)'
  BY <1>3, <1>4, <1>5
     DEF ChildInv, TreeInv, RefInv, GoneInv, ProvisionInv, Committed, ExecuteInv, ResultInv, HandInv, Had,
         EmptyPatch
<1>7. QED BY <1>1, <1>2, <1>6, OneChild

LEMMA PersistFinalStep ==
  ASSUME Constants, EnvironmentInv, NEW c \in Children, PersistFinal(c)
  PROVE  EnvironmentInv'
<1>1. NewRecord(c, mem[c].env)
  <2>1. mem[c].env \in Descriptors
    BY MemoryTypes
  <2>2. record' = [record EXCEPT ![c] = mem[c].env]
    BY DEF PersistFinal, Persist
  <2>3. QED BY <2>1, <2>2, RecordWritten
<1>2. TypedNext
  BY Typed, <1>1 DEF PersistFinal, TypedNext, Goto, Steps, Trees, Refs, NewRecord
<1>3. \A d \in Children \ {c} : Same(d)
  BY Typed, <1>1 DEF PersistFinal, Same, Goto, Steps, NewRecord
<1>4. step[c] = "finalizing" /\ step'[c] = "artifact"
  BY Typed DEF PersistFinal, Goto, Steps
<1>5. record'[c] = mem[c].env
  BY <1>1 DEF NewRecord
<1>6. /\ given' = given /\ tree'[c] = tree[c] /\ ref'[c] = ref[c] /\ artifact'[c] = artifact[c]
      /\ told'[c] = told[c] /\ mem'[c] = mem[c] /\ written'[c] = written[c]
  BY DEF PersistFinal
<1>7. ChildInv(c)
  BY DEF EnvironmentInv
<1>8. ChildInv(c)'
  BY <1>4, <1>5, <1>6, <1>7, TreeTypes, CommitTypes
     DEF ChildInv, TreeInv, RefInv, GoneInv, ProvisionInv, Committed, ExecuteInv, ResultInv, HandInv, Had,
         EmptyPatch
<1>9. QED BY <1>2, <1>3, <1>8, OneChild

LEMMA PersistArtifactStep ==
  ASSUME Constants, EnvironmentInv, NEW c \in Children, PersistArtifact(c)
  PROVE  EnvironmentInv'
<1> DEFINE a == [status |-> IF mem[c].accepted THEN "ready" ELSE "retained", commit |-> mem[c].env.result]
<1>1. NewArtifact(c, a)
  <2>1. a \in Artifacts
    BY MemoryTypes, DescriptorTypes DEF Artifacts
  <2>2. artifact' = [artifact EXCEPT ![c] = a]
    BY Typed DEF PersistArtifact
  <2>3. QED BY <2>1, <2>2, ArtifactWritten
<1>2. TypedNext
  BY Typed, <1>1 DEF PersistArtifact, TypedNext, Goto, Steps, Trees, Refs, NewArtifact
<1>3. \A d \in Children \ {c} : Same(d)
  BY Typed, <1>1 DEF PersistArtifact, Same, Goto, Steps, NewArtifact
<1>4. step[c] = "artifact" /\ step'[c] = "outcome"
  BY Typed DEF PersistArtifact, Goto, Steps
<1>5. artifact'[c].status \in {"ready", "retained"} /\ artifact'[c].commit = mem[c].env.result
  BY <1>1 DEF NewArtifact
<1>6. /\ given' = given /\ record'[c] = record[c] /\ tree'[c] = tree[c] /\ ref'[c] = ref[c]
      /\ told'[c] = told[c] /\ mem'[c] = mem[c] /\ written'[c] = written[c]
  BY DEF PersistArtifact
<1>7. ChildInv(c)
  BY DEF EnvironmentInv
<1>8. ChildInv(c)'
  BY <1>4, <1>5, <1>6, <1>7
     DEF ChildInv, TreeInv, RefInv, GoneInv, ProvisionInv, Committed, ExecuteInv, ResultInv, HandInv, Had,
         EmptyPatch
<1>9. QED BY <1>2, <1>3, <1>8, OneChild

LEMMA RecordOutcomeStep ==
  ASSUME Constants, EnvironmentInv, NEW c \in Children, RecordOutcome(c)
  PROVE  EnvironmentInv'
<1> DEFINE t == [result |-> IF mem[c].accepted THEN "completed" ELSE "failed", artifact |-> artifact[c]]
<1>1. NewTold(c, t)
  <2>1. t \in Results
    BY MemoryTypes, RecordTypes DEF Results
  <2>2. told' = [told EXCEPT ![c] = t]
    BY Typed DEF RecordOutcome
  <2>3. QED BY <2>1, <2>2, ToldWritten
<1>2. TypedNext
  BY Typed, <1>1 DEF RecordOutcome, TypedNext, Goto, Steps, Trees, Refs, NewTold
<1>3. \A d \in Children \ {c} : Same(d)
  BY Typed, <1>1 DEF RecordOutcome, Same, Goto, Steps, NewTold
<1>4. step[c] = "outcome" /\ step'[c] = "done"
  BY Typed DEF RecordOutcome, Goto, Steps
<1>5. told'[c].result # "none" /\ told'[c].artifact = artifact[c]
  BY <1>1 DEF NewTold
<1>6. /\ given' = given /\ record'[c] = record[c] /\ tree'[c] = tree[c] /\ ref'[c] = ref[c]
      /\ artifact'[c] = artifact[c] /\ mem'[c] = mem[c] /\ written'[c] = written[c]
  BY DEF RecordOutcome
<1>7. ChildInv(c)
  BY DEF EnvironmentInv
<1>8. ChildInv(c)'
  BY <1>4, <1>5, <1>6, <1>7
     DEF ChildInv, TreeInv, RefInv, GoneInv, ProvisionInv, Committed, ExecuteInv, ResultInv, HandInv, Had,
         EmptyPatch
<1>9. QED BY <1>2, <1>3, <1>8, OneChild

LEMMA FailExecutionStep ==
  ASSUME Constants, EnvironmentInv, NEW c \in Children, FailExecution(c)
  PROVE  EnvironmentInv'
<1>1. TypedNext
  BY Typed DEF FailExecution, TypedNext, Goto, Steps, Trees, Refs
<1>2. \A d \in Children \ {c} : Same(d)
  BY Typed DEF FailExecution, Same, Goto, Steps
<1>3. /\ step[c] \in {"bind", "mark", "running", "saving", "pausing", "finalizing", "artifact", "outcome"}
      /\ step'[c] \in {"unwinding", "done"} \/ (step[c] = "pausing" /\ step'[c] = "idle")
  BY Typed DEF FailExecution, Goto, Steps
<1>4. /\ given' = given /\ record'[c] = record[c] /\ tree'[c] = tree[c] /\ ref'[c] = ref[c]
      /\ artifact'[c] = artifact[c] /\ told'[c] = told[c] /\ mem'[c] = mem[c] /\ written'[c] = written[c]
  BY DEF FailExecution
<1>5. ChildInv(c)
  BY DEF EnvironmentInv
<1>6. ChildInv(c)'
  BY <1>3, <1>4, <1>5
     DEF ChildInv, TreeInv, RefInv, GoneInv, ProvisionInv, Committed, ExecuteInv, ResultInv, HandInv, Had,
         EmptyPatch
<1>7. QED BY <1>1, <1>2, <1>6, OneChild

LEMMA RecordFailureStep ==
  ASSUME Constants, EnvironmentInv, NEW c \in Children, RecordFailure(c)
  PROVE  EnvironmentInv'
<1>1. step[c] \in {"refused", "failing"} /\ step'[c] = "done"
  BY Typed DEF RecordFailure, Goto
<1>2. /\ told' \in [Children -> Results] /\ \A d \in Children \ {c} : told'[d] = told[d]
      /\ told'[c] = told[c] \/ (told'[c].result = "failed" /\ told'[c].artifact.status = "none")
  <2> DEFINE failure == [result |-> "failed", artifact |-> NoArtifact]
  <2>1. CASE told' = [told EXCEPT ![c] = failure]
    <3>1. failure \in Results /\ failure.result = "failed" /\ failure.artifact.status = "none"
      BY CommitTypes DEF Results, Artifacts, NoArtifact
    <3> HIDE DEF failure
    <3>2. NewTold(c, failure)
      BY <2>1, <3>1, ToldWritten
    <3>3. QED BY <3>1, <3>2 DEF NewTold
  <2>2. CASE told' = told
    BY <2>2, Typed
  <2>3. QED BY <2>1, <2>2 DEF RecordFailure
<1>3. TypedNext
  BY Typed, <1>2 DEF RecordFailure, TypedNext, Goto, Steps, Trees, Refs
<1>4. \A d \in Children \ {c} : Same(d)
  BY Typed, <1>2 DEF RecordFailure, Same, Goto
<1>5. /\ given' = given /\ record'[c] = record[c] /\ tree'[c] = tree[c] /\ ref'[c] = ref[c]
      /\ artifact'[c] = artifact[c] /\ mem'[c] = mem[c] /\ written'[c] = written[c]
  BY DEF RecordFailure
<1>6. ChildInv(c)
  BY DEF EnvironmentInv
<1>7. ChildInv(c)'
  BY <1>1, <1>2, <1>5, <1>6
     DEF ChildInv, TreeInv, RefInv, GoneInv, ProvisionInv, Committed, ExecuteInv, ResultInv, HandInv, Had,
         EmptyPatch
<1>8. QED BY <1>3, <1>4, <1>7, OneChild

-----------------------------------------------------------------------------
(* The handoff *)

\* The outcome of a handoff is known, and nothing of it is written.
LEMMA Settled ==
  ASSUME Constants, EnvironmentInv, NEW c \in Children, NEW s \in Statuses, NEW t \in Steps, Settle(c, s, t)
  PROVE  /\ mem' \in [Children -> Memories] /\ step' \in [Children -> Steps]
         /\ \A d \in Children \ {c} : mem'[d] = mem[d] /\ step'[d] = step[d]
         /\ mem'[c].env.status = s /\ mem'[c].env.result = record[c].result /\ step'[c] = t
<1> DEFINE e == With(record[c], s)
           m == [mem[c] EXCEPT !.env = e, !.todo = {"artifact", "record"}]
<1>1. mem' = [mem EXCEPT ![c] = m]
  BY Typed DEF Settle
<1>2. mem[c] \in Memories /\ record[c] \in Descriptors
  BY Typed
<1>3. e \in Descriptors /\ e.status = s /\ e.result = record[c].result
  BY <1>2, WithTypes
<1> HIDE DEF e
<1>4. m \in Memories /\ m.env = e
  BY <1>2, <1>3 DEF Memories
<1> HIDE DEF m
<1>5. NewMemory(c, m)
  BY <1>1, <1>4, MemoryWritten
<1>6. step' \in [Children -> Steps] /\ step'[c] = t /\ \A d \in Children \ {c} : step'[d] = step[d]
  BY Typed DEF Settle, Goto
<1>7. QED BY <1>3, <1>4, <1>5, <1>6 DEF NewMemory

\* It is known to be delivered only if the user has the result.
LEMMA SettleStep ==
  ASSUME Constants, EnvironmentInv, NEW c \in Children, NEW s \in {"handed_off", "conflicted"},
         NEW t \in {"delivering", "conflicting"}, Settle(c, s, t),
         step[c] \in {"done", "applying"}, told[c].result = "completed",
         s = "handed_off" => c \in given' \/ EmptyPatch(c),
         UNCHANGED <<durable, written>>, given \subseteq given', given' \subseteq Children,
         target' \in [Children -> {"without", "with", "other"}],
         branch' \in [Children -> {"none", "result", "other"}]
  PROVE  EnvironmentInv'
<1>1. s \in Statuses /\ t \in Steps
  BY DEF Statuses, Steps
<1>2. /\ mem' \in [Children -> Memories] /\ step' \in [Children -> Steps]
      /\ \A d \in Children \ {c} : mem'[d] = mem[d] /\ step'[d] = step[d]
      /\ mem'[c].env.status = s /\ mem'[c].env.result = record[c].result /\ step'[c] = t
  BY <1>1, Settled
<1>3. TypedNext
  BY Typed, <1>2 DEF TypedNext, Trees, Refs
<1>4. \A d \in Children \ {c} : Same(d)
  BY <1>2 DEF Same
<1>5. ChildInv(c)
  BY DEF EnvironmentInv
<1>6. /\ record'[c] = record[c] /\ tree'[c] = tree[c] /\ ref'[c] = ref[c] /\ artifact'[c] = artifact[c]
      /\ told'[c] = told[c] /\ written'[c] = written[c]
  OBVIOUS
<1>7. ChildInv(c)'
  BY <1>2, <1>5, <1>6
     DEF ChildInv, TreeInv, RefInv, GoneInv, ProvisionInv, Committed, ExecuteInv, ResultInv, HandInv, Had,
         EmptyPatch
<1>8. QED BY <1>3, <1>4, <1>7, OneChild

LEMMA HandToBranchStep ==
  ASSUME Constants, EnvironmentInv, NEW c \in Children, HandToBranch(c)
  PROVE  EnvironmentInv'
<1>1. step[c] = "done" /\ told[c].result = "completed" /\ UNCHANGED <<durable, written>> /\ target' = target
  BY DEF HandToBranch
<1>2. CASE Settle(c, "conflicted", "conflicting") /\ UNCHANGED <<branch, given>>
  BY <1>1, <1>2, Typed, SettleStep
<1>3. CASE /\ Settle(c, "handed_off", "delivering") /\ branch' = [branch EXCEPT ![c] = "result"]
           /\ given' = given \cup {c}
  <2>1. branch' \in [Children -> {"none", "result", "other"}] /\ given' \subseteq Children /\ c \in given'
    BY <1>3, Typed
  <2>2. QED BY <1>1, <1>3, <2>1, Typed, SettleStep
<1>4. QED BY <1>2, <1>3 DEF HandToBranch

LEMMA HandToWorkspaceStep ==
  ASSUME Constants, EnvironmentInv, NEW c \in Children, HandToWorkspace(c)
  PROVE  EnvironmentInv'
<1>1. TypedNext
  BY Typed DEF HandToWorkspace, TypedNext, Goto, Steps, Trees, Refs
<1>2. \A d \in Children \ {c} : Same(d)
  BY Typed DEF HandToWorkspace, Same, Goto, Steps
<1>3. step[c] = "done" /\ step'[c] = "applying"
  BY Typed DEF HandToWorkspace, Goto, Steps
<1>4. told[c].result = "completed"
  BY DEF HandToWorkspace, Goto
<1>5. /\ given' = given /\ record'[c] = record[c] /\ tree'[c] = tree[c] /\ ref'[c] = ref[c]
      /\ artifact'[c] = artifact[c] /\ told'[c] = told[c] /\ mem'[c] = mem[c] /\ written'[c] = written[c]
  BY DEF HandToWorkspace
<1>6. ChildInv(c)
  BY DEF EnvironmentInv
<1>7. ChildInv(c)'
  BY <1>3, <1>4, <1>5, <1>6
     DEF ChildInv, TreeInv, RefInv, GoneInv, ProvisionInv, Committed, ExecuteInv, ResultInv, HandInv, Had,
         EmptyPatch
<1>8. QED BY <1>1, <1>2, <1>7, OneChild

LEMMA ApplyStep ==
  ASSUME Constants, EnvironmentInv, NEW c \in Children, Apply(c)
  PROVE  EnvironmentInv'
<1>1. step[c] = "applying" /\ UNCHANGED <<durable, written>> /\ branch' = branch
  BY DEF Apply
<1>2. told[c].result = "completed"
  BY <1>1 DEF EnvironmentInv, ChildInv, ResultInv
<1>3. CASE EmptyPatch(c) /\ Settle(c, "handed_off", "delivering") /\ UNCHANGED <<target, given>>
  BY <1>1, <1>2, <1>3, Typed, SettleStep
<1>4. CASE /\ target' = [target EXCEPT ![c] = "with"] /\ given' = given \cup {c}
           /\ Settle(c, "handed_off", "delivering")
  <2>1. /\ target' \in [Children -> {"without", "with", "other"}]
        /\ given' \subseteq Children /\ c \in given'
    BY <1>4, Typed
  <2>2. QED BY <1>1, <1>2, <1>4, <2>1, Typed, SettleStep
<1>5. CASE Settle(c, "conflicted", "conflicting") /\ UNCHANGED <<target, given>>
  BY <1>1, <1>2, <1>5, Typed, SettleStep
<1>6. QED BY <1>3, <1>4, <1>5 DEF Apply

\* One of the writes of an outcome is done.
LEMMA TodoWritten ==
  ASSUME Constants, EnvironmentInv, NEW c \in Children, NEW w \in {"artifact", "record"},
         mem' = [mem EXCEPT ![c].todo = @ \ {w}]
  PROVE  /\ mem' \in [Children -> Memories] /\ \A d \in Children \ {c} : mem'[d] = mem[d]
         /\ mem'[c].env = mem[c].env
<1> DEFINE m == [mem[c] EXCEPT !.todo = mem[c].todo \ {w}]
<1>1. mem' = [mem EXCEPT ![c] = m]
  BY Typed
<1>2. mem[c] \in Memories
  BY Typed
<1>3. m \in Memories /\ m.env = mem[c].env
  BY <1>2 DEF Memories
<1> HIDE DEF m
<1>4. NewMemory(c, m)
  BY <1>1, <1>3, MemoryWritten
<1>5. QED BY <1>3, <1>4 DEF NewMemory

LEMMA WriteArtifactStep ==
  ASSUME Constants, EnvironmentInv, NEW c \in Children, WriteArtifact(c)
  PROVE  EnvironmentInv'
<1>1. /\ step[c] \in {"delivering", "conflicting"}
      /\ step'[c] \in {"delivering", "conflicting", "cleaning", "reporting"}
      /\ step' \in [Children -> Steps] /\ \A d \in Children \ {c} : step'[d] = step[d]
  BY Typed DEF WriteArtifact, Goto, AfterWrites, Steps
<1>2. /\ mem' \in [Children -> Memories] /\ \A d \in Children \ {c} : mem'[d] = mem[d]
      /\ mem'[c].env = mem[c].env
  BY TodoWritten DEF WriteArtifact
<1> DEFINE status == IF Delivered(c) THEN "delivered" ELSE "conflicted"
           a == [status |-> status, commit |-> told[c].artifact.commit]
<1>3. a \in Artifacts
  BY RecordTypes DEF Artifacts
<1>4. NewArtifact(c, a)
  BY <1>3, ArtifactWritten DEF WriteArtifact
<1>5. /\ /\ artifact'[c].commit = told[c].artifact.commit
      /\ artifact'[c].status \in {"delivered", "conflicted"}
      /\ artifact'[c].status = "delivered" => mem[c].env.status = "handed_off"
  BY <1>4 DEF NewArtifact, Delivered
<1>6. TypedNext
  BY Typed, <1>1, <1>2, <1>4 DEF WriteArtifact, TypedNext, NewArtifact, Trees, Refs
<1>7. \A d \in Children \ {c} : Same(d)
  BY <1>1, <1>2, <1>4 DEF WriteArtifact, Same, NewArtifact
<1>8. /\ given' = given /\ record'[c] = record[c] /\ tree'[c] = tree[c] /\ ref'[c] = ref[c]
      /\ told'[c] = told[c] /\ written'[c] = written[c]
  BY DEF WriteArtifact
<1>9. ChildInv(c)
  BY DEF EnvironmentInv
<1>10. ChildInv(c)'
  BY <1>1, <1>2, <1>5, <1>8, <1>9
     DEF ChildInv, TreeInv, RefInv, GoneInv, ProvisionInv, Committed, ExecuteInv, ResultInv, HandInv, Had,
         EmptyPatch
<1>11. QED BY <1>6, <1>7, <1>10, OneChild

LEMMA WriteRecordStep ==
  ASSUME Constants, EnvironmentInv, NEW c \in Children, WriteRecord(c)
  PROVE  EnvironmentInv'
<1>1. /\ step[c] \in {"delivering", "conflicting"}
      /\ step'[c] \in {"delivering", "conflicting", "cleaning", "reporting"}
      /\ step' \in [Children -> Steps] /\ \A d \in Children \ {c} : step'[d] = step[d]
  BY Typed DEF WriteRecord, Goto, AfterWrites, Steps
<1>2. /\ mem' \in [Children -> Memories] /\ \A d \in Children \ {c} : mem'[d] = mem[d]
      /\ mem'[c].env = mem[c].env
  BY TodoWritten DEF WriteRecord
<1>3. NewRecord(c, mem[c].env)
  BY MemoryTypes, RecordWritten DEF WriteRecord, Persist
<1>4. record'[c] = mem[c].env
  BY <1>3 DEF NewRecord
<1>5. TypedNext
  BY Typed, <1>1, <1>2, <1>3 DEF WriteRecord, TypedNext, NewRecord, Trees, Refs
<1>6. \A d \in Children \ {c} : Same(d)
  BY <1>1, <1>2, <1>3 DEF WriteRecord, Same, NewRecord
<1>7. /\ given' = given /\ tree'[c] = tree[c] /\ ref'[c] = ref[c] /\ artifact'[c] = artifact[c]
      /\ told'[c] = told[c] /\ written'[c] = written[c]
  BY DEF WriteRecord
<1>8. ChildInv(c)
  BY DEF EnvironmentInv
<1>9. ChildInv(c)'
  BY <1>1, <1>2, <1>4, <1>7, <1>8
     DEF ChildInv, TreeInv, RefInv, GoneInv, ProvisionInv, Committed, ExecuteInv, ResultInv, HandInv, Had,
         EmptyPatch
<1>10. QED BY <1>5, <1>6, <1>9, OneChild

LEMMA CheckTreeStep ==
  ASSUME Constants, EnvironmentInv, NEW c \in Children, CheckTree(c)
  PROVE  EnvironmentInv'
<1>1. step[c] = "cleaning" /\ step'[c] \in {"reporting", "removing", "removed"}
  BY Typed DEF CheckTree, Goto
<1>2. NewMemory(c, [mem[c] EXCEPT !.env = record[c]]) /\ mem'[c].env = record[c]
  BY Typed, Recalled DEF CheckTree
<1>3. /\ record' \in [Children -> Descriptors] /\ \A d \in Children \ {c} : record'[d] = record[d]
      /\ record'[c] = record[c] \/ (record'[c].status = "retained" /\ record'[c].result = record[c].result)
  <2>1. CASE record' = [record EXCEPT ![c].status = "retained"]
    <3>1. record[c] \in Descriptors /\ "retained" \in Statuses
      BY Typed DEF Statuses
    <3>2. Persist(c, With(record[c], "retained"))
      BY <2>1 DEF Persist, With
    <3>3. QED BY <3>1, <3>2, Marked DEF NewRecord
  <2>2. CASE record' = record
    BY <2>2, Typed
  <2>3. QED BY <2>1, <2>2 DEF CheckTree
<1>4. TypedNext
  BY Typed, <1>2, <1>3 DEF CheckTree, TypedNext, NewMemory, Goto, Steps, Trees, Refs
<1>5. \A d \in Children \ {c} : Same(d)
  BY Typed, <1>2, <1>3 DEF CheckTree, Same, NewMemory, Goto
<1>6. /\ given' = given /\ tree'[c] = tree[c] /\ ref'[c] = ref[c] /\ artifact'[c] = artifact[c]
      /\ told'[c] = told[c] /\ written'[c] = written[c]
  BY DEF CheckTree
<1>7. ChildInv(c)
  BY DEF EnvironmentInv
<1>8. ChildInv(c)'
  BY <1>1, <1>2, <1>3, <1>6, <1>7
     DEF ChildInv, TreeInv, RefInv, GoneInv, ProvisionInv, Committed, ExecuteInv, ResultInv, HandInv, Had,
         EmptyPatch
<1>9. QED BY <1>4, <1>5, <1>8, OneChild

LEMMA RemoveTreeStep ==
  ASSUME Constants, EnvironmentInv, NEW c \in Children, RemoveTree(c)
  PROVE  EnvironmentInv'
<1>1. step[c] = "removing" /\ step'[c] \in {"reporting", "removed"}
  BY Typed DEF RemoveTree, Goto
<1>2. /\ tree' \in [Children -> Trees] /\ \A d \in Children \ {c} : tree'[d] = tree[d]
      /\ tree'[c] = tree[c] \/ (~tree'[c].there /\ tree[c].files = tree[c].head)
  <2>1. CASE tree[c].files = tree[c].head /\ tree' = [tree EXCEPT ![c] = NoTree]
    BY <2>1, TreeTypes, TreeWritten DEF NewTree
  <2>2. CASE tree' = tree
    BY <2>2, Typed DEF Trees
  <2>3. QED BY <2>1, <2>2 DEF RemoveTree
<1>3. TypedNext
  BY Typed, <1>2 DEF RemoveTree, TypedNext, Goto, Steps, Trees, Refs
<1>4. \A d \in Children \ {c} : Same(d)
  BY Typed, <1>2 DEF RemoveTree, Same, Goto
<1>5. /\ given' = given /\ record'[c] = record[c] /\ ref'[c] = ref[c] /\ artifact'[c] = artifact[c]
      /\ told'[c] = told[c] /\ mem'[c] = mem[c] /\ written'[c] = written[c]
  BY DEF RemoveTree
<1>6. ChildInv(c)
  BY DEF EnvironmentInv
<1>7. ChildInv(c)'
  BY <1>1, <1>2, <1>5, <1>6
     DEF ChildInv, TreeInv, RefInv, GoneInv, ProvisionInv, Committed, ExecuteInv, ResultInv, HandInv, Had,
         EmptyPatch
<1>8. QED BY <1>3, <1>4, <1>7, OneChild

LEMMA PersistRemovedStep ==
  ASSUME Constants, EnvironmentInv, NEW c \in Children, PersistRemoved(c)
  PROVE  EnvironmentInv'
<1>1. /\ NewRecord(c, With(mem[c].env, "removed")) /\ record'[c].status = "removed"
      /\ record'[c].result = mem[c].env.result
  <2>1. mem[c].env \in Descriptors /\ "removed" \in Statuses
    BY DescriptorTypes, MemoryTypes DEF Statuses
  <2>2. Persist(c, With(mem[c].env, "removed"))
    BY DEF PersistRemoved
  <2>3. QED BY <2>1, <2>2, Marked
<1>2. TypedNext
  BY Typed, <1>1 DEF PersistRemoved, TypedNext, Goto, Steps, Trees, Refs, NewRecord
<1>3. \A d \in Children \ {c} : Same(d)
  BY Typed, <1>1 DEF PersistRemoved, Same, Goto, Steps, NewRecord
<1>4. step[c] = "removed" /\ step'[c] = "reporting"
  BY Typed DEF PersistRemoved, Goto, Steps
<1>5. /\ given' = given /\ tree'[c] = tree[c] /\ ref'[c] = ref[c] /\ artifact'[c] = artifact[c]
      /\ told'[c] = told[c] /\ mem'[c] = mem[c] /\ written'[c] = written[c]
  BY DEF PersistRemoved
<1>6. ChildInv(c)
  BY DEF EnvironmentInv
<1>7. ChildInv(c)'
  BY <1>4, <1>5, <1>6, <1>1
     DEF ChildInv, TreeInv, RefInv, GoneInv, ProvisionInv, Committed, ExecuteInv, ResultInv, HandInv, Had,
         EmptyPatch
<1>8. QED BY <1>2, <1>3, <1>7, OneChild

LEMMA ReportStep ==
  ASSUME Constants, EnvironmentInv, NEW c \in Children, Report(c)
  PROVE  EnvironmentInv'
<1>1. NewTold(c, [told[c] EXCEPT !.artifact = artifact[c]])
  <2>1. [told[c] EXCEPT !.artifact = artifact[c]] \in Results
    BY RecordTypes DEF Results
  <2>2. told' = [told EXCEPT ![c] = [told[c] EXCEPT !.artifact = artifact[c]]]
    BY Typed DEF Report
  <2>3. QED BY <2>1, <2>2, ToldWritten
<1>2. TypedNext
  BY Typed, <1>1 DEF Report, TypedNext, Goto, Steps, Trees, Refs, NewTold
<1>3. \A d \in Children \ {c} : Same(d)
  BY Typed, <1>1 DEF Report, Same, Goto, Steps, NewTold
<1>4. step[c] = "reporting" /\ step'[c] = "done"
  BY Typed DEF Report, Goto, Steps
<1>5. told'[c].result = told[c].result /\ told'[c].artifact = artifact[c]
  BY <1>1, RecordTypes DEF NewTold, Results
<1>6. /\ given' = given /\ record'[c] = record[c] /\ tree'[c] = tree[c] /\ ref'[c] = ref[c]
      /\ artifact'[c] = artifact[c] /\ mem'[c] = mem[c] /\ written'[c] = written[c]
  BY DEF Report
<1>7. ChildInv(c)
  BY DEF EnvironmentInv
<1>8. ChildInv(c)'
  BY <1>4, <1>5, <1>6, <1>7
     DEF ChildInv, TreeInv, RefInv, GoneInv, ProvisionInv, Committed, ExecuteInv, ResultInv, HandInv, Had,
         EmptyPatch
<1>9. QED BY <1>2, <1>3, <1>8, OneChild

LEMMA FailHandoffStep ==
  ASSUME Constants, EnvironmentInv, NEW c \in Children, FailHandoff(c)
  PROVE  EnvironmentInv'
<1>1. TypedNext
  BY Typed DEF FailHandoff, TypedNext, Goto, Steps, Trees, Refs
<1>2. \A d \in Children \ {c} : Same(d)
  BY Typed DEF FailHandoff, Same, Goto, Steps
<1>3. step[c] \in Handing /\ step'[c] \in {"reporting", "done"}
  BY Typed DEF FailHandoff, Goto, Steps
<1>4. /\ given' = given /\ record'[c] = record[c] /\ tree'[c] = tree[c] /\ ref'[c] = ref[c]
      /\ artifact'[c] = artifact[c] /\ told'[c] = told[c] /\ mem'[c] = mem[c] /\ written'[c] = written[c]
  BY DEF FailHandoff
<1>5. ChildInv(c)
  BY DEF EnvironmentInv
<1>6. ChildInv(c)'
  BY <1>3, <1>4, <1>5
     DEF ChildInv, TreeInv, RefInv, GoneInv, ProvisionInv, Committed, ExecuteInv, ResultInv, HandInv, Had,
         EmptyPatch
<1>7. QED BY <1>1, <1>2, <1>6, OneChild

-----------------------------------------------------------------------------
(* The rest of the world *)

LEMMA EditWorkspaceStep ==
  ASSUME Constants, EnvironmentInv, NEW c \in Children, EditWorkspace(c)
  PROVE  EnvironmentInv'
<1>1. TypedNext
  BY Typed DEF EditWorkspace, TypedNext, Goto, Steps, Trees, Refs
<1>2. \A d \in Children \ {c} : Same(d)
  BY Typed DEF EditWorkspace, Same, Goto, Steps
<1>3. step'[c] = step[c]
  BY DEF EditWorkspace, Goto
<1>4. /\ given' = given /\ record'[c] = record[c] /\ tree'[c] = tree[c] /\ ref'[c] = ref[c]
      /\ artifact'[c] = artifact[c] /\ told'[c] = told[c] /\ mem'[c] = mem[c] /\ written'[c] = written[c]
  BY DEF EditWorkspace
<1>5. ChildInv(c)
  BY DEF EnvironmentInv
<1>6. ChildInv(c)'
  BY <1>3, <1>4, <1>5
     DEF ChildInv, TreeInv, RefInv, GoneInv, ProvisionInv, Committed, ExecuteInv, ResultInv, HandInv, Had,
         EmptyPatch
<1>7. QED BY <1>1, <1>2, <1>6, OneChild

LEMMA MakeBranchStep ==
  ASSUME Constants, EnvironmentInv, NEW c \in Children, MakeBranch(c)
  PROVE  EnvironmentInv'
<1>1. TypedNext
  BY Typed DEF MakeBranch, TypedNext, Goto, Steps, Trees, Refs
<1>2. \A d \in Children \ {c} : Same(d)
  BY Typed DEF MakeBranch, Same, Goto, Steps
<1>3. step'[c] = step[c]
  BY DEF MakeBranch, Goto
<1>4. /\ given' = given /\ record'[c] = record[c] /\ tree'[c] = tree[c] /\ ref'[c] = ref[c]
      /\ artifact'[c] = artifact[c] /\ told'[c] = told[c] /\ mem'[c] = mem[c] /\ written'[c] = written[c]
  BY DEF MakeBranch
<1>5. ChildInv(c)
  BY DEF EnvironmentInv
<1>6. ChildInv(c)'
  BY <1>3, <1>4, <1>5
     DEF ChildInv, TreeInv, RefInv, GoneInv, ProvisionInv, Committed, ExecuteInv, ResultInv, HandInv, Had,
         EmptyPatch
<1>7. QED BY <1>1, <1>2, <1>6, OneChild

LEMMA LoseTreeStep ==
  ASSUME Constants, EnvironmentInv, NEW c \in Children, LoseTree(c)
  PROVE  EnvironmentInv'
<1>1. step[c] \in {"idle", "done"} /\ step'[c] = step[c]
  BY DEF LoseTree
<1> DEFINE left == IF record[c].result # Nothing THEN record[c].result[2] ELSE 0
<1>2. left \in 0..MaxWork
  BY Typed, DescriptorTypes, CommitTypes DEF Constants
<1>3. NewWritten(c, left)
  BY <1>2, WrittenWritten DEF LoseTree
<1>4. NewTree(c, NoTree) /\ ~NoTree.there
  BY TreeTypes, TreeWritten DEF LoseTree
<1>5. TypedNext
  BY Typed, <1>3, <1>4 DEF LoseTree, TypedNext, NewTree, NewWritten, Trees
<1>6. \A d \in Children \ {c} : Same(d)
  BY Typed, <1>3, <1>4 DEF LoseTree, Same, NewTree, NewWritten
<1>7. /\ given' = given /\ record'[c] = record[c] /\ ref'[c] = ref[c] /\ artifact'[c] = artifact[c]
      /\ told'[c] = told[c] /\ mem'[c] = mem[c]
  BY DEF LoseTree
<1>8. ~tree'[c].there /\ written'[c] = left
  BY <1>3, <1>4 DEF NewTree, NewWritten
<1>9. ChildInv(c)
  BY DEF EnvironmentInv
<1>10. ChildInv(c)'
  BY <1>1, <1>2, <1>7, <1>8, <1>9
     DEF ChildInv, TreeInv, RefInv, GoneInv, ProvisionInv, Committed, ExecuteInv, ResultInv, HandInv, Had,
         EmptyPatch
<1>11. QED BY <1>5, <1>6, <1>10, OneChild

\* A crash takes the memories; what was told decides where a child is.
LEMMA CrashStep ==
  ASSUME Constants, EnvironmentInv, Crash
  PROVE  EnvironmentInv'
<1>1. target' \in [Children -> {"without", "with", "other"}]
  <2>1. CASE target' = target
    BY <2>1, Typed
  <2>2. CASE \E c \in Children : target' = [target EXCEPT ![c] = "other"]
    BY <2>2, Typed
  <2>3. QED BY <2>1, <2>2 DEF Crash
<1>2. mem' \in [Children -> Memories] /\ \A c \in Children : mem'[c] = NoMemory
  BY MemoryTypes DEF Crash
<1>3. /\ step' \in [Children -> Steps]
      /\ \A c \in Children : step'[c] = IF told[c].result = "none" THEN "idle" ELSE "done"
  BY DEF Crash, Steps
<1>4. UNCHANGED <<durable, branch, given, written>>
  BY DEF Crash
<1>5. TypedNext
  BY Typed, <1>1, <1>2, <1>3, <1>4 DEF TypedNext, Trees, Refs
<1>6. ASSUME NEW c \in Children
      PROVE  ChildInv(c)'
  <2>1. ChildInv(c)
    BY DEF EnvironmentInv
  <2>2. /\ given' = given /\ record'[c] = record[c] /\ tree'[c] = tree[c] /\ ref'[c] = ref[c]
        /\ artifact'[c] = artifact[c] /\ told'[c] = told[c] /\ written'[c] = written[c]
    BY <1>4
  <2>3. \/ step'[c] = "idle" /\ told[c].result = "none"
        \/ step'[c] = "done" /\ told[c].result # "none"
    BY <1>3
  <2>4. QED
    BY <2>1, <2>2, <2>3
       DEF ChildInv, TreeInv, RefInv, GoneInv, ProvisionInv, Committed, ExecuteInv, ResultInv, HandInv, Had,
         EmptyPatch
<1>7. TypeOK' /\ Shaped'
  BY <1>5, TypedAgain
<1>8. QED BY <1>6, <1>7 DEF EnvironmentInv

-----------------------------------------------------------------------------
(* The theorems *)

LEMMA InitHolds ==
  ASSUME Constants, Init
  PROVE  EnvironmentInv
<1>1. NoDescriptor \in Descriptors /\ NoDescriptor.status = "absent" /\ NoDescriptor.result = Nothing
  BY DescriptorTypes
<1>2. Nothing \in Commits /\ 0 \in 0..MaxWork
  BY CommitTypes DEF Constants
<1>3. NoMemory \in Memories /\ NoArtifact \in Artifacts
  BY <1>1, <1>2 DEF Memories, NoMemory, Artifacts, NoArtifact
<1>4. NoTree \in Trees
  BY <1>2 DEF Trees, NoTree
<1>5. Shaped
  BY <1>1, <1>2, <1>3 DEF Init, Shaped, Results
<1>6. TypeOK
  BY <1>1, <1>2, <1>3, <1>4 DEF Init, TypeOK, Trees, NoArtifact, NoMemory
<1>7. \A c \in Children : ChildInv(c)
  BY <1>1, <1>2
     DEF Init, NoArtifact, NoMemory, NoTree, ChildInv, TreeInv, RefInv, GoneInv, ProvisionInv, Committed,
         ExecuteInv, ResultInv, HandInv, Had,
         EmptyPatch
<1>8. QED BY <1>5, <1>6, <1>7 DEF EnvironmentInv

LEMMA NextKeeps ==
  ASSUME Constants, EnvironmentInv, [Next]_vars
  PROVE  EnvironmentInv'
<1>1. CASE Crash
  BY <1>1, CrashStep
<1>2. ASSUME NEW c \in Children, Provision(c)
      PROVE  EnvironmentInv'
  BY <1>2, StartStep, CheckCapacityStep, ClaimStep, AddTreeStep, FillStep, MergeConflictsStep, BaselineStep,
     PersistReadyStep, FailProvisionStep, RestoreStep, PersistRestoredStep DEF Provision
<1>3. ASSUME NEW c \in Children, Execute(c)
      PROVE  EnvironmentInv'
  <2>1. CASE Work(c)
    BY <2>1, WriteStep DEF Work
  <2>2. CASE \E next \in {"saving", "pausing"} : Checkpoint(c, next)
    BY <2>2, CheckpointStep
  <2>3. CASE \E accepted \in BOOLEAN : Finalize(c, accepted)
    BY <2>3, FinalizeStep
  <2>4. QED
    BY <1>3, <2>1, <2>2, <2>3, BindStep, MarkRunningStep, PersistCheckpointStep, CannotFinalizeStep,
       PersistFinalStep, PersistArtifactStep, RecordOutcomeStep, FailExecutionStep, RecordFailureStep DEF Execute
<1>4. ASSUME NEW c \in Children, Hand(c)
      PROVE  EnvironmentInv'
  BY <1>4, HandToBranchStep, HandToWorkspaceStep, ApplyStep, WriteArtifactStep, WriteRecordStep,
     CheckTreeStep,
     RemoveTreeStep, PersistRemovedStep, ReportStep, FailHandoffStep DEF Hand
<1>5. ASSUME NEW c \in Children, Outside(c)
      PROVE  EnvironmentInv'
  <2>1. CASE StrayWrite(c)
    <3>1. step[c] \in {"idle", "running", "done"} \cup Handing /\ Write(c)
      BY <2>1 DEF StrayWrite
    <3>2. QED BY <3>1, WriteStep
  <2>2. QED BY <1>5, <2>1, EditWorkspaceStep, MakeBranchStep, LoseTreeStep DEF Outside
<1>6. CASE UNCHANGED vars
  <2>1. TypedNext
    BY <1>6, Typed DEF vars, TypedNext, Trees, Refs
  <2>2. \A c \in Children : Same(c)
    BY <1>6 DEF vars, Same
  <2>3. \A c \in Children : ChildInv(c)'
    BY <2>2, SameKept DEF EnvironmentInv
  <2>4. TypeOK' /\ Shaped'
    BY <2>1, TypedAgain
  <2>5. QED BY <2>3, <2>4 DEF EnvironmentInv
<1>7. QED BY <1>1, <1>2, <1>3, <1>4, <1>5, <1>6 DEF Next

\* The invariant, for every set of children and every bound (ExecutionEnvironmentManager).
THEOREM EnvironmentInvariant ==
  ASSUME Constants
  PROVE  Spec => []EnvironmentInv
<1>1. Init => EnvironmentInv
  BY InitHolds
<1>2. EnvironmentInv /\ [Next]_vars => EnvironmentInv'
  BY NextKeeps
<1>3. QED BY <1>1, <1>2, PTL DEF Spec

\* The variables have their types.
THEOREM EnvironmentTypeCorrect ==
  ASSUME Constants
  PROVE  Spec => []TypeOK
<1>1. EnvironmentInv => TypeOK
  BY DEF EnvironmentInv
<1>2. QED BY <1>1, EnvironmentInvariant, PTL

\* At most three numbers have a greatest.
LEMMA TopIsAbove ==
  ASSUME NEW S, NEW a \in Nat, NEW b \in Nat, S \in {{0}, {0, a}, {0, b}, {0, a, b}}
  PROVE  Top(S) \in S /\ \A n \in S : n <= Top(S)
<1>1. \E n \in S : \A m \in S : m <= n
  <2>1. CASE S = {0}
    BY <2>1
  <2>2. CASE S = {0, a}
    BY <2>2
  <2>3. CASE S = {0, b}
    BY <2>3
  <2>4. CASE S = {0, a, b}
    <3>1. CASE a <= b
      BY <2>4, <3>1
    <3>2. CASE b <= a
      BY <2>4, <3>2
    <3>3. QED BY <3>1, <3>2
  <2>5. QED BY <2>1, <2>2, <2>3, <2>4
<1>2. QED BY <1>1 DEF Top

\* Whatever fails, the work of a child is in its worktree or in a commit that its
\* descriptor names and a ref protects (checkpoint, finalize, cleanup, restore).
THEOREM WorkIsNeverLost ==
  ASSUME Constants
  PROVE  Spec => []WorkIsKept
<1>1. EnvironmentInv => WorkIsKept
  <2> SUFFICES ASSUME EnvironmentInv, NEW c \in Children
               PROVE  written[c] <= Top(Held(c))
    BY DEF WorkIsKept
  <2>1. ChildInv(c)
    BY DEF EnvironmentInv
  <2> DEFINE a == IF tree[c].there THEN tree[c].files[2] ELSE 0
             b == IF record[c].result # Nothing THEN record[c].result[2] ELSE 0
  <2>2. a \in Nat /\ b \in Nat /\ written[c] \in Nat
    BY <2>1, Typed, TreeTypes, DescriptorTypes, CommitTypes DEF Constants, ChildInv, TreeInv
  <2>3. Held(c) \in {{0}, {0, a}, {0, b}, {0, a, b}}
    BY DEF Held
  <2>4. written[c] = 0 \/ \E n \in Held(c) : written[c] <= n
    BY <2>1 DEF Held, ChildInv, TreeInv, RefInv, GoneInv
  <2>5. 0 \in Held(c)
    BY DEF Held
  <2>6. Top(Held(c)) \in Held(c) /\ \A n \in Held(c) : n <= Top(Held(c))
    BY <2>2, <2>3, TopIsAbove
  <2>7. Held(c) \subseteq Nat
    BY <2>2, <2>3
  <2> HIDE DEF a, b
  <2>8. QED BY <2>2, <2>4, <2>5, <2>6, <2>7
<1>2. QED BY <1>1, EnvironmentInvariant, PTL

\* A result that is called delivered has reached the user (handoff).
THEOREM DeliveredResultsAreThere ==
  ASSUME Constants
  PROVE  Spec => []DeliveredIsThere
<1>1. EnvironmentInv => DeliveredIsThere
  BY DEF EnvironmentInv, ChildInv, HandInv, Had, DeliveredIsThere
<1>2. QED BY <1>1, EnvironmentInvariant, PTL

\* The result of a completed child outlives its worktree: artifact, journal and
\* ref agree on its commit (finalize).
THEOREM ResultsAreDurable ==
  ASSUME Constants
  PROVE  Spec => []ResultIsDurable
<1>1. EnvironmentInv => ResultIsDurable
  <2> SUFFICES ASSUME EnvironmentInv, NEW c \in Children, told[c].result = "completed"
               PROVE  /\ artifact[c].status # "none" /\ artifact[c].commit = told[c].artifact.commit
                      /\ ref[c].result # Nothing /\ artifact[c].commit[2] <= ref[c].result[2]
    BY DEF ResultIsDurable
  <2>1. ResultInv(c)
    BY DEF EnvironmentInv, ChildInv
  <2>2. ref[c].result # Nothing /\ artifact[c].commit = ref[c].result
    BY <2>1 DEF ResultInv
  <2>3. ref[c].result[2] \in 0..MaxWork
    BY <2>2, TreeTypes, CommitTypes
  <2>4. QED BY <2>1, <2>2, <2>3 DEF ResultInv
<1>2. QED BY <1>1, EnvironmentInvariant, PTL

=============================================================================
