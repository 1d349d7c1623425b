--------------------------- MODULE LongTermMemory ---------------------------
(***************************************************************************)
(* The long-term memory of a project (MemoryManager) and its maintenance    *)
(* in idle time (MemoryMaintenance). The main agent changes memories when  *)
(* a turn ends, the user at any time; each process takes a finished turn    *)
(* off a queue in the database, asks a model which of the turn's memories   *)
(* repeat or contradict others, and applies what it answers in one          *)
(* transaction. Meanwhile everybody else may have changed the memories, a   *)
(* new turn interrupts the work, the process may die, and a claim of        *)
(* fifteen minutes counts as abandoned.                                     *)
(*                                                                         *)
(* What a memory says is a member of Words; every turn ends in success, so  *)
(* that categories decide nothing. Identities are given in the order of    *)
(* creation, and a turn is known by the order in which it was completed.   *)
(***************************************************************************)
EXTENDS Naturals, Sequences, SequencesExt, FiniteSets

CONSTANTS
  Processes, Words,
  Batches,      \* what write_memory may stage in a turn: sequences of mutations
  MaxMemories, MaxTurns,
  MaxChanges,   \* bound: edits and deletions by the user
  MaxFaults     \* bound: crashes, failed requests, claims that grow old, expirations

VARIABLES
  memories,     \* the records; 1..MaxMemories in the order of creation
  job,          \* the queue: a row for each completed turn
  turns,        \* completed turns
  worker,       \* the maintenance of each process
  busy,         \* processes in which a turn runs
  changes, faults

vars == <<memories, job, turns, worker, busy, changes, faults>>

Ids == 1..MaxMemories
Scopes == {"project", "global"}
User == MaxTurns + 1   \* USER_MEMORY_SOURCE
Blank == [status |-> "none", words |-> CHOOSE w \in Words : TRUE, scope |-> "project", source |-> 0]
Resting == [at |-> "idle", job |-> 0, match |-> <<>>, plan |-> <<>>, aborted |-> FALSE]
NoJob == [status |-> "none", attempts |-> 0, old |-> FALSE]

TypeOK ==
  /\ memories \in [Ids -> [status : {"none", "active", "unsure", "expired", "superseded", "forgotten"},
                           words : Words, scope : Scopes, source : 0..User]]
  /\ \A t \in 1..MaxTurns : job[t].status \in {"none", "queued", "running", "done", "failed"}
  /\ turns \in 0..MaxTurns /\ busy \subseteq Processes
  /\ \A p \in Processes : worker[p].at \in {"idle", "expire", "claim", "search", "ask", "commit"}

Init ==
  /\ memories = [i \in Ids |-> Blank]
  /\ job = [t \in 1..MaxTurns |-> NoJob]
  /\ turns = 0 /\ busy = {}
  /\ worker = [p \in Processes |-> Resting]
  /\ changes = 0 /\ faults = 0

-----------------------------------------------------------------------------
(* Mutations of the records *)

Here(m, i) == m[i].status \in {"active", "unsure"}
Saying(m, scope, words) == {i \in Ids : m[i].status # "none" /\ m[i].scope = scope /\ m[i].words = words}
Other(scope) == IF scope = "global" THEN "project" ELSE "global"
\* Bound: there are identities for every record the batch may create.
HasRoom(batch) ==
  Cardinality({n \in DOMAIN batch : batch[n].act \in {"remember", "revise"}})
    <= Cardinality({i \in Ids : memories[i].status = "none"})
\* The next identity; one that no record has when the batch exceeds its bound.
NewId(m) == CHOOSE i \in 1..(MaxMemories + 1) :
  (i \in Ids => m[i].status = "none") /\ \A j \in 1..(i - 1) : m[j].status # "none"
Record(words, scope, source) == [status |-> "active", words |-> words, scope |-> scope, source |-> source]

\* rememberMemory: words that the user deleted come back only by the user's words.
MayRemember(m, x) ==
  x.stated \/ \A i \in Saying(m, x.scope, x.words) \cup Saying(m, Other(x.scope), x.words) : m[i].status # "forgotten"

Remembered(m, x, source) ==
  LET same == Saying(m, x.scope, x.words)
  IN  IF same = {} THEN [m EXCEPT ![NewId(m)] = Record(x.words, x.scope, source)]
      ELSE [i \in Ids |-> IF i \in same /\ m[i].status # "active"
                          THEN Record(x.words, x.scope, source) ELSE m[i]]

\* Mutant: the record that already has the words may have been deleted.
MayReviseAny(m, x) ==
  /\ Here(m, x.id)
  /\ \A i \in Saying(m, x.scope, x.words) \ {x.id} : ~Here(m, i)

\* reviseMemory, its guards: a deleted record with the new words is in the way.
MayRevise(m, x) ==
  /\ Here(m, x.id)
  /\ \A i \in Saying(m, x.scope, x.words) \ {x.id} :
       ~Here(m, i) /\ (m[i].status = "forgotten" => x.stated)

\* reviseMemory, supersedeWith: in place, by a record with these words, or by a new one.
Revised(m, x, source) ==
  IF m[x.id].words = x.words THEN [m EXCEPT ![x.id] = Record(x.words, x.scope, source)]
  ELSE LET same == Saying(m, x.scope, x.words)
           next == IF same = {} THEN NewId(m) ELSE CHOOSE i \in same : TRUE
       IN  [m EXCEPT ![x.id].status = "superseded", ![next] = Record(x.words, x.scope, source)]

\* changeMemory
MayChange(m, x) ==
  /\ x.id \in Ids /\ m[x.id].status # "none"
  /\ m[x.id].scope = IF x.act = "move" THEN Other(x.scope) ELSE x.scope
  /\ m[x.id].status = "forgotten" => x.act = "forget"
  /\ x.act = "move" => Saying(m, x.scope, m[x.id].words) = {}
  /\ x.act = "revise" => MayRevise(m, x)

Changed(m, x, source) ==
  CASE x.act = "move" -> [m EXCEPT ![x.id].scope = x.scope]
    [] x.act = "flag" -> IF m[x.id].status = "active" THEN [m EXCEPT ![x.id].status = "unsure"] ELSE m
    [] x.act = "forget" -> IF Here(m, x.id) THEN [m EXCEPT ![x.id].status = "expired"] ELSE m
    [] x.act = "revise" -> Revised(m, x, source)

\* applyMutation
Accepts(m, x) == IF x.act = "remember" THEN MayRemember(m, x) ELSE MayChange(m, x)
Applied(m, x, source) == IF x.act = "remember" THEN Remembered(m, x, source) ELSE Changed(m, x, source)

\* commitModelMutations: the records after each mutation, one that is refused changing
\* nothing; or, in one transaction, all of them if none is refused.
Applying(m, batch, source) ==
  LET after[n \in 0..Len(batch)] ==
        IF n = 0 THEN m
        ELSE IF Accepts(after[n - 1], batch[n]) THEN Applied(after[n - 1], batch[n], source) ELSE after[n - 1]
  IN  after
EachApplied(m, batch, source) == Applying(m, batch, source)[Len(batch)]
AllAccepted(m, batch, source) == \A n \in DOMAIN batch : Accepts(Applying(m, batch, source)[n - 1], batch[n])

-----------------------------------------------------------------------------
(* The user and the main agent *)

\* Nothing else of the process runs between two statements of one function.
Free(p) == worker[p].at \notin {"commit", "expire"}

\* A turn interrupts the maintenance of its process, without waiting for it.
BeginTurn(p) ==
  /\ p \notin busy /\ Free(p) /\ turns < MaxTurns
  /\ busy' = busy \cup {p}
  /\ worker' = [worker EXCEPT ![p].aborted = worker[p].at # "idle"]
  /\ UNCHANGED <<memories, job, turns, changes, faults>>

\* finishTurn: what a turn that completes has staged is committed.
EndTurn(p, batch) ==
  /\ p \in busy /\ Free(p) /\ turns < MaxTurns /\ HasRoom(batch)
  /\ busy' = busy \ {p} /\ turns' = turns + 1
  /\ memories' = EachApplied(memories, batch, turns + 1)
  /\ UNCHANGED <<job, worker, changes, faults>>

FailTurn(p) ==
  /\ p \in busy /\ Free(p)
  /\ busy' = busy \ {p}
  /\ UNCHANGED <<memories, job, turns, worker, changes, faults>>

Change == changes < MaxChanges /\ changes' = changes + 1
Fault == faults < MaxFaults /\ faults' = faults + 1
AtPrompt(p) == p \notin busy /\ Free(p)

EditByUser(p, i, words) ==
  /\ AtPrompt(p) /\ Change
  /\ memories[i].status \notin {"none", "superseded"}
  /\ Saying(memories, memories[i].scope, words) \subseteq {i}
  /\ memories' = [memories EXCEPT ![i] = Record(words, @.scope, User)]
  /\ UNCHANGED <<job, turns, worker, busy, faults>>

ForgetByUser(p, i) ==
  /\ AtPrompt(p) /\ Change
  /\ memories[i].status \notin {"none", "forgotten", "superseded"}
  /\ memories' = [memories EXCEPT ![i].status = "forgotten"]
  /\ UNCHANGED <<job, turns, worker, busy, faults>>

\* expireDueMemories, for the maintenance or for what a turn reads: the records are
\* read, and then those of no use for long are written, whatever became of them.
ReadDue(p, i) ==
  /\ worker[p].at = "idle" /\ Here(memories, i) /\ Fault
  /\ worker' = [worker EXCEPT ![p].at = "expire", ![p].job = i]
  /\ UNCHANGED <<memories, job, turns, busy, changes>>

-----------------------------------------------------------------------------
(* Maintenance *)

\* A claim that has not moved for fifteen minutes.
GrowOld(t) ==
  /\ job[t].status = "running" /\ ~job[t].old /\ Fault
  /\ job' = [job EXCEPT ![t].old = TRUE]
  /\ UNCHANGED <<memories, turns, worker, busy, changes>>

Set(t, status) == [job EXCEPT ![t].status = status, ![t].old = FALSE]
Stop(p) == worker' = [worker EXCEPT ![p] = Resting]

WriteDue(p) ==
  /\ worker[p].at = "expire" /\ Stop(p)
  /\ memories' = [memories EXCEPT ![worker[p].job].status = "expired"]
  /\ UNCHANGED <<job, turns, busy, changes, faults>>

\* recover
Recovered == [t \in 1..MaxTurns |->
  IF job[t].status = "running" /\ job[t].old THEN [job[t] EXCEPT !.status = "queued", !.old = FALSE] ELSE job[t]]
\* enqueueCompleted, for turns S that were completed two minutes ago.
Eligible == {t \in 1..turns : job[t].status = "none" /\ \E i \in Ids : memories[i].status = "active" /\ memories[i].source = t}
Enqueued(S) == [t \in 1..MaxTurns |-> IF t \in S THEN [NoJob EXCEPT !.status = "queued"] ELSE Recovered[t]]
\* next: the turn completed first.
Queued(j) == {t \in 1..MaxTurns : j[t].status = "queued"}
First(S) == CHOOSE t \in S : \A u \in S : t <= u

\* maintainMemoryWhenIdle, up to the claim.
Tick(p) ==
  /\ p \notin busy /\ worker[p].at = "idle"
  /\ \E S \in SUBSET Eligible :
       /\ job' = Enqueued(S)
       /\ IF Queued(Enqueued(S)) = {} THEN UNCHANGED worker
          ELSE worker' = [worker EXCEPT ![p].at = "claim", ![p].job = First(Queued(Enqueued(S)))]
  /\ UNCHANGED <<memories, turns, busy, changes, faults>>

\* processNext: the claim, and the memories that are still the turn's.
Candidates(t) == {i \in Ids : memories[i].status = "active" /\ memories[i].source = t}
Claim(p) ==
  LET t == worker[p].job
  IN  /\ worker[p].at = "claim"
      /\ IF job[t].status # "queued" THEN Stop(p) /\ UNCHANGED job
         ELSE IF Candidates(t) = {} THEN Stop(p) /\ job' = [Set(t, "done") EXCEPT ![t].attempts = @ + 1]
         ELSE /\ job' = [Set(t, "running") EXCEPT ![t].attempts = @ + 1]
              /\ worker' = [worker EXCEPT ![p].at = "search", ![p].match = [i \in Candidates(t) |-> 0]]
      /\ UNCHANGED <<memories, turns, busy, changes, faults>>

\* searchHybrid: what a candidate may be compared with. The model will name one of
\* the matches; "0" stands for none.
Matches(i) == {0} \cup {j \in Ids \ {i} :
  /\ memories[j].status = "active"
  /\ memories[j].scope = memories[i].scope \/ (memories[i].scope = "project" /\ memories[j].scope = "global")}
Search(p) ==
  /\ worker[p].at = "search"
  /\ \E f \in [DOMAIN worker[p].match -> Ids \cup {0}] :
       /\ \A i \in DOMAIN f : f[i] \in Matches(i)
       /\ IF \A i \in DOMAIN f : f[i] = 0 THEN Stop(p) /\ job' = Set(worker[p].job, "done")
          ELSE UNCHANGED job /\ worker' = [worker EXCEPT ![p].at = "ask", ![p].match = f]
  /\ UNCHANGED <<memories, turns, busy, changes, faults>>

Mutation(act, i, words) == [act |-> act, id |-> i, words |-> words, scope |-> memories[i].scope, stated |-> FALSE]
Mentions(plan, S) == \E n \in DOMAIN plan : plan[n].id \in S

\* Mutant: a duplicate expires whatever the batch does to the record it repeats.
DuplicateAlways(plan, c, m) == Append(plan, Mutation("forget", c, memories[c].words))

\* Two candidates repeating each other must not both expire.
Duplicate(plan, c, m) ==
  IF Mentions(plan, {c, m}) THEN plan ELSE Append(plan, Mutation("forget", c, memories[c].words))

\* The older of the two, unless the user wrote it.
Conflict(plan, c, m) ==
  LET older == IF memories[m].source = User THEN c ELSE IF m < c THEN m ELSE c
  IN  IF Mentions(plan, {older}) THEN plan ELSE Append(plan, Mutation("flag", older, memories[older].words))

\* The user's own wording is not rewritten.
Merge(plan, c, m, words) ==
  IF memories[m].source = User THEN plan
  ELSE plan \o <<Mutation("revise", m, words), Mutation("forget", c, memories[c].words)>>

\* A match in another scope allows only duplicate.
Decided(plan, d) ==
  CASE d.act = "duplicate" -> Duplicate(plan, d.c, d.m)
    [] d.act = "conflict" -> IF memories[d.m].scope = memories[d.c].scope THEN Conflict(plan, d.c, d.m) ELSE plan
    [] d.act = "merge" -> IF memories[d.m].scope = memories[d.c].scope THEN Merge(plan, d.c, d.m, d.words) ELSE plan

\* One decision at most for each candidate, in any order.
Decisions(match) ==
  LET some == {[act |-> a, c |-> c, m |-> match[c], words |-> memories[c].words] :
                 a \in {"duplicate", "conflict"}, c \in {i \in DOMAIN match : match[i] # 0}}
      merges == {[act |-> "merge", c |-> c, m |-> match[c], words |-> w] :
                 c \in {i \in DOMAIN match : match[i] # 0}, w \in Words}
  IN  {s \in SeqOf(some \cup merges, Cardinality(DOMAIN match)) :
         \A n, k \in DOMAIN s : n # k => s[n].c # s[k].c}

\* processNext, once the model has answered: up to the transaction nothing of this
\* process comes in between.
Planned(s) ==
  LET plan[n \in 0..Len(s)] == IF n = 0 THEN <<>> ELSE Decided(plan[n - 1], s[n])
  IN  plan[Len(s)]
Answer(p) ==
  /\ worker[p].at = "ask" /\ ~worker[p].aborted
  /\ \E s \in Decisions(worker[p].match) :
       worker' = [worker EXCEPT ![p].at = "commit", ![p].plan = Planned(s)]
  /\ UNCHANGED <<memories, job, turns, busy, changes, faults>>

\* The transaction: the whole batch, or none of it.
Failed(t) == [job EXCEPT ![t].status = IF job[t].attempts < 2 THEN "queued" ELSE "failed", ![t].old = FALSE]
Commit(p) ==
  LET t == worker[p].job
      plan == worker[p].plan
  IN  /\ worker[p].at = "commit" /\ HasRoom(plan)
      /\ Stop(p)
      /\ IF AllAccepted(memories, plan, t) THEN memories' = EachApplied(memories, plan, t) /\ job' = Set(t, "done")
         ELSE UNCHANGED memories /\ job' = Failed(t)
      /\ UNCHANGED <<turns, busy, changes, faults>>

\* The search or the request fails, or it has been interrupted.
Fail(p) ==
  LET t == worker[p].job
  IN  /\ worker[p].at \in {"search", "ask"}
      /\ Stop(p)
      /\ IF worker[p].aborted
         THEN /\ job' = [Set(t, "queued") EXCEPT ![t].attempts = IF @ = 0 THEN 0 ELSE @ - 1]
              /\ UNCHANGED faults
         ELSE Fault /\ job' = Failed(t)
      /\ UNCHANGED <<memories, turns, busy, changes>>

Crash(p) ==
  /\ p \in busy \/ worker[p].at # "idle"
  /\ Fault /\ Stop(p) /\ busy' = busy \ {p}
  /\ UNCHANGED <<memories, job, turns, changes>>

Next ==
  \/ \E p \in Processes :
       \/ BeginTurn(p) \/ (\E batch \in Batches : EndTurn(p, batch)) \/ FailTurn(p)
       \/ (\E i \in Ids : (\E w \in Words : EditByUser(p, i, w)) \/ ForgetByUser(p, i) \/ ReadDue(p, i))
       \/ WriteDue(p)
       \/ Tick(p) \/ Claim(p) \/ Search(p) \/ Answer(p) \/ Commit(p) \/ Fail(p) \/ Crash(p)
  \/ \E t \in 1..MaxTurns : GrowOld(t)

Spec == Init /\ [][Next]_vars

-----------------------------------------------------------------------------
(* Properties *)

\* A record that the user deleted says nothing again, and no other record says its
\* words in its scope, unless the user edits it or has stated the words in a turn:
\* not even when the deletion comes between the search of a consolidation and its
\* merge (rememberMemory, reviseMemory, changeMemory). A sweep of old records that
\* had read the record before it was deleted does undo the deletion.
DeletionHolds ==
  [][\A i \in Ids : memories[i].status = "forgotten" =>
       \/ memories'[i].status = "forgotten"
       \/ \E p \in Processes : WriteDue(p) \/ \E w \in Words : EditByUser(p, i, w)
       \/ \E p \in Processes, b \in Batches : EndTurn(p, b) /\ \E n \in DOMAIN b : b[n].stated]_vars

\* A consolidation leaves every statement in force: the record that a candidate
\* repeats, or what replaces it, directly or through other candidates, stands when
\* the candidate expires, unless somebody changed one of them since the search.
StatementsSurvive ==
  [][\A p \in Processes : Commit(p) =>
       LET match == worker[p].match
           Stands(i) == Here(memories', i) \/ (memories'[i].status = "superseded" /\ Here(memories, i))
           Followed(S) == \A i \in S \cap DOMAIN match : match[i] \in S \cup {0}
           Chain(c) == {i \in Ids : \A S \in SUBSET Ids : c \in S /\ Followed(S) => i \in S}
       IN  \A c \in DOMAIN match : (Here(memories, c) /\ ~Stands(c)) =>
             \E i \in Chain(c) : Stands(i) \/ ~Here(memories, i)]_vars
=============================================================================
