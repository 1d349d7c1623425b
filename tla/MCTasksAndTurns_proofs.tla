------------------------- MODULE MCTasksAndTurns_proofs -------------------------
(***************************************************************************)
(* Proofs for three of the components that MCTasksAndTurns runs side by    *)
(* side.  What is written of a component, in terms of the instance that    *)
(* names it, holds of the component; the theorems at the end say so of the *)
(* whole.                                                                  *)
(*                                                                         *)
(* Reports of children (Mailbox!): MailInv says how the conversation, in   *)
(* the journal and in memory, is made of reports and of collected          *)
(* children: each report once, the result of a child after its reports,    *)
(* and nothing unread of a child that is collected. What a call has found  *)
(* is still so when it is committed (AnswerInv), which is why the commit   *)
(* need not look again.                                                    *)
(*                                                                         *)
(* Turns (Turn!): SessionInv says that memory is what the journal replays  *)
(* to, wherever the process is (RememberedInv; a mode an approval has set  *)
(* and not saved is the exception), and what the turn, the plan under      *)
(* review and the plan being executed can be at each place of the code.    *)
(*                                                                         *)
(* Searches of the conversation (Index!): EvidenceInv says that an index   *)
(* made at the generation of the tables holds the embeddings there are,    *)
(* whether it is in the cache, being built or in use (IndexesInv), and that *)
(* what the checkpoint counts as indexed has its rows (RowsInv).           *)
(***************************************************************************)
EXTENDS MCTasksAndTurns, FiniteSetTheorems, SequenceTheorems, WellFoundedInduction, TLAPS

-----------------------------------------------------------------------------
(* The reports of child agents                                             *)

MailboxConstants == Nobody \notin Agents /\ ReportLimit \in Nat

MailEntry == [report : Nat, from : Agents \cup {Nobody}]
MailTyped ==
  /\ posted \in Seq(Agents) /\ child \in [Agents -> {"running", "terminal", "collected"}]
  /\ parent \in {"idle", "boundary", "request", "waiting", "result", "collecting", "collected", "answered"}
  /\ asked \in SUBSET Agents /\ answer \in MailEntry /\ missed \in SUBSET Nat

\* The reports in a conversation.
ReportsIn(log) == {log[i].report : i \in DOMAIN log} \ {0}

\* A conversation has each report once and the result of a collected child after its reports.
LogOK(log, by, state) ==
  /\ log \in Seq(MailEntry)
  /\ \A i \in DOMAIN log :
       IF log[i].report = 0 THEN log[i].from \in Agents /\ state[log[i].from] = "collected"
       ELSE log[i].report \in DOMAIN by /\ log[i].from = by[log[i].report]
  /\ \A i, j \in DOMAIN log :
       /\ log[i].report # 0 /\ log[i].report = log[j].report => i = j
       /\ log[i].report # 0 /\ log[j].report = 0 /\ log[i].from = log[j].from => i < j
LogInv(log) == LogOK(log, posted, child)

\* Memory has what is read, but for what was written before a delivery failed.
HeardInv == missed \subseteq Mailbox!Read /\ ReportsIn(heard) = Mailbox!Read \ missed

\* A collected child has nothing to be read, and an answer stands when all are collected.
CollectedInv ==
  /\ \A c \in Agents : child[c] = "collected" => Mailbox!Pending({c}) = {}
  /\ parent = "answered" => \A c \in Agents : child[c] = "collected"

\* What a call has found is still so when it is committed.
AnswerInv ==
  parent = "result" =>
    \/ answer = Mailbox!Nothing
    \/ answer.report \in DOMAIN posted \ Mailbox!Read /\ answer.from = posted[answer.report]
    \/ /\ answer.report = 0 /\ answer.from \in Agents
       /\ child[answer.from] = "terminal" /\ Mailbox!Pending({answer.from}) = {}

MailInv == MailTyped /\ LogInv(recorded) /\ LogInv(heard) /\ HeardInv /\ CollectedInv /\ AnswerInv

-----------------------------------------------------------------------------
(* Operators *)

\* The instance has operators of the libraries under names of its own.
LEMMA SameOperators ==
  /\ \A S : Mailbox!Cardinality(S) = Cardinality(S)
  /\ \A S : Mailbox!Min(S) = Min(S)
  /\ \A S : Index!Cardinality(S) = Cardinality(S)
BY DEF Mailbox!Cardinality, Index!Cardinality, Cardinality, Mailbox!Min, Min

LEMMA MailWellformed ==
  ASSUME MailInv
  PROVE  /\ posted \in Seq(Agents) /\ DOMAIN posted \subseteq Nat \ {0}
         /\ \A n \in DOMAIN posted : posted[n] \in Agents /\ Mailbox!Report(n) \in MailEntry
         /\ \A c \in Agents : Mailbox!Result(c) \in MailEntry
         /\ Mailbox!Nothing \in MailEntry
         /\ Mailbox!Read = ReportsIn(recorded)
         /\ \A S : Mailbox!Pending(S) \subseteq DOMAIN posted
BY DEF MailInv, MailTyped, Mailbox!Report, Mailbox!Result, Mailbox!Nothing, Mailbox!Read, ReportsIn, Mailbox!Pending,
  MailEntry

LEMMA PendingFinite ==
  ASSUME MailInv, NEW S
  PROVE  IsFiniteSet(Mailbox!Pending(S))
<1>1. Len(posted) \in Nat /\ DOMAIN posted = 1..Len(posted)
  BY MailWellformed
<1>2. IsFiniteSet(1..Len(posted))
  BY <1>1, FS_Interval
<1>3. QED
  BY <1>1, <1>2, MailWellformed, FS_Subset

\* The i-th of a finite set of numbers is one of them.
LEMMA NthIsOne ==
  ASSUME NEW S \in SUBSET Nat, IsFiniteSet(S), NEW i \in 1..Cardinality(S)
  PROVE  Mailbox!Nth(S, i) \in S /\ Cardinality({m \in S : m < Mailbox!Nth(S, i)}) = i - 1
<1> DEFINE N == Cardinality(S)
           Under(n) == {m \in S : m < n}
           rank == [n \in S |-> Cardinality(Under(n))]
<1>1. N \in Nat
  BY FS_CardinalityType
<1>2. ASSUME NEW n \in S
      PROVE  /\ IsFiniteSet(Under(n)) /\ Cardinality(Under(n)) \in 0..(N - 1)
  <2>1. Under(n) \in SUBSET S /\ n \notin Under(n)
    OBVIOUS
  <2>2. IsFiniteSet(Under(n)) /\ Cardinality(Under(n)) <= N /\ Cardinality(Under(n)) # N
    BY <2>1, FS_Subset
  <2>3. Cardinality(Under(n)) \in Nat
    BY <2>2, FS_CardinalityType
  <2>4. QED
    BY <1>1, <2>2, <2>3
<1>3. ASSUME NEW n \in S, NEW k \in S, n < k
      PROVE  Cardinality(Under(n)) # Cardinality(Under(k))
  <2>1. ASSUME NEW m \in S, m < n
        PROVE  m < k
    <3>1. m \in Nat /\ n \in Nat /\ k \in Nat
      OBVIOUS
    <3>2. QED
      BY <1>3, <2>1, <3>1
  <2>4. n \notin Under(n) /\ n \in Under(k)
    BY <1>3
  <2>2. Under(n) \in SUBSET Under(k) /\ n \in Under(k) /\ n \notin Under(n)
    BY <2>1, <2>4
  <2>3. QED
    BY <1>2, <2>2, FS_Subset
<1>4. rank \in Injection(S, 0..(N - 1))
  <2>1. rank \in [S -> 0..(N - 1)]
    BY <1>2
  <2>2. ASSUME NEW n \in S, NEW k \in S, rank[n] = rank[k]
        PROVE  n = k
    BY <1>3, <2>2
  <2>3. QED
    BY <2>1, <2>2 DEF Injection, IsInjective
<1>5. IsFiniteSet(0..(N - 1)) /\ Cardinality(0..(N - 1)) = N
  <2>1. N - 1 \in Int /\ 0 \in Int
    BY <1>1
  <2>2. IsFiniteSet(0..(N - 1)) /\ Cardinality(0..(N - 1)) = IF 0 > N - 1 THEN 0 ELSE (N - 1) - 0 + 1
    BY <2>1, FS_Interval
  <2>3. QED
    BY <1>1, <2>2
<1>6. rank \in Surjection(S, 0..(N - 1))
  BY <1>4, <1>5, FS_Injection
<1>7. i - 1 \in 0..(N - 1)
  BY <1>1
<1>8. \E n \in S : rank[n] = i - 1
  BY <1>6, <1>7 DEF Surjection
<1>9. \E n \in S : Cardinality(Under(n)) = i - 1
  BY <1>8
<1>10. QED
  BY <1>9, SameOperators DEF Mailbox!Nth

\* A delivery has reports not read, each once.
LEMMA DeliveredReports ==
  ASSUME MailboxConstants, MailInv
  PROVE  /\ Mailbox!Delivered \in Seq(MailEntry)
         /\ \A i \in DOMAIN Mailbox!Delivered : /\ Mailbox!Delivered[i].report \in DOMAIN posted \ Mailbox!Read
                                                /\ Mailbox!Delivered[i].from = posted[Mailbox!Delivered[i].report]
         /\ \A i, j \in DOMAIN Mailbox!Delivered : Mailbox!Delivered[i].report = Mailbox!Delivered[j].report => i = j
<1> DEFINE S == Mailbox!Pending(Agents)
           size == IF Cardinality(S) < ReportLimit THEN Cardinality(S) ELSE ReportLimit
<1>1. S \in SUBSET Nat /\ IsFiniteSet(S) /\ S \subseteq DOMAIN posted /\ S \cap Mailbox!Read = {}
  BY MailWellformed, PendingFinite DEF Mailbox!Pending
<1>2. size \in Nat /\ size <= Cardinality(S)
  BY <1>1, FS_CardinalityType DEF MailboxConstants
<1>3. \A i \in 1..size : i \in 1..Cardinality(S)
  BY <1>1, <1>2, FS_CardinalityType
<1>4. \A i \in 1..size : Mailbox!Nth(S, i) \in S /\ Cardinality({m \in S : m < Mailbox!Nth(S, i)}) = i - 1
  BY <1>1, <1>3, NthIsOne
<1>5. Mailbox!Delivered = [i \in 1..size |-> Mailbox!Report(Mailbox!Nth(S, i))]
  BY SameOperators DEF Mailbox!Delivered
<1> HIDE DEF size, S
<1>6. DOMAIN Mailbox!Delivered = 1..size /\ \A i \in 1..size : Mailbox!Delivered[i] = Mailbox!Report(Mailbox!Nth(S, i))
  BY <1>5
<1>7. \A i \in 1..size : Mailbox!Delivered[i] \in MailEntry
  BY <1>1, <1>4, <1>6, MailWellformed
<1>8. Mailbox!Delivered \in Seq(MailEntry)
  BY <1>2, <1>5, <1>6, <1>7
<1>9. \A i \in 1..size : Mailbox!Delivered[i].report = Mailbox!Nth(S, i) /\ Mailbox!Delivered[i].from
          = posted[Mailbox!Nth(S, i)]
  BY <1>6 DEF Mailbox!Report
<1>10. ASSUME NEW i \in 1..size, NEW j \in 1..size, Mailbox!Delivered[i].report = Mailbox!Delivered[j].report
       PROVE  i = j
  <2>1. Mailbox!Nth(S, i) = Mailbox!Nth(S, j)
    BY <1>9, <1>10
  <2>2. i - 1 = j - 1
    BY <1>4, <2>1
  <2>3. i \in Int /\ j \in Int
    BY <1>2
  <2>4. QED
    BY <2>2, <2>3
<1>11. \A i \in 1..size : Mailbox!Nth(S, i) \in DOMAIN posted \ Mailbox!Read
  BY <1>1, <1>4
<1>12. QED
  BY <1>6, <1>8, <1>9, <1>10, <1>11

\* The least element of a nonempty set of numbers.
LEMMA MinOfSome ==
  ASSUME NEW S, S \subseteq Nat, S # {}
  PROVE  /\ Min(S) \in S
         /\ \A y \in S : Min(S) <= y
<1> DEFINE Below(x) == {y \in S : y <= x}
           Belows == {Below(x) : x \in S}
<1>1. Belows # {} /\ Belows \subseteq FiniteSubsetsOf(S)
  <2>1. ASSUME NEW x \in S
        PROVE  IsFiniteSet(Below(x))
    <3>1. Below(x) \in SUBSET Nat /\ x \in Nat /\ \A y \in Below(x) : y <= x
      OBVIOUS
    <3>2. QED
      BY <3>1, FS_BoundedSetOfNaturals
  <2>2. QED
    BY <2>1 DEF FiniteSubsetsOf
<1>2. PICK U \in Belows : \A V \in Belows : ~(<<V, U>> \in StrictSubsetOrdering(S))
  BY <1>1, FS_StrictSubsetOrderingWellFounded, WFMin
<1>3. PICK x \in S : U = Below(x)
  OBVIOUS
<1>4. ASSUME NEW y \in S, y < x
      PROVE  FALSE
  <2>1. x \in Nat /\ y \in Nat /\ S \subseteq Nat
    OBVIOUS
  <2>2. \A z \in Below(y) : z \in U
    <3> SUFFICES ASSUME NEW z \in S, z <= y PROVE z <= x
      BY <1>3
    <3>1. z \in Nat
      BY <2>1
    <3>2. QED
      BY <1>4, <2>1, <3>1
  <2>3. x \in U /\ x \notin Below(y)
    BY <1>3, <1>4, <2>1
  <2>4. <<Below(y), U>> \in StrictSubsetOrdering(S)
    BY <1>3, <2>2, <2>3 DEF StrictSubsetOrdering
  <2>5. QED
    BY <1>2, <2>4
<1>5. \A y \in S : x <= y
  BY <1>4
<1>6. QED
  BY <1>5 DEF Min

\* What is least of the reports pending is one of them.
LEMMA FoundTyped ==
  ASSUME MailboxConstants, MailInv, NEW S \in SUBSET Agents, NEW a \in Mailbox!Found(S)
  PROVE  /\ a \in MailEntry
         /\ \/ a = Mailbox!Nothing
            \/ a.report \in DOMAIN posted \ Mailbox!Read /\ a.from = posted[a.report]
            \/ /\ a.report = 0 /\ a.from \in Agents
               /\ child[a.from] = "terminal" /\ Mailbox!Pending({a.from}) = {}
         /\ \A c \in Agents : S = {c} /\ a = Mailbox!Result(c) => Mailbox!Pending({c}) = {}
<1>1. CASE Mailbox!Pending(S) # {}
  <2>1. Min(Mailbox!Pending(S)) \in Mailbox!Pending(S)
    BY <1>1, MailWellformed, MinOfSome
  <2>2. a = Mailbox!Report(Min(Mailbox!Pending(S)))
    BY <1>1, SameOperators DEF Mailbox!Found
  <2>3. Min(Mailbox!Pending(S)) \in DOMAIN posted \ Mailbox!Read /\ Min(Mailbox!Pending(S)) # 0
    BY <2>1, MailWellformed DEF Mailbox!Pending
  <2>4. a \in MailEntry /\ a.report = Min(Mailbox!Pending(S)) /\ a.from = posted[a.report]
    BY <2>2, <2>3, MailWellformed DEF Mailbox!Report
  <2>5. QED
    BY <2>3, <2>4 DEF Mailbox!Result
<1>2. CASE Mailbox!Pending(S) = {} /\ {c \in S : child[c] = "terminal"} # {}
  <2>1. PICK c \in S : child[c] = "terminal" /\ a = Mailbox!Result(c)
    BY <1>2 DEF Mailbox!Found
  <2>2. Mailbox!Pending({c}) = {}
    BY <1>2 DEF Mailbox!Pending
  <2>3. a \in MailEntry /\ a.report = 0 /\ a.from = c
    BY <2>1, MailWellformed DEF Mailbox!Result
  <2>4. QED
    BY <1>2, <2>1, <2>2, <2>3
<1>3. CASE Mailbox!Pending(S) = {} /\ {c \in S : child[c] = "terminal"} = {}
  BY <1>3, MailWellformed DEF Mailbox!Found
<1>4. QED
  BY <1>1, <1>2, <1>3

-----------------------------------------------------------------------------
(* What is added to a conversation *)

\* A conversation is as good when reports are posted and children are collected elsewhere.
LEMMA LogStays ==
  ASSUME NEW log, LogInv(log),
         posted \in Seq(Agents), posted' \in Seq(Agents), DOMAIN posted \subseteq DOMAIN posted',
         \A n \in DOMAIN posted : posted'[n] = posted[n],
         \A c \in Agents : child[c] = "collected" => child'[c] = "collected"
  PROVE  /\ \A i \in DOMAIN log :
              IF log[i].report = 0 THEN log[i].from \in Agents /\ child'[log[i].from] = "collected"
              ELSE log[i].report \in DOMAIN posted' /\ log[i].from = posted'[log[i].report]
BY DEF LogInv, LogOK

LEMMA AddReports ==
  ASSUME MailInv, NEW log, LogInv(log), NEW d \in Seq(MailEntry),
         \A i \in DOMAIN d : /\ d[i].report \in DOMAIN posted \ ReportsIn(log) /\ d[i].from = posted[d[i].report]
                             /\ child[d[i].from] # "collected",
         \A i, j \in DOMAIN d : d[i].report = d[j].report => i = j
  PROVE  LogInv(log \o d) /\ ReportsIn(log \o d) = ReportsIn(log) \cup ReportsIn(d)
<1> DEFINE new == log \o d
           n == Len(log)
<1>1. /\ new \in Seq(MailEntry) /\ n \in Nat /\ Len(d) \in Nat /\ DOMAIN log = 1..n /\ DOMAIN d = 1..Len(d)
      /\ DOMAIN new = 1..(n + Len(d))
      /\ \A i \in 1..(n + Len(d)) : new[i] = IF i <= n THEN log[i] ELSE d[i - n]
  BY ConcatProperties DEF LogInv, LogOK
<1>2. \A i \in DOMAIN new : \/ i \in DOMAIN log /\ new[i] = log[i] /\ i <= n
                            \/ i - n \in DOMAIN d /\ new[i] = d[i - n] /\ i > n
  BY <1>1
<1>3. \A i \in DOMAIN d : d[i].report # 0 /\ \A j \in DOMAIN log : d[i].report # log[j].report
  BY MailWellformed DEF ReportsIn
<1>4. \A i \in DOMAIN d, j \in DOMAIN log : log[j].report = 0 => log[j].from # d[i].from
  BY DEF LogInv, LogOK
<1>5. \A i \in DOMAIN log : i \in DOMAIN new /\ new[i] = log[i]
  BY <1>1
<1>6. \A i \in DOMAIN d : i + n \in DOMAIN new /\ new[i + n] = d[i]
  BY <1>1
<1> HIDE DEF new, n
<1>7. \A i \in DOMAIN new :
        IF new[i].report = 0 THEN new[i].from \in Agents /\ child[new[i].from] = "collected"
        ELSE new[i].report \in DOMAIN posted /\ new[i].from = posted[new[i].report]
  BY <1>2, <1>3 DEF LogInv, LogOK
<1>8. ASSUME NEW i \in DOMAIN new, NEW j \in DOMAIN new
      PROVE  /\ new[i].report # 0 /\ new[i].report = new[j].report => i = j
             /\ new[i].report # 0 /\ new[j].report = 0 /\ new[i].from = new[j].from => i < j
  <2>1. CASE i \in DOMAIN log /\ new[i] = log[i] /\ j \in DOMAIN log /\ new[j] = log[j]
    BY <2>1 DEF LogInv, LogOK
  <2>2. CASE i \in DOMAIN log /\ new[i] = log[i] /\ j - n \in DOMAIN d /\ new[j] = d[j - n]
    BY <2>2, <1>3
  <2>3. CASE i - n \in DOMAIN d /\ new[i] = d[i - n] /\ j \in DOMAIN log /\ new[j] = log[j]
    BY <2>3, <1>3, <1>4
  <2>4. CASE i - n \in DOMAIN d /\ new[i] = d[i - n] /\ j - n \in DOMAIN d /\ new[j] = d[j - n]
    <3>1. new[i].report = new[j].report => i - n = j - n
      BY <2>4
    <3>2. i \in Int /\ j \in Int /\ n \in Int
      BY <1>1
    <3>3. QED
      BY <1>3, <2>4, <3>1, <3>2
  <2>5. QED
    BY <1>2, <2>1, <2>2, <2>3, <2>4
<1>9. ReportsIn(new) = ReportsIn(log) \cup ReportsIn(d)
  BY <1>2, <1>5, <1>6 DEF ReportsIn
<1>10. QED
  BY <1>1, <1>7, <1>8, <1>9 DEF LogInv, LogOK, new

LEMMA AddReport ==
  ASSUME MailInv, NEW log, LogInv(log), NEW e \in MailEntry,
         e.report \in DOMAIN posted \ ReportsIn(log), e.from = posted[e.report], child[e.from] # "collected"
  PROVE  LogInv(Append(log, e)) /\ ReportsIn(Append(log, e)) = ReportsIn(log) \cup {e.report}
<1> DEFINE d == <<e>>
<1>1. d \in Seq(MailEntry) /\ DOMAIN d = {1} /\ d[1] = e
  OBVIOUS
<1>2. Append(log, e) = log \o d
  BY <1>1, AppendIsConcat DEF LogInv, LogOK
<1>3. ReportsIn(d) = {e.report} \ {0} /\ e.report # 0
  BY <1>1, MailWellformed DEF ReportsIn
<1> HIDE DEF d
<1>4. QED
  BY <1>1, <1>2, <1>3, AddReports

\* The result of a child comes after all its reports.
LEMMA AddResult ==
  ASSUME MailInv, NEW log, LogInv(log), NEW c \in Agents, child' = [child EXCEPT ![c] = "collected"],
         child[c] # "collected", UNCHANGED posted, NEW new, new = Append(log, Mailbox!Result(c))
  PROVE  LogOK(new, posted', child') /\ ReportsIn(new) = ReportsIn(log)
<1> DEFINE n == Len(log)
<1>1. /\ new \in Seq(MailEntry) /\ n \in Nat /\ DOMAIN log = 1..n /\ DOMAIN new = 1..(n + 1)
      /\ \A i \in 1..n : new[i] = log[i]
      /\ new[n + 1] = Mailbox!Result(c)
  BY MailWellformed, AppendProperties DEF LogInv, LogOK
<1>2. Mailbox!Result(c).report = 0 /\ Mailbox!Result(c).from = c
  BY DEF Mailbox!Result
<1>3. \A i \in DOMAIN new : \/ i \in DOMAIN log /\ new[i] = log[i] /\ i < n + 1
                            \/ i = n + 1 /\ new[i] = Mailbox!Result(c)
  BY <1>1
<1>4. \A i \in DOMAIN log : i \in DOMAIN new /\ new[i] = log[i]
  BY <1>1
<1>5. child'[c] = "collected" /\ \A z \in Agents : child[z] = "collected" => child'[z] = "collected"
  BY DEF MailInv, MailTyped
<1> HIDE DEF n
<1>6. \A i \in DOMAIN new :
        IF new[i].report = 0 THEN new[i].from \in Agents /\ child'[new[i].from] = "collected"
        ELSE new[i].report \in DOMAIN posted' /\ new[i].from = posted'[new[i].report]
  BY <1>2, <1>3, <1>5 DEF LogInv, LogOK
<1>7. \A i, j \in DOMAIN new :
        /\ new[i].report # 0 /\ new[i].report = new[j].report => i = j
        /\ new[i].report # 0 /\ new[j].report = 0 /\ new[i].from = new[j].from => i < j
  BY <1>2, <1>3 DEF LogInv, LogOK
<1>8. ReportsIn(new) = ReportsIn(log)
  BY <1>2, <1>3, <1>4 DEF ReportsIn
<1>9. QED
  BY <1>1, <1>6, <1>7, <1>8 DEF LogOK

-----------------------------------------------------------------------------
(* Every step *)

LEMMA InitMail ==
  ASSUME MailboxConstants, Mailbox!Init
  PROVE  MailInv
<1>1. MailTyped
  BY DEF Mailbox!Init, MailTyped, Mailbox!Nothing, MailEntry
<1>2. LogInv(recorded) /\ LogInv(heard) /\ ReportsIn(heard) = {} /\ missed = {}
  BY DEF Mailbox!Init, LogInv, LogOK, ReportsIn
<1>3. HeardInv
  BY <1>2 DEF Mailbox!Init, HeardInv, Mailbox!Read, ReportsIn
<1>4. CollectedInv /\ AnswerInv
  BY DEF Mailbox!Init, CollectedInv, AnswerInv
<1>5. QED
  BY <1>1, <1>2, <1>3, <1>4 DEF MailInv

\* A step of the parent that writes nothing and posts nothing.
LEMMA ParentStep ==
  ASSUME MailboxConstants, MailInv, UNCHANGED <<posted, recorded, heard, child, missed>>,
         parent' \in {"idle", "boundary", "request", "waiting", "result", "collecting", "collected", "answered"},
         asked' \in SUBSET Agents, answer' \in MailEntry,
         parent' = "answered" => \A c \in Agents : child[c] = "collected",
         parent' = "result" =>
           \/ answer' = Mailbox!Nothing
           \/ answer'.report \in DOMAIN posted \ Mailbox!Read /\ answer'.from = posted[answer'.report]
           \/ /\ answer'.report = 0 /\ answer'.from \in Agents
              /\ child[answer'.from] = "terminal" /\ Mailbox!Pending({answer'.from}) = {}
  PROVE  MailInv'
<1>1. MailTyped'
  BY DEF MailInv, MailTyped
<1>2. LogInv(recorded)' /\ LogInv(heard)' /\ HeardInv'
  <2>1. LogInv(recorded)'
    BY DEF MailInv, LogInv, LogOK
  <2>2. LogInv(heard)'
    BY DEF MailInv, LogInv, LogOK
  <2>3. HeardInv'
    <3>1. Mailbox!Read' = Mailbox!Read /\ ReportsIn(heard)' = ReportsIn(heard) /\ missed' = missed
      BY DEF Mailbox!Read, ReportsIn
    <3>2. QED
      BY <3>1 DEF MailInv, HeardInv
  <2>4. QED
    BY <2>1, <2>2, <2>3
<1>3. \A S : Mailbox!Pending(S)' = Mailbox!Pending(S)
  BY DEF Mailbox!Pending, Mailbox!Read
<1>4. Mailbox!Read' = Mailbox!Read /\ Mailbox!Nothing' = Mailbox!Nothing
  BY DEF Mailbox!Read, Mailbox!Nothing
<1>5. CollectedInv'
  BY <1>3 DEF MailInv, CollectedInv
<1>6. AnswerInv'
  BY <1>4 DEF AnswerInv, Mailbox!Pending
<1>7. QED
  BY <1>1, <1>2, <1>5, <1>6 DEF MailInv

LEMMA QuietSteps ==
  ASSUME MailboxConstants, MailInv, Mailbox!Start \/ Mailbox!FailResult \/ Mailbox!Text \/ Mailbox!Gate
  PROVE  MailInv'
<1>1. UNCHANGED <<posted, recorded, heard, child, missed>>
  BY DEF Mailbox!Start, Mailbox!FailResult, Mailbox!Text, Mailbox!Gate, Mailbox!Keep
<1>2. \E p \in {"boundary", "idle", "collecting", "answered"} : Mailbox!Goto(p)
  BY DEF Mailbox!Start, Mailbox!FailResult, Mailbox!Text, Mailbox!Gate
<1>3. parent' \in {"boundary", "idle", "collecting", "answered"} /\ asked' = {} /\ answer' \in MailEntry
  BY <1>2, MailWellformed DEF Mailbox!Goto
<1>4. parent' = "answered" => \A c \in Agents : child[c] = "collected"
  BY DEF Mailbox!Start, Mailbox!FailResult, Mailbox!Text, Mailbox!Gate, Mailbox!Goto
<1>5. QED
  BY <1>1, <1>3, <1>4, ParentStep

LEMMA LookSteps ==
  ASSUME MailboxConstants, MailInv, Mailbox!Wake \/ \E children \in SUBSET Agents : Mailbox!Observe(children)
  PROVE  MailInv'
<1>1. UNCHANGED <<posted, recorded, heard, child, missed>>
  BY DEF Mailbox!Wake, Mailbox!Observe, Mailbox!Keep
<1>2. CASE \E children \in SUBSET Agents : parent' = "result" /\ answer' \in Mailbox!Found(children) /\ asked' = {}
  <2>1. PICK children \in SUBSET Agents : parent' = "result" /\ answer' \in Mailbox!Found(children) /\ asked' = {}
    BY <1>2
  <2>2. QED
    BY <1>1, <2>1, FoundTyped, ParentStep
<1>3. CASE \E children \in SUBSET Agents : parent' = "waiting" /\ asked' = children /\ UNCHANGED answer
  BY <1>1, <1>3, ParentStep DEF MailInv, MailTyped
<1>4. QED
  BY <1>2, <1>3 DEF Mailbox!Wake, Mailbox!Observe, MailInv, MailTyped

LEMMA PostStep ==
  ASSUME MailboxConstants, MailInv, NEW c \in Agents, Mailbox!Post(c)
  PROVE  MailInv'
<1> DEFINE n == Len(posted) + 1
<1>1. /\ posted' \in Seq(Agents) /\ DOMAIN posted' = DOMAIN posted \cup {n} /\ n \notin DOMAIN posted
      /\ \A i \in DOMAIN posted : posted'[i] = posted[i]
      /\ posted'[n] = c /\ n \in Nat
  BY AppendProperties, MailWellformed DEF Mailbox!Post
<1>2. UNCHANGED <<recorded, heard, child, parent, asked, answer, missed>> /\ child[c] = "running"
  BY DEF Mailbox!Post
<1>3. Mailbox!Read' = Mailbox!Read /\ Mailbox!Nothing' = Mailbox!Nothing
  BY <1>2 DEF Mailbox!Read, Mailbox!Nothing
<1> HIDE DEF n
<1>4. MailTyped'
  BY <1>1, <1>2 DEF MailInv, MailTyped
<1>5. LogInv(recorded)'
  <2>1. LogInv(recorded)
    BY DEF MailInv
  <2>2. QED
    BY <1>1, <1>2, <2>1, LogStays, MailWellformed DEF LogInv, LogOK
<1>6. LogInv(heard)'
  <2>1. LogInv(heard)
    BY DEF MailInv
  <2>2. QED
    BY <1>1, <1>2, <2>1, LogStays, MailWellformed DEF LogInv, LogOK
<1>7. HeardInv'
  BY <1>2, <1>3 DEF MailInv, HeardInv, ReportsIn
<1>8. \A S : c \notin S => Mailbox!Pending(S)' = Mailbox!Pending(S)
  BY <1>1, <1>3 DEF Mailbox!Pending
<1>9. CollectedInv'
  <2>1. \A d \in Agents : child[d] = "collected" => Mailbox!Pending({d})' = Mailbox!Pending({d})
    BY <1>2, <1>8
  <2>2. QED
    BY <1>2, <2>1 DEF MailInv, CollectedInv
<1>10. AnswerInv'
  <2>1. \A d \in Agents : child[d] = "terminal" => Mailbox!Pending({d})' = Mailbox!Pending({d})
    BY <1>2, <1>8
  <2>2. SUFFICES ASSUME parent = "result"
                 PROVE  \/ answer = Mailbox!Nothing
                        \/ answer.report \in DOMAIN posted' \ Mailbox!Read /\ answer.from = posted'[answer.report]
                        \/ /\ answer.report = 0 /\ answer.from \in Agents
                           /\ child[answer.from] = "terminal" /\ Mailbox!Pending({answer.from})' = {}
    BY <1>2, <1>3 DEF AnswerInv, Mailbox!Pending
  <2>3. CASE answer = Mailbox!Nothing
    BY <2>3
  <2>4. CASE answer.report \in DOMAIN posted \ Mailbox!Read /\ answer.from = posted[answer.report]
    BY <1>1, <2>4
  <2>5. CASE /\ answer.report = 0 /\ answer.from \in Agents
             /\ child[answer.from] = "terminal" /\ Mailbox!Pending({answer.from}) = {}
    <3>1. PICK d \in Agents : d = answer.from
      BY <2>5
    <3>2. Mailbox!Pending({d})' = {} /\ answer' = answer
      BY <1>2, <2>1, <2>5, <3>1
    <3>3. Mailbox!Pending({answer.from})' = Mailbox!Pending({d})'
      BY <3>1, <3>2 DEF Mailbox!Pending
    <3>4. QED
      BY <2>5, <3>2, <3>3
  <2>6. QED
    BY <2>2, <2>3, <2>4, <2>5 DEF MailInv, AnswerInv
<1>11. QED
  BY <1>4, <1>5, <1>6, <1>7, <1>9, <1>10 DEF MailInv

LEMMA SettleStep ==
  ASSUME MailboxConstants, MailInv, NEW c \in Agents, Mailbox!Settle(c)
  PROVE  MailInv'
<1>1. /\ UNCHANGED <<posted, recorded, heard, parent, asked, answer, missed>>
      /\ child' = [child EXCEPT ![c] = "terminal"] /\ child[c] = "running"
  BY DEF Mailbox!Settle
<1>2. /\ child' \in [Agents -> {"running", "terminal", "collected"}]
      /\ \A d \in Agents : (child'[d] = "collected" <=> child[d] = "collected")
           /\ (child[d] = "terminal" => child'[d] = "terminal")
  BY <1>1 DEF MailInv, MailTyped
<1>3. Mailbox!Read' = Mailbox!Read /\ Mailbox!Nothing' = Mailbox!Nothing /\ \A S : Mailbox!Pending(S)'
          = Mailbox!Pending(S)
  BY <1>1 DEF Mailbox!Read, Mailbox!Nothing, Mailbox!Pending
<1>4. MailTyped'
  BY <1>1, <1>2 DEF MailInv, MailTyped
<1>5. LogInv(recorded)' /\ LogInv(heard)'
  BY <1>1, <1>2 DEF MailInv, LogInv, LogOK
<1>6. HeardInv'
  BY <1>1, <1>3 DEF MailInv, HeardInv, ReportsIn
<1>7. CollectedInv'
  BY <1>1, <1>2, <1>3 DEF MailInv, CollectedInv
<1>8. AnswerInv'
  <2>1. Mailbox!Pending({answer.from})' = Mailbox!Pending({answer.from})
    BY <1>1, <1>3 DEF Mailbox!Pending
  <2>2. QED
    BY <1>1, <1>2, <1>3, <2>1 DEF MailInv, AnswerInv
<1>9. QED
  BY <1>4, <1>5, <1>6, <1>7, <1>8 DEF MailInv

LEMMA MailCrashStep ==
  ASSUME MailboxConstants, MailInv, Mailbox!Crash
  PROVE  MailInv'
<1>1. /\ UNCHANGED <<posted, recorded>> /\ heard' = recorded /\ missed' = {} /\ parent' = "idle" /\ asked' = {}
      /\ answer' = Mailbox!Nothing
      /\ child' = [c \in Agents |-> IF child[c] = "running" THEN "terminal" ELSE child[c]]
  BY DEF Mailbox!Crash, Mailbox!Goto
<1>2. /\ child' \in [Agents -> {"running", "terminal", "collected"}]
      /\ \A d \in Agents : child'[d] = "collected" <=> child[d] = "collected"
  BY <1>1 DEF MailInv, MailTyped
<1>3. Mailbox!Read' = Mailbox!Read /\ \A S : Mailbox!Pending(S)' = Mailbox!Pending(S)
  BY <1>1 DEF Mailbox!Read, Mailbox!Pending
<1>4. MailTyped'
  BY <1>1, <1>2, MailWellformed DEF MailInv, MailTyped
<1>5. LogInv(recorded)' /\ LogInv(heard)'
  BY <1>1, <1>2 DEF MailInv, LogInv, LogOK
<1>6. HeardInv'
  BY <1>1, <1>3, MailWellformed DEF HeardInv, ReportsIn
<1>7. CollectedInv' /\ AnswerInv'
  BY <1>1, <1>2, <1>3 DEF MailInv, CollectedInv, AnswerInv
<1>8. QED
  BY <1>4, <1>5, <1>6, <1>7 DEF MailInv

\* What is left to be read after reports have been written.
LEMMA ReadMore ==
  ASSUME MailInv, UNCHANGED <<posted, child>>, NEW R \in SUBSET DOMAIN posted, Mailbox!Read' = Mailbox!Read \cup R
  PROVE  /\ \A S : Mailbox!Pending(S)' = Mailbox!Pending(S) \ R
         /\ \A c \in Agents : child'[c] = "collected" => Mailbox!Pending({c})' = {}
<1>1. \A S : Mailbox!Pending(S)' = Mailbox!Pending(S) \ R
  BY DEF Mailbox!Pending
<1>2. QED
  BY <1>1 DEF MailInv, CollectedInv

LEMMA DeliverStep ==
  ASSUME MailboxConstants, MailInv, Mailbox!Deliver
  PROVE  MailInv'
<1> DEFINE d == Mailbox!Delivered
<1>1. /\ recorded' = recorded \o d /\ heard' = heard \o d /\ parent' = "request" /\ asked' = {}
      /\ answer' = Mailbox!Nothing
      /\ UNCHANGED <<posted, child, missed>>
  BY DEF Mailbox!Deliver, Mailbox!Goto, Mailbox!Keep
<1>2. /\ d \in Seq(MailEntry)
      /\ \A i \in DOMAIN d : d[i].report \in DOMAIN posted \ Mailbox!Read /\ d[i].from = posted[d[i].report]
      /\ \A i, j \in DOMAIN d : d[i].report = d[j].report => i = j
  BY DeliveredReports
<1> HIDE DEF d
<1>3. \A i \in DOMAIN d : child[d[i].from] # "collected"
  <2> SUFFICES ASSUME NEW i \in DOMAIN d PROVE child[d[i].from] # "collected"
    OBVIOUS
  <2>1. d[i].report \in Mailbox!Pending({d[i].from}) /\ d[i].from \in Agents
    BY <1>2, MailWellformed DEF Mailbox!Pending
  <2>2. QED
    BY <2>1 DEF MailInv, CollectedInv
<1>4. LogInv(recorded) /\ LogInv(heard) /\ Mailbox!Read = ReportsIn(recorded) /\ ReportsIn(heard) \subseteq Mailbox!Read
  BY MailWellformed DEF MailInv, HeardInv
<1>5. LogInv(recorded \o d) /\ ReportsIn(recorded \o d) = ReportsIn(recorded) \cup ReportsIn(d)
  BY <1>2, <1>3, <1>4, AddReports
<1>6. LogInv(heard \o d) /\ ReportsIn(heard \o d) = ReportsIn(heard) \cup ReportsIn(d)
  BY <1>2, <1>3, <1>4, AddReports
<1>7. ReportsIn(d) \in SUBSET DOMAIN posted /\ ReportsIn(d) \cap Mailbox!Read = {}
  BY <1>2 DEF ReportsIn
<1>8. Mailbox!Read' = Mailbox!Read \cup ReportsIn(d)
  BY <1>1, <1>4, <1>5 DEF Mailbox!Read, ReportsIn
<1>9. MailTyped'
  BY <1>1, MailWellformed DEF MailInv, MailTyped
<1>10. LogInv(recorded)' /\ LogInv(heard)'
  BY <1>1, <1>5, <1>6 DEF LogInv, LogOK
<1>11. ReportsIn(heard)' = ReportsIn(heard) \cup ReportsIn(d)
  BY <1>1, <1>6 DEF ReportsIn
<1>12. HeardInv'
  BY <1>1, <1>7, <1>8, <1>11 DEF MailInv, HeardInv
<1>13. CollectedInv' /\ AnswerInv'
  BY <1>1, <1>7, <1>8, ReadMore DEF CollectedInv, AnswerInv
<1>14. QED
  BY <1>9, <1>10, <1>12, <1>13 DEF MailInv

LEMMA DeliverPartStep ==
  ASSUME MailboxConstants, MailInv, Mailbox!DeliverPart
  PROVE  MailInv'
<1>1. PICK k \in 0 .. Len(Mailbox!Delivered) - 1 :
         /\ recorded' = recorded \o SubSeq(Mailbox!Delivered, 1, k)
         /\ missed' = missed \cup {SubSeq(Mailbox!Delivered, 1, k)[i].report : i \in DOMAIN SubSeq(Mailbox!Delivered,
              1, k)}
  BY DEF Mailbox!DeliverPart
<1> DEFINE d == SubSeq(Mailbox!Delivered, 1, k)
<1>2. /\ Mailbox!Delivered \in Seq(MailEntry)
      /\ \A i \in DOMAIN Mailbox!Delivered : /\ Mailbox!Delivered[i].report \in DOMAIN posted \ Mailbox!Read
                                             /\ Mailbox!Delivered[i].from = posted[Mailbox!Delivered[i].report]
      /\ \A i, j \in DOMAIN Mailbox!Delivered : Mailbox!Delivered[i].report = Mailbox!Delivered[j].report => i = j
  BY DeliveredReports
<1>3. /\ d \in Seq(MailEntry) /\ DOMAIN d = 1..k
      /\ \A i \in 1..k : d[i] = Mailbox!Delivered[i] /\ i \in DOMAIN Mailbox!Delivered
  <2>1. Len(Mailbox!Delivered) \in Nat /\ DOMAIN Mailbox!Delivered = 1..Len(Mailbox!Delivered)
    BY <1>2
  <2>2. k \in Nat /\ k <= Len(Mailbox!Delivered)
    BY <2>1
  <2> HIDE DEF d
  <2>3. d \in Seq(MailEntry) /\ Len(d) = k /\ \A i \in 1..k : d[i] = Mailbox!Delivered[i]
    BY <1>2, <2>1, <2>2 DEF d
  <2>4. QED
    BY <2>1, <2>2, <2>3
<1>4. /\ recorded' = recorded \o d /\ missed' = missed \cup {d[i].report : i \in DOMAIN d}
      /\ parent' = "idle" /\ asked' = {} /\ answer' = Mailbox!Nothing /\ UNCHANGED <<posted, child, heard>>
  BY <1>1 DEF Mailbox!DeliverPart, Mailbox!Goto, Mailbox!Keep
<1> HIDE DEF d
<1>5. /\ \A i \in DOMAIN d : d[i].report \in DOMAIN posted \ Mailbox!Read /\ d[i].from = posted[d[i].report]
      /\ \A i, j \in DOMAIN d : d[i].report = d[j].report => i = j
  BY <1>2, <1>3
<1>6. \A i \in DOMAIN d : child[d[i].from] # "collected"
  <2> SUFFICES ASSUME NEW i \in DOMAIN d PROVE child[d[i].from] # "collected"
    OBVIOUS
  <2>1. d[i].report \in Mailbox!Pending({d[i].from}) /\ d[i].from \in Agents
    BY <1>5, MailWellformed DEF Mailbox!Pending
  <2>2. QED
    BY <2>1 DEF MailInv, CollectedInv
<1>7. LogInv(recorded) /\ LogInv(heard) /\ Mailbox!Read = ReportsIn(recorded) /\ ReportsIn(heard) \subseteq Mailbox!Read
  BY MailWellformed DEF MailInv, HeardInv
<1>8. LogInv(recorded \o d) /\ ReportsIn(recorded \o d) = ReportsIn(recorded) \cup ReportsIn(d)
  BY <1>3, <1>5, <1>6, <1>7, AddReports
<1>9. /\ ReportsIn(d) \in SUBSET DOMAIN posted /\ ReportsIn(d) \cap Mailbox!Read = {} /\ ReportsIn(d) \in SUBSET Nat
      /\ {d[i].report : i \in DOMAIN d} = ReportsIn(d)
  BY <1>5, MailWellformed DEF ReportsIn
<1>10. Mailbox!Read' = Mailbox!Read \cup ReportsIn(d)
  BY <1>4, <1>7, <1>8 DEF Mailbox!Read, ReportsIn
<1>11. MailTyped'
  BY <1>4, <1>9, MailWellformed DEF MailInv, MailTyped
<1>12. LogInv(recorded)'
  BY <1>4, <1>8 DEF LogInv, LogOK
<1>13. LogInv(heard)'
  BY <1>4, <1>7 DEF LogInv, LogOK
<1>14. ReportsIn(heard)' = ReportsIn(heard)
  BY <1>4 DEF ReportsIn
<1>15. HeardInv'
  BY <1>4, <1>9, <1>10, <1>14 DEF MailInv, HeardInv
<1>16. CollectedInv' /\ AnswerInv'
  BY <1>4, <1>9, <1>10, ReadMore DEF CollectedInv, AnswerInv
<1>17. QED
  BY <1>11, <1>12, <1>13, <1>15, <1>16 DEF MailInv

\* The result of a child whose reports have been read is written.
LEMMA ResultStep ==
  ASSUME MailboxConstants, MailInv, NEW c \in Agents, child[c] = "terminal", Mailbox!Pending({c}) = {},
         recorded' = Append(recorded, Mailbox!Result(c)), heard' = Append(heard, Mailbox!Result(c)),
         child' = [child EXCEPT ![c] = "collected"], UNCHANGED <<posted, missed>>,
         parent' \in {"boundary", "collected"}, asked' = {}, answer' = Mailbox!Nothing
  PROVE  MailInv'
<1>1. LogInv(recorded) /\ LogInv(heard)
  BY DEF MailInv
<1>2. LogInv(recorded)' /\ ReportsIn(recorded)' = ReportsIn(recorded)
  <2>1. LogOK(recorded', posted', child') /\ ReportsIn(recorded') = ReportsIn(recorded)
    BY <1>1, AddResult
  <2>2. QED
    BY <2>1 DEF LogInv, ReportsIn
<1>3. LogInv(heard)' /\ ReportsIn(heard)' = ReportsIn(heard)
  <2>1. LogOK(heard', posted', child') /\ ReportsIn(heard') = ReportsIn(heard)
    BY <1>1, AddResult
  <2>2. QED
    BY <2>1 DEF LogInv, ReportsIn
<1>4. Mailbox!Read' = Mailbox!Read
  BY <1>2 DEF Mailbox!Read, ReportsIn
<1>5. \A S : Mailbox!Pending(S)' = Mailbox!Pending(S)
  BY <1>4 DEF Mailbox!Pending
<1>6. MailTyped' /\ HeardInv'
  BY <1>3, <1>4, MailWellformed DEF MailInv, MailTyped, HeardInv
<1>7. CollectedInv' /\ AnswerInv'
  BY <1>5 DEF MailInv, MailTyped, CollectedInv, AnswerInv
<1>8. QED
  BY <1>2, <1>3, <1>6, <1>7 DEF MailInv

LEMMA CommitStep ==
  ASSUME MailboxConstants, MailInv, Mailbox!CommitResult
  PROVE  MailInv'
<1>1. /\ parent = "result" /\ parent' = "boundary" /\ asked' = {} /\ answer' = Mailbox!Nothing
      /\ UNCHANGED <<posted, missed>>
      /\ child' = [c \in Agents |-> IF answer = Mailbox!Result(c) THEN "collected" ELSE child[c]]
  BY DEF Mailbox!CommitResult, Mailbox!Goto
<1>2. child \in [Agents -> {"running", "terminal", "collected"}] /\ answer \in MailEntry
  BY DEF MailInv, MailTyped
<1>3. CASE answer = Mailbox!Nothing
  <2>1. \A c \in Agents : answer # Mailbox!Result(c)
    BY <1>3 DEF Mailbox!Nothing, Mailbox!Result, MailboxConstants
  <2>2. child' = child
    BY <1>1, <1>2, <2>1
  <2>3. UNCHANGED <<recorded, heard>>
    BY <1>3 DEF Mailbox!CommitResult
  <2>4. QED
    BY <1>1, <2>2, <2>3, ParentStep, MailWellformed
<1>4. CASE answer.report \in DOMAIN posted \ Mailbox!Read /\ answer.from = posted[answer.report]
  <2>1. answer.report # 0
    BY <1>4, MailWellformed
  <2>2. answer # Mailbox!Nothing /\ \A c \in Agents : answer # Mailbox!Result(c)
    BY <2>1 DEF Mailbox!Nothing, Mailbox!Result
  <2>3. child' = child /\ recorded' = Append(recorded, answer) /\ heard' = Append(heard, answer)
    BY <1>1, <1>2, <2>2 DEF Mailbox!CommitResult
  <2>4. child[answer.from] # "collected"
    <3>1. answer.report \in Mailbox!Pending({answer.from}) /\ answer.from \in Agents
      BY <1>4, MailWellformed DEF Mailbox!Pending
    <3>2. QED
      BY <3>1 DEF MailInv, CollectedInv
  <2>5. LogInv(recorded) /\ LogInv(heard) /\ Mailbox!Read = ReportsIn(recorded)
            /\ ReportsIn(heard) \subseteq Mailbox!Read
    BY MailWellformed DEF MailInv, HeardInv
  <2>6. LogInv(Append(recorded, answer)) /\ ReportsIn(Append(recorded, answer)) = Mailbox!Read \cup {answer.report}
    BY <1>2, <1>4, <2>4, <2>5, AddReport
  <2>7. LogInv(Append(heard, answer)) /\ ReportsIn(Append(heard, answer)) = ReportsIn(heard) \cup {answer.report}
    BY <1>2, <1>4, <2>4, <2>5, AddReport
  <2>8. LogInv(recorded)' /\ LogInv(heard)'
    BY <1>1, <2>3, <2>6, <2>7 DEF LogInv, LogOK
  <2>9. Mailbox!Read' = Mailbox!Read \cup {answer.report} /\ ReportsIn(heard)' = ReportsIn(heard) \cup {answer.report}
    BY <2>3, <2>6, <2>7 DEF Mailbox!Read, ReportsIn
  <2>10. HeardInv'
    BY <1>1, <1>4, <2>9 DEF MailInv, HeardInv
  <2>11. MailTyped'
    BY <1>1, <2>3, MailWellformed DEF MailInv, MailTyped
  <2>12. CollectedInv' /\ AnswerInv'
    <3>1. {answer.report} \in SUBSET DOMAIN posted
      BY <1>4
    <3>2. \A c \in Agents : child'[c] = "collected" => Mailbox!Pending({c})' = {}
      BY <1>1, <2>3, <2>9, <3>1, ReadMore
    <3>3. QED
      BY <1>1, <3>2 DEF CollectedInv, AnswerInv
  <2>13. QED
    BY <2>8, <2>10, <2>11, <2>12 DEF MailInv
<1>5. CASE /\ answer.report = 0 /\ answer.from \in Agents
           /\ child[answer.from] = "terminal" /\ Mailbox!Pending({answer.from}) = {}
  <2>1. PICK c \in Agents : c = answer.from
    BY <1>5
  <2>2. answer = Mailbox!Result(c) /\ answer # Mailbox!Nothing /\ \A z \in Agents : answer = Mailbox!Result(z) => z = c
    BY <1>2, <1>5, <2>1 DEF Mailbox!Result, Mailbox!Nothing, MailEntry, MailboxConstants
  <2>3. child' = [child EXCEPT ![c] = "collected"]
    BY <1>1, <1>2, <2>2
  <2>4. recorded' = Append(recorded, Mailbox!Result(c)) /\ heard' = Append(heard, Mailbox!Result(c))
    BY <2>2 DEF Mailbox!CommitResult
  <2>5. QED
    BY <1>1, <1>5, <2>1, <2>3, <2>4, ResultStep
<1>6. QED
  BY <1>1, <1>3, <1>4, <1>5 DEF MailInv, AnswerInv

LEMMA CollectStep ==
  ASSUME MailboxConstants, MailInv, Mailbox!Collect
  PROVE  MailInv'
<1>1. PICK c \in Agents :
       /\ child[c] = "terminal" /\ Mailbox!Found({c}) = {Mailbox!Result(c)}
       /\ recorded' = Append(recorded, Mailbox!Result(c)) /\ heard' = Append(heard, Mailbox!Result(c))
       /\ child' = [child EXCEPT ![c] = "collected"]
  BY DEF Mailbox!Collect
<1>2. Mailbox!Pending({c}) = {}
  <2>1. {c} \in SUBSET Agents /\ Mailbox!Result(c) \in Mailbox!Found({c})
    BY <1>1
  <2>2. QED
    BY <2>1, FoundTyped
<1>3. UNCHANGED <<posted, missed>> /\ parent' = "collected" /\ asked' = {} /\ answer' = Mailbox!Nothing
  BY DEF Mailbox!Collect, Mailbox!Goto
<1>4. QED
  BY <1>1, <1>2, <1>3, ResultStep

LEMMA NextMail ==
  ASSUME MailboxConstants, MailInv, [Mailbox!Next]_(Mailbox!vars)
  PROVE  MailInv'
<1>1. CASE \E c \in Agents : Mailbox!Post(c) \/ Mailbox!Settle(c)
  BY <1>1, PostStep, SettleStep
<1>2. CASE Mailbox!Wake \/ \E children \in SUBSET Agents : Mailbox!Observe(children)
  BY <1>2, LookSteps
<1>3. CASE Mailbox!Start \/ Mailbox!FailResult \/ Mailbox!Text \/ Mailbox!Gate
  BY <1>3, QuietSteps
<1>4. CASE Mailbox!Deliver \/ Mailbox!DeliverPart \/ Mailbox!CommitResult \/ Mailbox!Collect \/ Mailbox!Crash
  BY <1>4, DeliverStep, DeliverPartStep, CommitStep, CollectStep, MailCrashStep
<1>5. CASE UNCHANGED Mailbox!vars
  BY <1>5, ParentStep DEF Mailbox!vars, MailInv, MailTyped, CollectedInv, AnswerInv
<1>6. QED
  BY <1>1, <1>2, <1>3, <1>4, <1>5 DEF Mailbox!Next

\* The invariant says what the property says.
LEMMA MailIsRead ==
  ASSUME MailInv
  PROVE  Mailbox!ReportsAreRead
<1>1. LogInv(heard) /\ ReportsIn(heard) = Mailbox!Read \ missed
  BY DEF MailInv, HeardInv
<1>2. ASSUME NEW n \in DOMAIN posted
      PROVE  Cardinality(Mailbox!Place(Mailbox!Report(n))) = IF n \in Mailbox!Read \ missed THEN 1 ELSE 0
  <2>1. n # 0 /\ Mailbox!Report(n).report = n /\ Mailbox!Report(n).from = posted[n]
    BY MailWellformed DEF Mailbox!Report
  <2>2. CASE n \in Mailbox!Read \ missed
    <3>1. PICK i \in DOMAIN heard : heard[i].report = n
      BY <1>1, <2>2 DEF ReportsIn
    <3>2. heard[i] = Mailbox!Report(n)
      <4>1. heard[i] \in MailEntry /\ heard[i].from = posted[n]
      BY <1>1, <2>1, <3>1 DEF LogInv, LogOK
    <4>2. QED
      BY <3>1, <4>1 DEF MailEntry, Mailbox!Report
    <3>3. Mailbox!Place(Mailbox!Report(n)) = {i}
      BY <1>1, <2>1, <3>1, <3>2 DEF Mailbox!Place, LogInv, LogOK
    <3>4. QED
      BY <2>2, <3>3, FS_Singleton
  <2>3. CASE n \notin Mailbox!Read \ missed
    <3>1. Mailbox!Place(Mailbox!Report(n)) = {}
      BY <1>1, <2>1, <2>3 DEF Mailbox!Place, ReportsIn
    <3>2. QED
      BY <2>3, <3>1, FS_EmptySet
  <2>4. QED
    BY <2>2, <2>3
<1>3. ASSUME NEW n \in DOMAIN posted, child[posted[n]] = "collected"
      PROVE  /\ n \in Mailbox!Read
             /\ \A i \in Mailbox!Place(Mailbox!Report(n)), j \in Mailbox!Place(Mailbox!Result(posted[n])) : i < j
  <2>1. posted[n] \in Agents /\ n # 0
    BY MailWellformed
  <2>2. Mailbox!Pending({posted[n]}) = {}
    BY <1>3, <2>1 DEF MailInv, CollectedInv
  <2>3. n \in Mailbox!Read
    BY <2>2 DEF Mailbox!Pending
  <2>4. \A i \in Mailbox!Place(Mailbox!Report(n)) : i \in DOMAIN heard /\ heard[i].report = n /\ heard[i].from
            = posted[n]
    BY DEF Mailbox!Place, Mailbox!Report
  <2>5. \A j \in Mailbox!Place(Mailbox!Result(posted[n])) : j \in DOMAIN heard /\ heard[j].report = 0
            /\ heard[j].from = posted[n]
    BY DEF Mailbox!Place, Mailbox!Result
  <2>6. QED
    BY <1>1, <2>1, <2>3, <2>4, <2>5 DEF LogInv, LogOK
<1>4. parent = "answered" => DOMAIN posted \subseteq Mailbox!Read
  BY <1>3, MailWellformed DEF MailInv, CollectedInv
<1>5. QED
  BY <1>2, <1>3, <1>4, SameOperators DEF Mailbox!ReportsAreRead

-----------------------------------------------------------------------------
(* Turns and plans *)

Places ==
  {"idle", "approving", "executing", "route", "step", "calls", "final", "refused", "corrected", "resolved", "asked",
   "proposed", "sealed", "finish", "down"}
Endings ==
  {"none", "success", "planned", "needs_input", "blocked", "paused", "limit_reached", "failed", "interrupted"}
Reviews == [status : {"none", "awaiting", "approved"}, plan : Nat, rev : Nat]
Graphs == [status : {"none", "active", "blocked", "completed"}, turn : Nat]
Controls == [open : SUBSET (Turn!Work \cup {"planning_dag"}), attempts : Nat]
Sessions ==
  [mode : Turn!Modes, turn : Nat, review : Reviews, graph : Graphs, control : Controls,
   executing : [turn : Nat, review : Reviews],
   tail : {"user", "calls", "final", "refused"}, reply : BOOLEAN, challenged : BOOLEAN, failed : BOOLEAN]

Pcs == [at : Places, mode : Turn!Modes, requests : Nat, approved : Reviews, work : SUBSET Turn!Work, ending : Endings]

TurnTyped ==
  /\ durable \in Sessions /\ turn \in Nat
  /\ pc \in Pcs
  /\ durable.review.status = "none" => durable.review = Turn!None

\* The process knows the session, but for the mode of an approval that is not saved.
Remembered == [Turn!Replayed(durable) EXCEPT !.mode = IF Turn!At("approving") THEN "code" ELSE @]
RememberedInv == durable.tail # "refused" /\ (~Turn!At("down") => memory = Remembered)

Between == pc.at \in {"idle", "approving"}
\* The journal has the turn of the process.
TurnInv ==
  /\ Between => durable.turn = 0 /\ pc.approved = Turn!None
  /\ ~Between => durable.turn = turn \/ (Turn!At("down") /\ durable.turn = 0)
  /\ ~Between /\ ~Turn!At("down") => turn > 0

\* The journal has the plan that the turn executes, and what the turn proposes is its own.
PlanInv ==
  /\ durable.executing.turn <= turn
  /\ Turn!At("executing") => durable.review.status = "approved" /\ pc.approved = Turn!None
  /\ pc.approved # Turn!None => durable.executing = [turn |-> turn, review |-> pc.approved]
  /\ ~Between /\ ~Turn!At("down") /\ durable.executing.turn = turn =>
       /\ pc.approved # Turn!None
       /\ durable.review # Turn!None => durable.review.plan = turn

SessionInv == TurnTyped /\ RememberedInv /\ TurnInv /\ PlanInv

\* What PlanIsKept says of a step.
KeepsPlan ==
  /\ durable.turn # 0 /\ durable'.turn = 0
  /\ durable'.executing.turn = durable.turn /\ durable'.failed
  => durable.turn \in {durable'.graph.turn, durable'.review.plan}

-----------------------------------------------------------------------------
(* What an event does to the session. *)

LEMMA MessageEvents ==
  ASSUME NEW d \in Sessions, NEW t \in Nat
  PROVE  /\ Turn!Write(d, [type |-> "message.user", turn |-> t])
              = [d EXCEPT !.reply = FALSE, !.turn = t, !.tail = "user", !.failed = FALSE]
         /\ Turn!Write(d, [type |-> "message.synthetic"]) = [d EXCEPT !.reply = FALSE, !.tail = "user"]
         /\ Turn!Write(d, [type |-> "message.calls"]) = [d EXCEPT !.reply = FALSE, !.tail = "calls"]
         /\ Turn!Write(d, [type |-> "message.final"]) = [d EXCEPT !.tail = "final", !.reply = TRUE]
         /\ Turn!Write(d, [type |-> "challenge"]) = [d EXCEPT !.reply = FALSE, !.challenged = TRUE, !.tail = "user"]
         /\ Turn!Write(d, [type |-> "turn.steering.sealed"]) = [d EXCEPT !.reply = FALSE]
BY DEF Turn!Write, Turn!Accepts, Turn!Fold, Turn!PlanEvents, Sessions

LEMMA SessionEvents ==
  ASSUME NEW d \in Sessions
  PROVE  /\ \A m \in Turn!Modes :
              /\ Turn!Write(d, [type |-> "checkpoint", mode |-> m]) = [d EXCEPT !.mode = m]
              /\ d.mode = "auto" =>
                   Turn!Write(d, [type |-> "mode.auto_route", turn |-> d.turn, mode |-> m])
                     = [d EXCEPT !.reply = FALSE, !.mode = m]
         /\ \A g \in Graphs :
              Turn!Write(d, [type |-> "tool.result", graph |-> g]) = [d EXCEPT !.reply = FALSE, !.tail
                  = "user", !.graph = g]
         /\ \A r \in Endings :
              Turn!Write(d, [type |-> "turn.completed", reason |-> r])
                = [d EXCEPT !.reply = FALSE, !.turn = 0, !.failed = r \in Turn!Outcomes,
                            !.challenged = @ /\ r \notin {"success", "planned"}]
BY DEF Turn!Write, Turn!Accepts, Turn!Fold, Turn!PlanEvents, Sessions

LEMMA CompletionEvents ==
  ASSUME NEW d \in Sessions
  PROVE  /\ \A open \in SUBSET (Turn!Work \cup {"planning_dag"}) :
              LET n == IF d.control.open = open THEN d.control.attempts + 1 ELSE 1
              IN  Turn!Write(d, [type |-> "completion.rejected", open |-> open, attempt |-> n])
                    = [d EXCEPT !.reply = FALSE, !.control = [open |-> open, attempts |-> n]]
         /\ Turn!Write(d, [type |-> "completion.resolved", open |-> d.control.open])
              = [d EXCEPT !.reply = FALSE, !.control = Turn!NoControl]
BY DEF Turn!Write, Turn!Accepts, Turn!Fold, Turn!PlanEvents, Sessions

LEMMA ReviewEvents ==
  ASSUME NEW d \in Sessions, d.review.status = "awaiting"
  PROVE  /\ Turn!Write(d, [type |-> "plan.approved"]) = [d EXCEPT !.reply = FALSE, !.review.status = "approved"]
         /\ Turn!Write(d, [type |-> "plan.rejected"])
              = [d EXCEPT !.reply = FALSE, !.review = Turn!None, !.tail = "user"]
         /\ Turn!Write(d, [type |-> "plan.feedback"]) = [d EXCEPT !.reply = FALSE]
BY DEF Turn!Write, Turn!Accepts, Turn!AcceptsPlan, Turn!Fold, Turn!PlanEvents, Sessions

LEMMA ProposalEvent ==
  ASSUME NEW d \in Sessions, NEW r \in Reviews,
         \/ d.review = Turn!None /\ r.rev = 1
         \/ d.review # Turn!None /\ d.review.status = "awaiting" /\ r.plan = d.review.plan /\ r.rev = d.review.rev + 1
  PROVE  Turn!Write(d, [type |-> "plan.proposed", review |-> r])
           = [d EXCEPT !.reply = FALSE, !.review = r, !.tail = IF @ = "calls" THEN "user" ELSE @]
BY DEF Turn!Write, Turn!Accepts, Turn!AcceptsPlan, Turn!Fold, Turn!PlanEvents, Sessions

LEMMA ExecutionEvents ==
  ASSUME NEW d \in Sessions, NEW t \in Nat
  PROVE  /\ \A b \in BOOLEAN : d.review.status = "approved" =>
              Turn!Write(d, [type |-> "plan.started", turn |-> t, replaces |-> b])
                = [d EXCEPT !.reply = FALSE, !.executing = [turn |-> t, review |-> d.review], !.review = Turn!None,
                            !.graph = IF b THEN Turn!NoGraph ELSE @]
         /\ d.turn = t /\ d.review = Turn!None /\ d.executing.turn = t =>
              Turn!Write(d, [type |-> "plan.returned", turn |-> t])
                = [d EXCEPT !.reply = FALSE, !.review = Turn!Awaiting(d.executing.review), !.executing
                    = Turn!NotExecuting]
BY DEF Turn!Write, Turn!Accepts, Turn!AcceptsPlan, Turn!Fold, Turn!PlanEvents, Sessions

-----------------------------------------------------------------------------
(* The steps. *)

LEMMA InitSession == Turn!Init => SessionInv
BY DEF Turn!Init, SessionInv, TurnTyped, RememberedInv, Remembered, Turn!Replayed, Between, TurnInv, PlanInv, Sessions,
  Reviews,
       Graphs, Controls, Places, Endings, Turn!Modes, Turn!None, Turn!NoGraph, Turn!NoControl, Turn!NotExecuting,
               Turn!Idle, Turn!At, Pcs

LEMMA SessionTyped ==
  ASSUME SessionInv
  PROVE  /\ durable \in Sessions /\ turn \in Nat /\ turn + 1 \in Nat
         /\ ~Turn!At("down") => memory = Remembered
BY DEF SessionInv, TurnTyped, RememberedInv

LEMMA Reviewed ==
  /\ Turn!None \in Reviews /\ Turn!NoGraph \in Graphs /\ Turn!NoControl \in Controls
  /\ Turn!NotExecuting \in [turn : Nat, review : Reviews]
  /\ \A r \in Reviews : Turn!Awaiting(r) \in Reviews /\ Turn!Awaiting(r) # Turn!None /\ Turn!Awaiting(r).plan = r.plan
BY DEF Turn!None, Turn!NoGraph, Turn!NoControl, Turn!NotExecuting, Reviews, Graphs, Controls, Turn!Awaiting

LEMMA SubmitUserMessageStep ==
  ASSUME SessionInv, Turn!SubmitUserMessage
  PROVE  SessionInv' /\ KeepsPlan
<1>1. durable' = [durable EXCEPT !.reply = FALSE, !.turn = turn + 1, !.tail = "user", !.failed = FALSE]
  <2>1. Turn!Write(durable, Turn!Message) = [durable EXCEPT !.reply = FALSE, !.turn = turn + 1, !.tail
            = "user", !.failed = FALSE]
    BY SessionTyped, MessageEvents DEF Turn!Message
  <2> QED
    BY <2>1 DEF Turn!SubmitUserMessage, Turn!Append
<1>2. TurnTyped'
  <2>1. durable' \in Sessions
    BY <1>1, SessionTyped, Reviewed DEF Sessions
  <2>2. durable'.review.status = "none" => durable'.review = Turn!None
    BY <1>1, SessionTyped, Reviewed DEF SessionInv, TurnTyped, Sessions, Reviews
  <2>3. pc' \in Pcs
    BY SessionTyped DEF Turn!SubmitUserMessage, SessionInv, TurnTyped, Remembered, Turn!Replayed, Turn!At, Sessions,
      Pcs, Places, Endings, Turn!Modes, Reviews, Turn!None, Turn!Begin, Turn!Idle
  <2> QED
    BY <2>1, <2>2, <2>3 DEF TurnTyped, SessionInv, Turn!SubmitUserMessage, Turn!Begin, Turn!Idle
<1>3. RememberedInv'
  BY <1>1, SessionTyped DEF Turn!SubmitUserMessage, SessionInv, RememberedInv, Remembered, Turn!Replayed, Turn!At,
    Sessions, Turn!Begin, Turn!Idle
<1>4. TurnInv' /\ PlanInv' /\ KeepsPlan
  BY <1>1, SessionTyped DEF Turn!SubmitUserMessage, SessionInv, TurnTyped, TurnInv, PlanInv, Between, Remembered,
    Turn!Replayed, Turn!At, Sessions, Pcs,
     Turn!NotExecuting, Turn!None, KeepsPlan, Turn!Begin, Turn!Idle
<1> QED
  BY <1>2, <1>3, <1>4 DEF SessionInv

LEMMA AdjustStep ==
  ASSUME SessionInv, Turn!Adjust
  PROVE  SessionInv' /\ KeepsPlan
<1>1. durable' = [durable EXCEPT !.reply = FALSE, !.turn = turn + 1, !.tail = "user", !.failed = FALSE]
  <2> DEFINE told == [durable EXCEPT !.reply = FALSE]
  <2>1. durable.review.status = "awaiting"
    BY DEF Turn!Adjust, SessionInv, TurnTyped, RememberedInv, Remembered, Turn!Replayed, Turn!At, Sessions
  <2>2. Turn!Write(durable, [type |-> "plan.feedback"]) = told
    BY <2>1, SessionTyped, ReviewEvents
  <2>3. told \in Sessions
    BY SessionTyped DEF Sessions
  <2>4. Turn!Write(told, Turn!Message) = [told EXCEPT !.reply = FALSE, !.turn = turn + 1, !.tail = "user", !.failed
            = FALSE]
    BY <2>3, SessionTyped, MessageEvents DEF Turn!Message
  <2>5. [told EXCEPT !.reply = FALSE, !.turn = turn + 1, !.tail = "user", !.failed = FALSE] = [durable EXCEPT !.reply
            = FALSE, !.turn = turn + 1, !.tail = "user", !.failed = FALSE]
    BY SessionTyped DEF Sessions
  <2> QED
    BY <2>2, <2>4, <2>5 DEF Turn!Adjust
<1>2. TurnTyped'
  <2>1. durable' \in Sessions
    BY <1>1, SessionTyped, Reviewed DEF Sessions
  <2>2. durable'.review.status = "none" => durable'.review = Turn!None
    BY <1>1, SessionTyped, Reviewed DEF SessionInv, TurnTyped, Sessions, Reviews
  <2>3. pc' \in Pcs
    BY SessionTyped DEF Turn!Adjust, SessionInv, TurnTyped, Remembered, Turn!Replayed, Turn!At, Sessions, Pcs, Places,
      Endings, Turn!Modes, Reviews, Turn!None, Turn!Begin, Turn!Idle
  <2> QED
    BY <2>1, <2>2, <2>3 DEF TurnTyped, SessionInv, Turn!Adjust, Turn!Begin, Turn!Idle
<1>3. RememberedInv'
  <2>1. memory = Turn!Replayed(durable) /\ durable.tail # "refused" /\ durable \in Sessions
    BY SessionTyped DEF Turn!Adjust, SessionInv, RememberedInv, Remembered, Turn!Replayed, Turn!At
  <2>4. memory' = [mode |-> durable.mode, turn |-> turn + 1, review |-> durable.review, graph |-> durable.graph,
                control |-> durable.control]
    BY <2>1, SessionTyped, Reviewed DEF Turn!Adjust, Turn!Replayed, Sessions, Turn!Begin, Turn!Idle
  <2>5. Turn!Replayed(durable') = [mode |-> durable'.mode, turn |-> durable'.turn, review |-> durable'.review,
                graph |-> durable'.graph, control |-> durable'.control]
    BY DEF Turn!Replayed
  <2>6. Turn!At("approving")' <=> FALSE
    BY <2>1, SessionTyped DEF Turn!Adjust, Turn!At, SessionInv, TurnTyped, Pcs, Turn!Begin, Turn!Idle
  <2>2. memory' = Remembered'
    BY <1>1, <2>1, <2>4, <2>5, <2>6 DEF Remembered, Sessions, Turn!Unfinished
  <2>3. durable'.tail # "refused"
    BY <1>1, <2>1 DEF Sessions
  <2> QED
    BY <2>2, <2>3 DEF RememberedInv
<1>4. TurnInv' /\ PlanInv' /\ KeepsPlan
  <2>1. pc'.at = "step" /\ pc'.approved = Turn!None /\ turn' = turn + 1 /\ pc.at = "idle"
    BY DEF Turn!Adjust, Turn!Begin, Turn!Idle, Turn!At
  <2>2. durable'.turn = turn + 1 /\ durable'.executing = durable.executing
    BY <1>1, SessionTyped DEF Sessions
  <2> QED
    BY <2>1, <2>2, SessionTyped DEF SessionInv, TurnInv, PlanInv, Between, Turn!At, Sessions, KeepsPlan
<1> QED
  BY <1>2, <1>3, <1>4 DEF SessionInv

LEMMA ApproveStep ==
  ASSUME SessionInv, Turn!Approve
  PROVE  SessionInv' /\ KeepsPlan
<1>1. durable' = [durable EXCEPT !.reply = FALSE, !.review.status = "approved"]
  <2>1. durable.review.status = "awaiting"
    BY DEF Turn!Approve, SessionInv, TurnTyped, RememberedInv, Remembered, Turn!Replayed, Turn!At, Sessions
  <2>2. Turn!Write(durable, [type |-> "plan.approved"]) = [durable EXCEPT !.reply = FALSE, !.review.status = "approved"]
    BY <2>1, SessionTyped, ReviewEvents
  <2> QED
    BY <2>2 DEF Turn!Approve, Turn!Append
<1>2. TurnTyped'
  <2>1. durable' \in Sessions
    BY <1>1, SessionTyped, Reviewed DEF Sessions, Reviews
  <2>2. durable'.review.status = "none" => durable'.review = Turn!None
    BY <1>1, SessionTyped, Reviewed DEF SessionInv, TurnTyped, Sessions, Reviews
  <2>3. pc' \in Pcs
    BY SessionTyped DEF Turn!Approve, SessionInv, TurnTyped, Remembered, Turn!Replayed, Turn!At, Sessions, Pcs, Places,
      Endings, Turn!Modes, Reviews, Turn!None, Turn!GoTo, Turn!Awaiting
  <2> QED
    BY <2>1, <2>2, <2>3 DEF TurnTyped, SessionInv, Turn!Approve, Turn!GoTo, Turn!Awaiting
<1>3. RememberedInv'
  <2>1. memory = Turn!Replayed(durable) /\ durable.tail # "refused" /\ durable \in Sessions
    BY SessionTyped DEF Turn!Approve, SessionInv, RememberedInv, Remembered, Turn!Replayed, Turn!At
  <2>4. memory' = [mode |-> "code", turn |-> durable.turn, review |-> [durable.review EXCEPT !.status
            = "approved"], graph |-> durable.graph, control |-> durable.control]
    BY <2>1, SessionTyped, Reviewed DEF Turn!Approve, Turn!Replayed, Sessions, Turn!GoTo, Turn!Awaiting
  <2>5. Turn!Replayed(durable') = [mode |-> durable'.mode, turn |-> durable'.turn, review |-> durable'.review,
                graph |-> durable'.graph, control |-> durable'.control]
    BY DEF Turn!Replayed
  <2>6. Turn!At("approving")' <=> TRUE
    BY <2>1, SessionTyped DEF Turn!Approve, Turn!At, SessionInv, TurnTyped, Pcs, Turn!GoTo, Turn!Awaiting
  <2>2. memory' = Remembered'
    BY <1>1, <2>1, <2>4, <2>5, <2>6 DEF Remembered, Sessions, Turn!Unfinished
  <2>3. durable'.tail # "refused"
    BY <1>1, <2>1 DEF Sessions
  <2> QED
    BY <2>2, <2>3 DEF RememberedInv
<1>4. TurnInv' /\ PlanInv' /\ KeepsPlan
  BY <1>1, SessionTyped DEF Turn!Approve, SessionInv, TurnTyped, TurnInv, PlanInv, Between, Remembered, Turn!Replayed,
    Turn!At, Sessions, Pcs,
     Turn!NotExecuting, Turn!None, KeepsPlan, Turn!GoTo, Turn!Awaiting
<1> QED
  BY <1>2, <1>3, <1>4 DEF SessionInv

LEMMA SaveApprovalStep ==
  ASSUME SessionInv, Turn!SaveApproval
  PROVE  SessionInv' /\ KeepsPlan
<1>1. durable' = [durable EXCEPT !.mode = "code"]
  <2>1. memory.mode = "code"
    BY DEF Turn!SaveApproval, SessionInv, TurnTyped, RememberedInv, Remembered, Turn!Replayed, Turn!At, Sessions
  <2>2. Turn!Write(durable, [type |-> "checkpoint", mode |-> "code"]) = [durable EXCEPT !.mode = "code"]
    BY SessionTyped, SessionEvents DEF Turn!Modes
  <2> QED
    BY <2>1, <2>2 DEF Turn!SaveApproval, Turn!Append
<1>2. TurnTyped'
  <2>1. durable' \in Sessions
    BY <1>1, SessionTyped, Reviewed DEF Sessions, Turn!Modes
  <2>2. durable'.review.status = "none" => durable'.review = Turn!None
    BY <1>1, SessionTyped, Reviewed DEF SessionInv, TurnTyped, Sessions, Reviews
  <2>3. pc' \in Pcs
    BY SessionTyped DEF Turn!SaveApproval, SessionInv, TurnTyped, Remembered, Turn!Replayed, Turn!At, Sessions, Pcs,
      Places, Endings, Turn!Modes, Reviews, Turn!None, Turn!GoTo
  <2> QED
    BY <2>1, <2>2, <2>3 DEF TurnTyped, SessionInv, Turn!SaveApproval, Turn!GoTo
<1>3. RememberedInv'
  BY <1>1, SessionTyped DEF Turn!SaveApproval, SessionInv, RememberedInv, Remembered, Turn!Replayed, Turn!At, Sessions,
    Turn!GoTo
<1>4. TurnInv' /\ PlanInv' /\ KeepsPlan
  BY <1>1, SessionTyped DEF Turn!SaveApproval, SessionInv, TurnTyped, TurnInv, PlanInv, Between, Remembered,
    Turn!Replayed, Turn!At, Sessions, Pcs,
     Turn!NotExecuting, Turn!None, KeepsPlan, Turn!GoTo
<1> QED
  BY <1>2, <1>3, <1>4 DEF SessionInv

LEMMA RejectStep ==
  ASSUME SessionInv, Turn!Reject
  PROVE  SessionInv' /\ KeepsPlan
<1>1. durable' = [durable EXCEPT !.reply = FALSE, !.review = Turn!None, !.tail = "user"]
  <2>1. durable.review.status = "awaiting"
    BY DEF Turn!Reject, SessionInv, TurnTyped, RememberedInv, Remembered, Turn!Replayed, Turn!At, Sessions
  <2>2. Turn!Write(durable, [type |-> "plan.rejected"]) = [durable EXCEPT !.reply = FALSE, !.review
            = Turn!None, !.tail = "user"]
    BY <2>1, SessionTyped, ReviewEvents
  <2> QED
    BY <2>2 DEF Turn!Reject, Turn!Append
<1>2. TurnTyped'
  <2>1. durable' \in Sessions
    BY <1>1, SessionTyped, Reviewed DEF Sessions
  <2>2. durable'.review.status = "none" => durable'.review = Turn!None
    BY <1>1, SessionTyped, Reviewed DEF SessionInv, TurnTyped, Sessions, Reviews
  <2>3. pc' \in Pcs
    BY SessionTyped DEF Turn!Reject, SessionInv, TurnTyped, Remembered, Turn!Replayed, Turn!At, Sessions, Pcs, Places,
      Endings, Turn!Modes, Reviews, Turn!None
  <2> QED
    BY <2>1, <2>2, <2>3 DEF TurnTyped, SessionInv, Turn!Reject
<1>3. RememberedInv'
  BY <1>1, SessionTyped DEF Turn!Reject, SessionInv, RememberedInv, Remembered, Turn!Replayed, Turn!At, Sessions
<1>4. TurnInv' /\ PlanInv' /\ KeepsPlan
  BY <1>1, SessionTyped DEF Turn!Reject, SessionInv, TurnTyped, TurnInv, PlanInv, Between, Remembered, Turn!Replayed,
    Turn!At, Sessions, Pcs,
     Turn!NotExecuting, Turn!None, KeepsPlan
<1> QED
  BY <1>2, <1>3, <1>4 DEF SessionInv

LEMMA SwitchModeStep ==
  ASSUME SessionInv, Turn!SwitchMode
  PROVE  SessionInv' /\ KeepsPlan
<1>0. memory'.mode \in Turn!Modes
  BY SessionTyped DEF Turn!SwitchMode, Turn!At, Remembered, Turn!Replayed
<1>1. durable' = [durable EXCEPT !.mode = memory'.mode]
  <2>1. PICK mode \in Turn!Modes : memory' = [memory EXCEPT !.mode = mode]
            /\ Turn!Append([type |-> "checkpoint", mode |-> mode])
    BY DEF Turn!SwitchMode
  <2>2. memory'.mode = mode
    BY <2>1, SessionTyped DEF Turn!SwitchMode, Turn!At, Remembered, Turn!Replayed
  <2>3. Turn!Write(durable, [type |-> "checkpoint", mode |-> mode]) = [durable EXCEPT !.mode = mode]
    BY SessionTyped, SessionEvents
  <2> QED
    BY <2>1, <2>2, <2>3 DEF Turn!Append
<1>2. TurnTyped'
  <2>1. durable' \in Sessions
    BY <1>1, SessionTyped, Reviewed, <1>0 DEF Sessions
  <2>2. durable'.review.status = "none" => durable'.review = Turn!None
    BY <1>1, SessionTyped, Reviewed, <1>0 DEF SessionInv, TurnTyped, Sessions, Reviews
  <2>3. pc' \in Pcs
    BY SessionTyped DEF Turn!SwitchMode, SessionInv, TurnTyped, Remembered, Turn!Replayed, Turn!At, Sessions, Pcs,
      Places, Endings, Turn!Modes, Reviews, Turn!None
  <2> QED
    BY <2>1, <2>2, <2>3 DEF TurnTyped, SessionInv, Turn!SwitchMode
<1>3. RememberedInv'
  BY <1>1, SessionTyped DEF Turn!SwitchMode, SessionInv, RememberedInv, Remembered, Turn!Replayed, Turn!At, Sessions
<1>4. TurnInv' /\ PlanInv' /\ KeepsPlan
  BY <1>1, SessionTyped DEF Turn!SwitchMode, SessionInv, TurnTyped, TurnInv, PlanInv, Between, Remembered,
    Turn!Replayed, Turn!At, Sessions, Pcs,
     Turn!NotExecuting, Turn!None, KeepsPlan
<1> QED
  BY <1>2, <1>3, <1>4 DEF SessionInv

LEMMA ExecuteApprovedStep ==
  ASSUME SessionInv, Turn!ExecuteApproved
  PROVE  SessionInv' /\ KeepsPlan
<1>1. durable' = [durable EXCEPT !.reply = FALSE, !.turn = turn + 1, !.tail = "user", !.failed = FALSE]
  <2>1. Turn!Write(durable, Turn!Message) = [durable EXCEPT !.reply = FALSE, !.turn = turn + 1, !.tail
            = "user", !.failed = FALSE]
    BY SessionTyped, MessageEvents DEF Turn!Message
  <2> QED
    BY <2>1 DEF Turn!ExecuteApproved, Turn!Append
<1>2. TurnTyped'
  <2>1. durable' \in Sessions
    BY <1>1, SessionTyped, Reviewed DEF Sessions
  <2>2. durable'.review.status = "none" => durable'.review = Turn!None
    BY <1>1, SessionTyped, Reviewed DEF SessionInv, TurnTyped, Sessions, Reviews
  <2>3. pc' \in Pcs
    BY SessionTyped DEF Turn!ExecuteApproved, SessionInv, TurnTyped, Remembered, Turn!Replayed, Turn!At, Sessions, Pcs,
      Places, Endings, Turn!Modes, Reviews, Turn!None, Turn!Begin, Turn!Idle
  <2> QED
    BY <2>1, <2>2, <2>3 DEF TurnTyped, SessionInv, Turn!ExecuteApproved, Turn!Begin, Turn!Idle
<1>3. RememberedInv'
  BY <1>1, SessionTyped DEF Turn!ExecuteApproved, SessionInv, RememberedInv, Remembered, Turn!Replayed, Turn!At,
    Sessions, Turn!Begin, Turn!Idle
<1>4. TurnInv' /\ PlanInv' /\ KeepsPlan
  BY <1>1, SessionTyped DEF Turn!ExecuteApproved, SessionInv, TurnTyped, TurnInv, PlanInv, Between, Remembered,
    Turn!Replayed, Turn!At, Sessions, Pcs,
     Turn!NotExecuting, Turn!None, KeepsPlan, Turn!Begin, Turn!Idle
<1> QED
  BY <1>2, <1>3, <1>4 DEF SessionInv

LEMMA StartExecutionStep ==
  ASSUME SessionInv, Turn!StartExecution
  PROVE  SessionInv' /\ KeepsPlan
<1>1. durable' = [durable EXCEPT !.reply = FALSE, !.executing = [turn |-> turn, review |-> durable.review], !.review
          = Turn!None,
                                !.graph = IF Turn!Unfinished(durable.graph) THEN Turn!NoGraph ELSE @]
  <2>1. durable.review.status = "approved" /\ memory.graph = durable.graph
    BY DEF Turn!StartExecution, PlanInv, SessionInv, TurnTyped, RememberedInv, Remembered, Turn!Replayed, Turn!At,
      Sessions
  <2>2. Turn!Unfinished(durable.graph) \in BOOLEAN
    BY DEF Turn!Unfinished
  <2>3. Turn!Write(durable, [type |-> "plan.started", turn |-> turn, replaces |-> Turn!Unfinished(durable.graph)])
          = [durable EXCEPT !.reply = FALSE, !.executing = [turn |-> turn, review |-> durable.review], !.review
              = Turn!None,
                            !.graph = IF Turn!Unfinished(durable.graph) THEN Turn!NoGraph ELSE @]
    BY <2>1, <2>2, SessionTyped, ExecutionEvents
  <2> QED
    BY <2>1, <2>3 DEF Turn!StartExecution, Turn!Append
<1>2. TurnTyped'
  <2>1. durable' \in Sessions
    BY <1>1, SessionTyped, Reviewed DEF Sessions
  <2>2. durable'.review.status = "none" => durable'.review = Turn!None
    BY <1>1, SessionTyped, Reviewed DEF SessionInv, TurnTyped, Sessions, Reviews
  <2>3. pc' \in Pcs
    BY SessionTyped DEF Turn!StartExecution, SessionInv, TurnTyped, Remembered, Turn!Replayed, Turn!At, Sessions, Pcs,
      Places, Endings, Turn!Modes, Reviews, Turn!None, Turn!Retire, Turn!GoTo, Turn!Unfinished, Turn!NoGraph
  <2> QED
    BY <2>1, <2>2, <2>3 DEF TurnTyped, SessionInv, Turn!StartExecution, Turn!Retire, Turn!GoTo, Turn!Unfinished,
      Turn!NoGraph
<1>3. RememberedInv'
  <2>1. memory = Turn!Replayed(durable) /\ durable.tail # "refused" /\ durable \in Sessions
    BY SessionTyped DEF Turn!StartExecution, SessionInv, RememberedInv, Remembered, Turn!Replayed, Turn!At
  <2>4. memory' = [mode |-> durable.mode, turn |-> durable.turn, review |-> Turn!None,
                graph |-> IF Turn!Unfinished(durable.graph) THEN Turn!NoGraph
            ELSE durable.graph, control |-> durable.control]
    BY <2>1, SessionTyped, Reviewed DEF Turn!StartExecution, Turn!Replayed, Sessions, Turn!Retire, Turn!GoTo,
      Turn!Unfinished, Turn!NoGraph
  <2>5. Turn!Replayed(durable') = [mode |-> durable'.mode, turn |-> durable'.turn, review |-> durable'.review,
                graph |-> durable'.graph, control |-> durable'.control]
    BY DEF Turn!Replayed
  <2>6. Turn!At("approving")' <=> FALSE
    BY <2>1, SessionTyped DEF Turn!StartExecution, Turn!At, SessionInv, TurnTyped, Pcs, Turn!Retire, Turn!GoTo,
      Turn!Unfinished, Turn!NoGraph
  <2>2. memory' = Remembered'
    BY <1>1, <2>1, <2>4, <2>5, <2>6 DEF Remembered, Sessions, Turn!Unfinished
  <2>3. durable'.tail # "refused"
    BY <1>1, <2>1 DEF Sessions
  <2> QED
    BY <2>2, <2>3 DEF RememberedInv
<1>4. TurnInv' /\ PlanInv' /\ KeepsPlan
  BY <1>1, SessionTyped DEF Turn!StartExecution, SessionInv, TurnTyped, TurnInv, PlanInv, Between, Remembered,
    Turn!Replayed, Turn!At, Sessions, Pcs,
     Turn!NotExecuting, Turn!None, KeepsPlan, Turn!Retire, Turn!GoTo, Turn!Unfinished, Turn!NoGraph
<1> QED
  BY <1>2, <1>3, <1>4 DEF SessionInv

LEMMA ReturnToReviewStep ==
  ASSUME SessionInv, Turn!ReturnToReview
  PROVE  SessionInv' /\ KeepsPlan
<1>0. pc.approved \in Reviews
  BY DEF SessionInv, TurnTyped, Pcs
<1>1. durable' = [durable EXCEPT !.reply = FALSE, !.review = Turn!Awaiting(pc.approved), !.executing
          = Turn!NotExecuting]
  <2>0. durable.turn = turn /\ durable.review = Turn!None /\ durable.executing = [turn |-> turn, review |-> pc.approved]
    BY DEF Turn!ReturnToReview, Turn!GoesBack, TurnInv, PlanInv, Between, SessionInv, TurnTyped, RememberedInv,
      Remembered, Turn!Replayed, Turn!At, Sessions
  <2>1. durable.turn = turn /\ durable.review = Turn!None /\ durable.executing.turn = turn
            /\ durable.executing.review = pc.approved
    BY <2>0
  <2>2. Turn!Write(durable, [type |-> "plan.returned", turn |-> turn])
          = [durable EXCEPT !.reply = FALSE, !.review = Turn!Awaiting(durable.executing.review), !.executing
              = Turn!NotExecuting]
    BY <2>1, SessionTyped, ExecutionEvents
  <2> QED
    BY <2>1, <2>2 DEF Turn!ReturnToReview, Turn!Append
<1>2. TurnTyped'
  <2>1. durable' \in Sessions
    BY <1>1, SessionTyped, Reviewed, <1>0 DEF Sessions
  <2>2. durable'.review.status = "none" => durable'.review = Turn!None
    <3>1. durable'.review = Turn!Awaiting(pc.approved)
      BY <1>1, SessionTyped DEF Sessions
    <3> QED
      BY <1>0, <3>1 DEF Turn!Awaiting, Reviews
  <2>3. pc' \in Pcs
    BY SessionTyped DEF Turn!ReturnToReview, SessionInv, TurnTyped, Remembered, Turn!Replayed, Turn!At, Sessions, Pcs,
      Places, Endings, Turn!Modes, Reviews, Turn!None, Turn!GoesBack, Turn!Awaiting
  <2> QED
    BY <2>1, <2>2, <2>3 DEF TurnTyped, SessionInv, Turn!ReturnToReview, Turn!GoesBack, Turn!Awaiting
<1>3. RememberedInv'
  BY <1>1, SessionTyped DEF Turn!ReturnToReview, SessionInv, RememberedInv, Remembered, Turn!Replayed, Turn!At,
    Sessions, Turn!GoesBack, Turn!Awaiting
<1>4. TurnInv' /\ PlanInv' /\ KeepsPlan
  BY <1>1, SessionTyped DEF Turn!ReturnToReview, SessionInv, TurnTyped, TurnInv, PlanInv, Between, Remembered,
    Turn!Replayed, Turn!At, Sessions, Pcs,
     Turn!NotExecuting, Turn!None, KeepsPlan, Turn!GoesBack, Turn!Awaiting
<1> QED
  BY <1>2, <1>3, <1>4 DEF SessionInv

LEMMA CompleteStep ==
  ASSUME SessionInv, Turn!Complete
  PROVE  SessionInv' /\ KeepsPlan
<1>0. (pc.ending \in Turn!Outcomes) \in BOOLEAN /\ (durable.challenged
          /\ pc.ending \notin {"success", "planned"}) \in BOOLEAN
  OBVIOUS
<1>1. durable' = [durable EXCEPT !.reply = FALSE, !.turn = 0, !.failed = pc.ending \in Turn!Outcomes,
                                !.challenged = @ /\ pc.ending \notin {"success", "planned"}]
  <2>1. pc.ending \in Endings
    BY DEF SessionInv, TurnTyped, Pcs
  <2>2. Turn!Write(durable, [type |-> "turn.completed", reason |-> pc.ending])
          = [durable EXCEPT !.reply = FALSE, !.turn = 0, !.failed = pc.ending \in Turn!Outcomes,
                            !.challenged = @ /\ pc.ending \notin {"success", "planned"}]
    BY <2>1, SessionTyped, SessionEvents
  <2> QED
    BY <2>2 DEF Turn!Complete, Turn!Append
<1>2. TurnTyped'
  <2>1. durable' \in Sessions
    BY <1>1, SessionTyped, Reviewed, <1>0 DEF Sessions
  <2>2. durable'.review.status = "none" => durable'.review = Turn!None
    BY <1>1, SessionTyped, Reviewed, <1>0 DEF SessionInv, TurnTyped, Sessions, Reviews
  <2>3. pc' \in Pcs
    BY SessionTyped DEF Turn!Complete, SessionInv, TurnTyped, Remembered, Turn!Replayed, Turn!At, Sessions, Pcs,
      Places, Endings, Turn!Modes, Reviews, Turn!None, Turn!GoesBack, Turn!Idle, Turn!Outcomes
  <2> QED
    BY <2>1, <2>2, <2>3 DEF TurnTyped, SessionInv, Turn!Complete, Turn!GoesBack, Turn!Idle, Turn!Outcomes
<1>3. RememberedInv'
  BY <1>1, SessionTyped DEF Turn!Complete, SessionInv, RememberedInv, Remembered, Turn!Replayed, Turn!At, Sessions,
    Turn!GoesBack, Turn!Idle, Turn!Outcomes
<1>4. TurnInv' /\ PlanInv' /\ KeepsPlan
  BY <1>1, SessionTyped DEF Turn!Complete, SessionInv, TurnTyped, TurnInv, PlanInv, Between, Remembered, Turn!Replayed,
    Turn!At, Sessions, Pcs,
     Turn!NotExecuting, Turn!None, KeepsPlan, Turn!GoesBack, Turn!Idle, Turn!Outcomes
<1> QED
  BY <1>2, <1>3, <1>4 DEF SessionInv

LEMMA CrashStep ==
  ASSUME SessionInv, Turn!Crash
  PROVE  SessionInv' /\ KeepsPlan
<1>1. durable' = durable
  BY DEF Turn!Crash
<1>2. TurnTyped'
  <2>1. durable' \in Sessions
    BY <1>1, SessionTyped, Reviewed DEF Sessions
  <2>2. durable'.review.status = "none" => durable'.review = Turn!None
    BY <1>1, SessionTyped, Reviewed DEF SessionInv, TurnTyped, Sessions, Reviews
  <2>3. pc' \in Pcs
    BY SessionTyped DEF Turn!Crash, SessionInv, TurnTyped, Remembered, Turn!Replayed, Turn!At, Sessions, Pcs, Places,
      Endings, Turn!Modes, Reviews, Turn!None, Turn!Idle
  <2> QED
    BY <2>1, <2>2, <2>3 DEF TurnTyped, SessionInv, Turn!Crash, Turn!Idle
<1>3. RememberedInv'
  BY <1>1, SessionTyped DEF Turn!Crash, SessionInv, RememberedInv, Remembered, Turn!Replayed, Turn!At, Sessions,
    Turn!Idle
<1>4. TurnInv' /\ PlanInv' /\ KeepsPlan
  BY <1>1, SessionTyped DEF Turn!Crash, SessionInv, TurnTyped, TurnInv, PlanInv, Between, Remembered, Turn!Replayed,
    Turn!At, Sessions, Pcs,
     Turn!NotExecuting, Turn!None, KeepsPlan, Turn!Idle
<1> QED
  BY <1>2, <1>3, <1>4 DEF SessionInv

\* A step within a turn that leaves the plan alone.
LEMMA WithinTurn ==
  ASSUME SessionInv, turn' = turn, ~Between, ~Turn!At("down"),
         pc' \in Pcs, pc'.approved = pc.approved, pc'.at \notin {"idle", "approving", "executing", "down"},
         durable' \in Sessions, durable'.tail # "refused", durable'.turn = durable.turn,
         durable'.review = durable.review, durable'.executing = durable.executing,
         memory' = Turn!Replayed(durable')
  PROVE  SessionInv' /\ KeepsPlan
<1>1. TurnTyped'
  BY DEF SessionInv, TurnTyped
<1>2. RememberedInv'
  <2>1. ~Turn!At("approving")'
    BY DEF Turn!At
  <2>2. Remembered' = Turn!Replayed(durable')
    BY <2>1 DEF Remembered, Turn!Replayed
  <2> QED
    BY <2>2 DEF RememberedInv
<1>3. TurnInv' /\ PlanInv' /\ KeepsPlan
  BY SessionTyped DEF SessionInv, TurnInv, PlanInv, Between, Turn!At, KeepsPlan
<1> QED
  BY <1>1, <1>2, <1>3 DEF SessionInv

\* What the process knows within a turn.
LEMMA Knows ==
  ASSUME SessionInv, ~Turn!At("approving"), ~Turn!At("down")
  PROVE  /\ memory = Turn!Replayed(durable)
         /\ memory.mode = durable.mode /\ memory.turn = durable.turn /\ memory.review = durable.review
         /\ memory.graph = durable.graph /\ memory.control = durable.control
         /\ durable.graph \in Graphs /\ durable.control \in Controls /\ durable.mode \in Turn!Modes
         /\ durable.review \in Reviews /\ durable.turn \in Nat
<1>1. memory = Turn!Replayed(durable)
  BY SessionTyped DEF Remembered, Turn!Replayed
<1> QED
  BY <1>1, SessionTyped DEF Turn!Replayed, Sessions

LEMMA Going ==
  ASSUME SessionInv
  PROVE  /\ pc \in Pcs
         /\ \A where \in Places : Turn!GoTo(where) => pc' \in Pcs /\ pc'.approved = pc.approved /\ pc'.at = where
         /\ \A reason \in Endings : Turn!Finish(reason) => pc' \in Pcs /\ pc'.approved = pc.approved
              /\ pc'.at = "finish"
BY DEF SessionInv, TurnTyped, Pcs, Turn!GoTo, Turn!Finish, Places

LEMMA AnswerDirectlyStep ==
  ASSUME SessionInv, Turn!AnswerDirectly
  PROVE  SessionInv' /\ KeepsPlan
<1>1. ~Between /\ ~Turn!At("approving") /\ ~Turn!At("down") /\ turn' = turn
  BY DEF Turn!AnswerDirectly, Between, Turn!At
<1>2. durable' = [durable EXCEPT !.tail = "final", !.reply = TRUE]
  <2>1. Turn!Write(durable, [type |-> "message.final"]) = [durable EXCEPT !.tail = "final", !.reply = TRUE]
    BY SessionTyped, MessageEvents
  <2> QED
    BY <2>1 DEF Turn!AnswerDirectly, Turn!Append
<1>3. pc' \in Pcs /\ pc'.approved = pc.approved /\ pc'.at \notin {"idle", "approving", "executing", "down"}
  BY Going DEF Turn!AnswerDirectly, Places, Endings
<1>4. durable' \in Sessions /\ durable'.tail # "refused" /\ durable'.turn = durable.turn
      /\ durable'.review = durable.review /\ durable'.executing = durable.executing
  BY <1>2, SessionTyped, Knows DEF Sessions, SessionInv, RememberedInv
<1>5. memory' = Turn!Replayed(durable')
  BY <1>1, <1>2, SessionTyped, Knows DEF Turn!AnswerDirectly, Turn!Replayed, Sessions
<1> QED
  BY <1>1, <1>3, <1>4, <1>5, WithinTurn

LEMMA FinishAtRequestLimitStep ==
  ASSUME SessionInv, Turn!FinishAtRequestLimit
  PROVE  SessionInv' /\ KeepsPlan
<1>1. ~Between /\ ~Turn!At("approving") /\ ~Turn!At("down") /\ turn' = turn
  BY DEF Turn!FinishAtRequestLimit, Between, Turn!At
<1>2. durable' = durable
  BY DEF Turn!FinishAtRequestLimit
<1>3. pc' \in Pcs /\ pc'.approved = pc.approved /\ pc'.at \notin {"idle", "approving", "executing", "down"}
  BY Going DEF Turn!FinishAtRequestLimit, Places, Endings
<1>4. durable' \in Sessions /\ durable'.tail # "refused" /\ durable'.turn = durable.turn
      /\ durable'.review = durable.review /\ durable'.executing = durable.executing
  BY <1>2, SessionTyped, Knows DEF Sessions, SessionInv, RememberedInv
<1>5. memory' = Turn!Replayed(durable')
  BY <1>1, <1>2, SessionTyped, Knows DEF Turn!FinishAtRequestLimit, Turn!Replayed, Sessions
<1> QED
  BY <1>1, <1>3, <1>4, <1>5, WithinTurn

LEMMA FailStep ==
  ASSUME SessionInv, Turn!Fail
  PROVE  SessionInv' /\ KeepsPlan
<1>1. ~Between /\ ~Turn!At("approving") /\ ~Turn!At("down") /\ turn' = turn
  BY DEF Turn!Fail, Between, Turn!At
<1>2. durable' = durable
  BY DEF Turn!Fail
<1>3. pc' \in Pcs /\ pc'.approved = pc.approved /\ pc'.at \notin {"idle", "approving", "executing", "down"}
  BY Going DEF Turn!Fail, Places, Endings
<1>4. durable' \in Sessions /\ durable'.tail # "refused" /\ durable'.turn = durable.turn
      /\ durable'.review = durable.review /\ durable'.executing = durable.executing
  BY <1>2, SessionTyped, Knows DEF Sessions, SessionInv, RememberedInv
<1>5. memory' = Turn!Replayed(durable')
  BY <1>1, <1>2, SessionTyped, Knows DEF Turn!Fail, Turn!Replayed, Sessions
<1> QED
  BY <1>1, <1>3, <1>4, <1>5, WithinTurn

LEMMA PauseOnFaultStep ==
  ASSUME SessionInv, Turn!PauseOnFault
  PROVE  SessionInv' /\ KeepsPlan
<1>1. ~Between /\ ~Turn!At("approving") /\ ~Turn!At("down") /\ turn' = turn
  BY DEF Turn!PauseOnFault, Between, Turn!At
<1>2. durable' = durable
  BY DEF Turn!PauseOnFault
<1>3. pc' \in Pcs /\ pc'.approved = pc.approved /\ pc'.at \notin {"idle", "approving", "executing", "down"}
  BY Going DEF Turn!PauseOnFault, Places, Endings
<1>4. durable' \in Sessions /\ durable'.tail # "refused" /\ durable'.turn = durable.turn
      /\ durable'.review = durable.review /\ durable'.executing = durable.executing
  BY <1>2, SessionTyped, Knows DEF Sessions, SessionInv, RememberedInv
<1>5. memory' = Turn!Replayed(durable')
  BY <1>1, <1>2, SessionTyped, Knows DEF Turn!PauseOnFault, Turn!Replayed, Sessions
<1> QED
  BY <1>1, <1>3, <1>4, <1>5, WithinTurn

LEMMA CorrectStep ==
  ASSUME SessionInv, Turn!Correct
  PROVE  SessionInv' /\ KeepsPlan
<1>1. ~Between /\ ~Turn!At("approving") /\ ~Turn!At("down") /\ turn' = turn
  BY DEF Turn!Correct, Between, Turn!At
<1>2. durable' = [durable EXCEPT !.reply = FALSE, !.tail = "user"]
  <2>1. Turn!Write(durable, [type |-> "message.synthetic"]) = [durable EXCEPT !.reply = FALSE, !.tail = "user"]
    BY SessionTyped, MessageEvents
  <2> QED
    BY <2>1 DEF Turn!Correct, Turn!Append
<1>3. pc' \in Pcs /\ pc'.approved = pc.approved /\ pc'.at \notin {"idle", "approving", "executing", "down"}
  BY Going DEF Turn!Correct, Places, Endings
<1>4. durable' \in Sessions /\ durable'.tail # "refused" /\ durable'.turn = durable.turn
      /\ durable'.review = durable.review /\ durable'.executing = durable.executing
  BY <1>2, SessionTyped, Knows DEF Sessions, SessionInv, RememberedInv
<1>5. memory' = Turn!Replayed(durable')
  BY <1>1, <1>2, SessionTyped, Knows DEF Turn!Correct, Turn!Replayed, Sessions
<1> QED
  BY <1>1, <1>3, <1>4, <1>5, WithinTurn

LEMMA CollectReadyStep ==
  ASSUME SessionInv, Turn!CollectReady
  PROVE  SessionInv' /\ KeepsPlan
<1>1. ~Between /\ ~Turn!At("approving") /\ ~Turn!At("down") /\ turn' = turn
  BY DEF Turn!CollectReady, Between, Turn!At
<1>2. durable' = [durable EXCEPT !.reply = FALSE, !.tail = "user"]
  <2>1. Turn!Write(durable, [type |-> "message.synthetic"]) = [durable EXCEPT !.reply = FALSE, !.tail = "user"]
    BY SessionTyped, MessageEvents
  <2> QED
    BY <2>1 DEF Turn!CollectReady, Turn!Append
<1>3. pc' \in Pcs /\ pc'.approved = pc.approved /\ pc'.at \notin {"idle", "approving", "executing", "down"}
  BY DEF Turn!CollectReady, SessionInv, TurnTyped, Pcs, Places
<1>4. durable' \in Sessions /\ durable'.tail # "refused" /\ durable'.turn = durable.turn
      /\ durable'.review = durable.review /\ durable'.executing = durable.executing
  BY <1>2, SessionTyped, Knows DEF Sessions, SessionInv, RememberedInv
<1>5. memory' = Turn!Replayed(durable')
  BY <1>1, <1>2, SessionTyped, Knows DEF Turn!CollectReady, Turn!Replayed, Sessions
<1> QED
  BY <1>1, <1>3, <1>4, <1>5, WithinTurn

LEMMA ChallengeDeliveryStep ==
  ASSUME SessionInv, Turn!ChallengeDelivery
  PROVE  SessionInv' /\ KeepsPlan
<1>1. ~Between /\ ~Turn!At("approving") /\ ~Turn!At("down") /\ turn' = turn
  BY DEF Turn!ChallengeDelivery, Between, Turn!At
<1>2. durable' = [durable EXCEPT !.reply = FALSE, !.challenged = TRUE, !.tail = "user"]
  <2>1. Turn!Write(durable, [type |-> "challenge"]) = [durable EXCEPT !.reply = FALSE, !.challenged = TRUE, !.tail
            = "user"]
    BY SessionTyped, MessageEvents
  <2> QED
    BY <2>1 DEF Turn!ChallengeDelivery, Turn!Append
<1>3. pc' \in Pcs /\ pc'.approved = pc.approved /\ pc'.at \notin {"idle", "approving", "executing", "down"}
  BY Going DEF Turn!ChallengeDelivery, Places, Endings
<1>4. durable' \in Sessions /\ durable'.tail # "refused" /\ durable'.turn = durable.turn
      /\ durable'.review = durable.review /\ durable'.executing = durable.executing
  BY <1>2, SessionTyped, Knows DEF Sessions, SessionInv, RememberedInv
<1>5. memory' = Turn!Replayed(durable')
  BY <1>1, <1>2, SessionTyped, Knows DEF Turn!ChallengeDelivery, Turn!Replayed, Sessions
<1> QED
  BY <1>1, <1>3, <1>4, <1>5, WithinTurn

LEMMA CloseHistoryStep ==
  ASSUME SessionInv, Turn!CloseHistory
  PROVE  SessionInv' /\ KeepsPlan
<1>1. ~Between /\ ~Turn!At("approving") /\ ~Turn!At("down") /\ turn' = turn
  BY DEF Turn!CloseHistory, Between, Turn!At
<1>2. durable' = [durable EXCEPT !.tail = "final", !.reply = TRUE]
  <2>1. Turn!Write(durable, [type |-> "message.final"]) = [durable EXCEPT !.tail = "final", !.reply = TRUE]
    BY SessionTyped, MessageEvents
  <2> QED
    BY <2>1 DEF Turn!CloseHistory, Turn!Append
<1>3. pc' \in Pcs /\ pc'.approved = pc.approved /\ pc'.at \notin {"idle", "approving", "executing", "down"}
  BY DEF Turn!CloseHistory, Turn!At, SessionInv, TurnTyped
<1>4. durable' \in Sessions /\ durable'.tail # "refused" /\ durable'.turn = durable.turn
      /\ durable'.review = durable.review /\ durable'.executing = durable.executing
  BY <1>2, SessionTyped, Knows DEF Sessions, SessionInv, RememberedInv
<1>5. memory' = Turn!Replayed(durable')
  BY <1>1, <1>2, SessionTyped, Knows DEF Turn!CloseHistory, Turn!Replayed, Sessions
<1> QED
  BY <1>1, <1>3, <1>4, <1>5, WithinTurn

LEMMA CallsStep ==
  ASSUME SessionInv, Turn!Response("calls")
  PROVE  SessionInv' /\ KeepsPlan
<1>1. ~Between /\ ~Turn!At("approving") /\ ~Turn!At("down") /\ turn' = turn
  BY DEF Turn!Response, Between, Turn!At
<1>2. durable' = [durable EXCEPT !.reply = FALSE, !.tail = "calls"]
  <2>1. Turn!Write(durable, [type |-> "message.calls"]) = [durable EXCEPT !.reply = FALSE, !.tail = "calls"]
    BY SessionTyped, MessageEvents
  <2> QED
    BY <2>1 DEF Turn!Response, Turn!RecordAssistantResponse, Turn!Append
<1>3. pc' \in Pcs /\ pc'.approved = pc.approved /\ pc'.at \notin {"idle", "approving", "executing", "down"}
  <2>1. pc \in Pcs /\ pc' = [pc EXCEPT !.at = "calls", !.requests = pc.requests + 1]
    BY DEF Turn!Response, SessionInv, TurnTyped
  <2>2. pc.requests + 1 \in Nat /\ "calls" \in Places
    BY <2>1 DEF Pcs, Places
  <2> QED
    BY <2>1, <2>2 DEF Pcs
<1>4. durable' \in Sessions /\ durable'.tail # "refused" /\ durable'.turn = durable.turn
      /\ durable'.review = durable.review /\ durable'.executing = durable.executing
  BY <1>2, SessionTyped DEF Sessions, SessionInv, RememberedInv
<1>5. memory' = Turn!Replayed(durable')
  BY <1>1, <1>2, SessionTyped, Knows DEF Turn!Response, Turn!Replayed, Sessions
<1> QED
  BY <1>1, <1>3, <1>4, <1>5, WithinTurn

LEMMA FinalStep ==
  ASSUME SessionInv, Turn!Response("final")
  PROVE  SessionInv' /\ KeepsPlan
<1>1. ~Between /\ ~Turn!At("approving") /\ ~Turn!At("down") /\ turn' = turn
  BY DEF Turn!Response, Between, Turn!At
<1>2. durable' = [durable EXCEPT !.tail = "final", !.reply = TRUE]
  <2>1. Turn!Write(durable, [type |-> "message.final"]) = [durable EXCEPT !.tail = "final", !.reply = TRUE]
    BY SessionTyped, MessageEvents
  <2> QED
    BY <2>1 DEF Turn!Response, Turn!RecordAssistantResponse, Turn!Append
<1>3. pc' \in Pcs /\ pc'.approved = pc.approved /\ pc'.at \notin {"idle", "approving", "executing", "down"}
  <2>1. pc \in Pcs /\ pc' = [pc EXCEPT !.at = "final", !.requests = pc.requests + 1]
    BY DEF Turn!Response, SessionInv, TurnTyped
  <2>2. pc.requests + 1 \in Nat /\ "final" \in Places
    BY <2>1 DEF Pcs, Places
  <2> QED
    BY <2>1, <2>2 DEF Pcs
<1>4. durable' \in Sessions /\ durable'.tail # "refused" /\ durable'.turn = durable.turn
      /\ durable'.review = durable.review /\ durable'.executing = durable.executing
  BY <1>2, SessionTyped DEF Sessions, SessionInv, RememberedInv
<1>5. memory' = Turn!Replayed(durable')
  BY <1>1, <1>2, SessionTyped, Knows DEF Turn!Response, Turn!Replayed, Sessions
<1> QED
  BY <1>1, <1>3, <1>4, <1>5, WithinTurn

LEMMA RouteStep ==
  ASSUME SessionInv, Turn!Route
  PROVE  SessionInv' /\ KeepsPlan
<1>1. ~Between /\ ~Turn!At("approving") /\ ~Turn!At("down") /\ turn' = turn
  BY DEF Turn!Route, Between, Turn!At
<1>2. durable.turn = turn
  BY <1>1 DEF SessionInv, TurnInv
<1>3. pc' \in Pcs /\ pc'.approved = pc.approved /\ pc'.at \notin {"idle", "approving", "executing", "down"}
  <2>1. CASE memory.mode # "auto"
    <3>1. Turn!GoTo("step")
      BY <2>1 DEF Turn!Route
    <3> QED
      BY <3>1, Going DEF Places
  <2>2. CASE memory.mode = "auto"
    <3>1. PICK mode \in Turn!Routes : pc' = [pc EXCEPT !.at = "step", !.mode = mode]
      BY <2>2 DEF Turn!Route
    <3> QED
      BY <3>1 DEF SessionInv, TurnTyped, Pcs, Places, Turn!Routes, Turn!Modes
  <2> QED
    BY <2>1, <2>2
<1>4. CASE memory.mode # "auto"
  <2>1. durable' = durable /\ memory' = memory
    BY <1>4 DEF Turn!Route
  <2> QED
    BY <1>1, <1>3, <2>1, SessionTyped, Knows, WithinTurn DEF SessionInv, RememberedInv
<1>5. CASE memory.mode = "auto"
  <2>1. PICK mode \in Turn!Routes :
           /\ Turn!Append([type |-> "mode.auto_route", turn |-> turn, mode |-> mode])
           /\ memory' = [memory EXCEPT !.mode = mode]
    BY <1>5 DEF Turn!Route
  <2>2. mode \in Turn!Modes
    BY DEF Turn!Routes, Turn!Modes
  <2>3. durable.mode = "auto"
    BY <1>1, <1>5, Knows
  <2>4. Turn!Write(durable, [type |-> "mode.auto_route", turn |-> turn, mode |-> mode])
          = [durable EXCEPT !.reply = FALSE, !.mode = mode]
    BY <1>2, <2>2, <2>3, SessionTyped, SessionEvents
  <2>5. durable' = [durable EXCEPT !.reply = FALSE, !.mode = mode]
    BY <2>1, <2>4 DEF Turn!Append
  <2>6. durable' \in Sessions /\ durable'.tail # "refused" /\ durable'.turn = durable.turn
        /\ durable'.review = durable.review /\ durable'.executing = durable.executing
    BY <2>2, <2>5, SessionTyped DEF Sessions, SessionInv, RememberedInv
  <2>7. memory' = Turn!Replayed(durable')
    BY <1>1, <2>1, <2>5, SessionTyped, Knows DEF Turn!Replayed, Sessions
  <2> QED
    BY <1>1, <1>3, <2>6, <2>7, WithinTurn
<1> QED
  BY <1>4, <1>5

LEMMA BatchStep ==
  ASSUME SessionInv, Turn!Batch
  PROVE  SessionInv' /\ KeepsPlan
<1>1. ~Between /\ ~Turn!At("approving") /\ ~Turn!At("down") /\ turn' = turn
  BY DEF Turn!Batch, Between, Turn!At
<1>2. PICK dag \in {memory.graph}
                  \cup (IF ~Turn!Unfinished(memory.graph) /\ memory.graph.turn # turn
                      THEN {[status |-> "active", turn |-> turn]} ELSE {})
                  \cup (IF Turn!Unfinished(memory.graph)
                        THEN {[memory.graph EXCEPT !.status = s] : s \in {"active", "blocked", "completed"}} ELSE {}),
            work \in SUBSET Turn!Work, where \in Places :
       /\ Turn!Append([type |-> "tool.result", graph |-> dag])
       /\ memory' = [memory EXCEPT !.graph = dag]
       /\ pc' = [pc EXCEPT !.at = where, !.work = work]
       /\ where \in {"step", "asked", "refused"}
  BY DEF Turn!Batch, Places
<1>6. dag \in Graphs
  <2>1. memory.graph \in Graphs
    BY <1>1, Knows
  <2> QED
    BY <1>2, <2>1, SessionTyped DEF Graphs
<1>7. durable' = [durable EXCEPT !.reply = FALSE, !.tail = "user", !.graph = dag]
  <2>1. Turn!Write(durable, [type |-> "tool.result", graph |-> dag]) = [durable EXCEPT !.reply = FALSE, !.tail
            = "user", !.graph = dag]
    BY <1>6, SessionTyped, SessionEvents
  <2> QED
    BY <1>2, <2>1 DEF Turn!Append
<1>3. pc' \in Pcs /\ pc'.approved = pc.approved /\ pc'.at \notin {"idle", "approving", "executing", "down"}
  BY <1>2 DEF SessionInv, TurnTyped, Pcs
<1>4. durable' \in Sessions /\ durable'.tail # "refused" /\ durable'.turn = durable.turn
      /\ durable'.review = durable.review /\ durable'.executing = durable.executing
  BY <1>6, <1>7, SessionTyped DEF Sessions, SessionInv, RememberedInv
<1>5. memory' = Turn!Replayed(durable')
  BY <1>1, <1>2, <1>7, SessionTyped, Knows DEF Turn!Replayed, Sessions
<1> QED
  BY <1>1, <1>3, <1>4, <1>5, WithinTurn

LEMMA RejectIncompleteOutputStep ==
  ASSUME SessionInv, Turn!RejectIncompleteOutput
  PROVE  SessionInv' /\ KeepsPlan
<1>1. ~Between /\ ~Turn!At("approving") /\ ~Turn!At("down") /\ turn' = turn
  BY DEF Turn!RejectIncompleteOutput, Between, Turn!At
<1>2. durable' = [durable EXCEPT !.reply = FALSE, !.tail = "user"]
  <2> DEFINE answered == IF Turn!At("calls") THEN Turn!Write(durable, [type |-> "tool.result",
              graph |-> memory.graph]) ELSE durable
  <2>1. memory.graph = durable.graph /\ durable.graph \in Graphs
    BY <1>1, Knows
  <2>2. Turn!Write(durable, [type |-> "tool.result", graph |-> durable.graph]) = [durable EXCEPT !.reply
            = FALSE, !.tail = "user"]
    <3>1. Turn!Write(durable, [type |-> "tool.result", graph |-> durable.graph])
            = [durable EXCEPT !.reply = FALSE, !.tail = "user", !.graph = durable.graph]
      BY <2>1, SessionTyped, SessionEvents
    <3> QED
      BY <3>1, SessionTyped DEF Sessions
  <2>3. answered \in Sessions
    BY <2>1, <2>2, SessionTyped DEF Sessions
  <2>4. Turn!Write(answered, [type |-> "message.synthetic"]) = [answered EXCEPT !.reply = FALSE, !.tail = "user"]
    BY <2>3, MessageEvents
  <2>5. [answered EXCEPT !.reply = FALSE, !.tail = "user"] = [durable EXCEPT !.reply = FALSE, !.tail = "user"]
    BY <2>1, <2>2, SessionTyped DEF Sessions
  <2> QED
    BY <2>4, <2>5 DEF Turn!RejectIncompleteOutput
<1>3. pc' \in Pcs /\ pc'.approved = pc.approved /\ pc'.at \notin {"idle", "approving", "executing", "down"}
  BY Going DEF Turn!RejectIncompleteOutput, Places, Endings
<1>4. durable' \in Sessions /\ durable'.tail # "refused" /\ durable'.turn = durable.turn
      /\ durable'.review = durable.review /\ durable'.executing = durable.executing
  BY <1>2, SessionTyped DEF Sessions, SessionInv, RememberedInv
<1>5. memory' = Turn!Replayed(durable')
  BY <1>1, <1>2, SessionTyped, Knows DEF Turn!RejectIncompleteOutput, Turn!Replayed, Sessions
<1> QED
  BY <1>1, <1>3, <1>4, <1>5, WithinTurn

LEMMA RejectCompletionStep ==
  ASSUME SessionInv, Turn!RejectCompletion
  PROVE  SessionInv' /\ KeepsPlan
<1>1. ~Between /\ ~Turn!At("approving") /\ ~Turn!At("down") /\ turn' = turn
  BY DEF Turn!RejectCompletion, Between, Turn!At
<1>2. PICK open \in {Turn!Obligations, pc.work \cup {"background_commands"}} :
       /\ Turn!Append([type |-> "completion.rejected", open |-> open, attempt |-> Turn!Attempt(open)])
       /\ memory' = [memory EXCEPT !.control = [open |-> open, attempts |-> Turn!Attempt(open)]]
       /\ IF Turn!Attempt(open) <= Corrections THEN Turn!GoTo("corrected") ELSE Turn!Finish("paused")
  BY DEF Turn!RejectCompletion
<1>6. open \in SUBSET (Turn!Work \cup {"planning_dag"}) /\ Turn!Attempt(open) \in Nat
  <2>1. pc.work \in SUBSET Turn!Work /\ "background_commands" \in Turn!Work
    BY DEF SessionInv, TurnTyped, Pcs, Turn!Work
  <2>2. open \in SUBSET (Turn!Work \cup {"planning_dag"})
    BY <2>1 DEF Turn!Obligations
  <2>3. memory.control \in Controls
    BY <1>1, Knows
  <2> QED
    BY <2>2, <2>3 DEF Turn!Attempt, Controls
<1>7. durable' = [durable EXCEPT !.reply = FALSE, !.control = [open |-> open, attempts |-> Turn!Attempt(open)]]
  <2>1. Turn!Attempt(open) = IF durable.control.open = open THEN durable.control.attempts + 1 ELSE 1
    BY <1>1, Knows DEF Turn!Attempt
  <2>2. Turn!Write(durable, [type |-> "completion.rejected", open |-> open, attempt |-> Turn!Attempt(open)])
          = [durable EXCEPT !.reply = FALSE, !.control = [open |-> open, attempts |-> Turn!Attempt(open)]]
    BY <1>6, <2>1, SessionTyped, CompletionEvents
  <2> QED
    BY <1>2, <2>2 DEF Turn!Append
<1>3. pc' \in Pcs /\ pc'.approved = pc.approved /\ pc'.at \notin {"idle", "approving", "executing", "down"}
  BY <1>2, Going DEF Places, Endings
<1>4. durable' \in Sessions /\ durable'.tail # "refused" /\ durable'.turn = durable.turn
      /\ durable'.review = durable.review /\ durable'.executing = durable.executing
  <2>1. [open |-> open, attempts |-> Turn!Attempt(open)] \in Controls
    BY <1>6 DEF Controls
  <2> QED
    BY <1>7, <2>1, SessionTyped DEF Sessions, SessionInv, RememberedInv
<1>5. memory' = Turn!Replayed(durable')
  BY <1>1, <1>2, <1>7, SessionTyped, Knows DEF Turn!Replayed, Sessions
<1> QED
  BY <1>1, <1>3, <1>4, <1>5, WithinTurn

LEMMA PassGateStep ==
  ASSUME SessionInv, Turn!PassGate
  PROVE  SessionInv' /\ KeepsPlan
<1>1. ~Between /\ ~Turn!At("approving") /\ ~Turn!At("down") /\ turn' = turn
  BY DEF Turn!PassGate, Between, Turn!At
<1>2. durable' = IF durable.control = Turn!NoControl THEN durable ELSE [durable EXCEPT !.reply = FALSE, !.control
          = Turn!NoControl]
  <2>1. Turn!Write(durable, [type |-> "completion.resolved", open |-> durable.control.open])
          = [durable EXCEPT !.reply = FALSE, !.control = Turn!NoControl]
    BY SessionTyped, CompletionEvents
  <2> QED
    BY <1>1, <2>1, Knows DEF Turn!PassGate, Turn!Append
<1>3. pc' \in Pcs /\ pc'.approved = pc.approved /\ pc'.at \notin {"idle", "approving", "executing", "down"}
  <2>1. Turn!GoTo("resolved")
    BY DEF Turn!PassGate
  <2> QED
    BY <2>1, Going DEF Places
<1>4. durable' \in Sessions /\ durable'.tail # "refused" /\ durable'.turn = durable.turn
      /\ durable'.review = durable.review /\ durable'.executing = durable.executing
  BY <1>2, SessionTyped, Reviewed DEF Sessions, SessionInv, RememberedInv
<1>5. memory' = Turn!Replayed(durable')
  BY <1>1, <1>2, SessionTyped, Knows DEF Turn!PassGate, Turn!Replayed, Sessions
<1> QED
  BY <1>1, <1>3, <1>4, <1>5, WithinTurn

LEMMA SealStep ==
  ASSUME SessionInv, Turn!Seal
  PROVE  SessionInv' /\ KeepsPlan
<1>1. ~Between /\ ~Turn!At("approving") /\ ~Turn!At("down") /\ turn' = turn
  BY DEF Turn!Seal, Between, Turn!At
<1>2. \/ durable' = [durable EXCEPT !.reply = FALSE, !.tail = "user"]
      \/ durable' = [durable EXCEPT !.reply = FALSE]
  BY SessionTyped, MessageEvents DEF Turn!Seal, Turn!Append
<1>3. pc' \in Pcs /\ pc'.approved = pc.approved /\ pc'.at \notin {"idle", "approving", "executing", "down"}
  BY Going DEF Turn!Seal, Places, Endings
<1>4. durable' \in Sessions /\ durable'.tail # "refused" /\ durable'.turn = durable.turn
      /\ durable'.review = durable.review /\ durable'.executing = durable.executing
  BY <1>2, SessionTyped DEF Sessions, SessionInv, RememberedInv
<1>5. memory' = Turn!Replayed(durable')
  BY <1>1, <1>2, SessionTyped, Knows DEF Turn!Seal, Turn!Replayed, Sessions
<1> QED
  BY <1>1, <1>3, <1>4, <1>5, WithinTurn

LEMMA ProposePlanStep ==
  ASSUME SessionInv, Turn!ProposePlan
  PROVE  SessionInv' /\ KeepsPlan
<1>1. /\ ~Between /\ ~Turn!At("approving") /\ ~Turn!At("down") /\ ~Turn!At("executing") /\ turn' = turn
      /\ memory' = [memory EXCEPT !.review = Turn!Proposal(memory)] /\ memory.review.status # "approved"
  BY DEF Turn!ProposePlan, Between, Turn!At
<1>2. memory.review = durable.review /\ durable.review \in Reviews /\ turn \in Nat
  BY <1>1, Knows, SessionTyped
<1>3. Turn!Proposal(memory) \in Reviews /\ Turn!Proposal(memory).status = "awaiting"
  <2>1. CASE memory.review = Turn!None
    BY <1>2, <2>1 DEF Turn!Proposal, Reviews
  <2>2. CASE memory.review # Turn!None
    <3>1. Turn!Proposal(memory) = [durable.review EXCEPT !.status = "awaiting", !.rev = durable.review.rev + 1]
      BY <1>2, <2>2 DEF Turn!Proposal
    <3>2. PICK r \in Reviews : r = durable.review
      BY <1>2
    <3>3. r.rev + 1 \in Nat /\ r.plan \in Nat
      BY DEF Reviews
    <3>4. Turn!Proposal(memory) = [status |-> "awaiting", plan |-> r.plan, rev |-> r.rev + 1]
      BY <3>1, <3>2 DEF Reviews
    <3> QED
      BY <3>3, <3>4 DEF Reviews
  <2> QED
    BY <2>1, <2>2
<1>4. \/ durable.review = Turn!None /\ Turn!Proposal(memory).rev = 1 /\ Turn!Proposal(memory).plan = turn
      \/ /\ durable.review # Turn!None /\ durable.review.status = "awaiting"
         /\ Turn!Proposal(memory).plan = durable.review.plan /\ Turn!Proposal(memory).rev = durable.review.rev + 1
  <2>1. CASE memory.review = Turn!None
    BY <1>2, <2>1 DEF Turn!Proposal
  <2>2. CASE memory.review # Turn!None
    <3>1. durable.review.status = "awaiting"
      BY <1>1, <1>2, <2>2 DEF SessionInv, TurnTyped, Reviews
    <3>2. Turn!Proposal(memory) = [durable.review EXCEPT !.status = "awaiting", !.rev = durable.review.rev + 1]
      BY <1>2, <2>2 DEF Turn!Proposal
    <3>3. Turn!Proposal(memory).plan = durable.review.plan /\ Turn!Proposal(memory).rev = durable.review.rev + 1
      BY <1>2, <3>2 DEF Reviews
    <3> QED
      BY <1>2, <2>2, <3>1, <3>3
  <2> QED
    BY <2>1, <2>2
<1>5. durable' = [durable EXCEPT !.reply = FALSE, !.review = Turn!Proposal(memory), !.tail = IF @ = "calls"
          THEN "user" ELSE @]
  <2>1. Turn!Write(durable, [type |-> "plan.proposed", review |-> Turn!Proposal(memory)])
          = [durable EXCEPT !.reply = FALSE, !.review = Turn!Proposal(memory), !.tail = IF @ = "calls" THEN "user"
              ELSE @]
    BY <1>3, <1>4, SessionTyped, ProposalEvent
  <2> QED
    BY <2>1 DEF Turn!ProposePlan, Turn!Append
<1>6. /\ durable' \in Sessions /\ durable'.tail # "refused" /\ durable'.turn = durable.turn
      /\ durable'.review = Turn!Proposal(memory) /\ durable'.executing = durable.executing
  BY <1>3, <1>5, SessionTyped DEF Sessions, SessionInv, RememberedInv
<1>7. pc' \in Pcs /\ pc'.approved = pc.approved /\ pc'.at \in {"proposed", "finish"}
  BY Going DEF Turn!ProposePlan, Places, Endings
<1>8. TurnTyped'
  BY <1>1, <1>2, <1>3, <1>6, <1>7 DEF TurnTyped
<1>9. RememberedInv'
  <2>1. memory' = Turn!Replayed(durable')
    BY <1>1, <1>5, SessionTyped, Knows DEF Turn!Replayed, Sessions
  <2>2. Remembered' = Turn!Replayed(durable')
    BY <1>7 DEF Remembered, Turn!Replayed, Turn!At
  <2> QED
    BY <1>6, <2>1, <2>2 DEF RememberedInv
<1>10. TurnInv' /\ PlanInv' /\ KeepsPlan
  <2>1. /\ ~Between' /\ ~Turn!At("down")' /\ ~Turn!At("executing")'
    BY <1>7 DEF Between, Turn!At
  <2>2. durable.turn = turn /\ turn > 0
    BY <1>1 DEF SessionInv, TurnInv
  <2> QED
    BY <1>1, <1>4, <1>6, <1>7, <2>1, <2>2 DEF SessionInv, TurnInv, PlanInv, KeepsPlan
<1> QED
  BY <1>8, <1>9, <1>10 DEF SessionInv

LEMMA RepairStep ==
  ASSUME SessionInv, Turn!RepairInterruptedTurn
  PROVE  SessionInv' /\ KeepsPlan
<1>1. durable' = IF durable.turn = 0 THEN durable ELSE Turn!Recovered(durable, Turn!Recovery)
  BY DEF Turn!RepairInterruptedTurn, Turn!Fold, Turn!Recovery
<1>2. /\ memory' = Turn!Replayed(durable') /\ turn' = turn /\ Turn!At("down")
      /\ \E work \in SUBSET Turn!Work : pc' = [Turn!Idle EXCEPT !.work = work]
  BY DEF Turn!RepairInterruptedTurn
<1>3. pc' \in Pcs /\ pc'.at = "idle" /\ pc'.approved = Turn!None
  BY <1>2, Reviewed DEF Pcs, Turn!Idle, Places, Endings, Turn!Modes
<1>4. /\ durable' \in Sessions /\ durable'.tail # "refused" /\ durable'.turn = 0
      /\ durable'.review.status = "none" => durable'.review = Turn!None
      /\ durable'.executing = durable.executing \/ durable'.executing.turn = 0
      /\ durable.turn # 0 /\ durable.executing.turn = durable.turn => durable'.executing.turn = 0
      /\ durable.turn = 0 \/ durable.executing.turn # durable.turn => durable'.executing = durable.executing
  <2>1. CASE durable.turn = 0
    BY <1>1, <2>1, SessionTyped DEF SessionInv, TurnTyped, RememberedInv
  <2>2. CASE durable.turn # 0 /\ durable.executing.turn = durable.turn
    <3>1. durable' = [durable EXCEPT !.turn = 0, !.failed = TRUE, !.tail = "final", !.reply = FALSE,
                                    !.review = Turn!Awaiting(durable.executing.review), !.executing = Turn!NotExecuting]
      BY <1>1, <2>2, SessionTyped DEF Turn!Recovered, Turn!Recovery, Sessions
    <3>2. Turn!Awaiting(durable.executing.review) \in Reviews /\ Turn!Awaiting(durable.executing.review).status
              = "awaiting"
      BY SessionTyped DEF Sessions, Turn!Awaiting, Reviews
    <3>3. Turn!NotExecuting \in [turn : Nat, review : Reviews] /\ Turn!NotExecuting.turn = 0
      BY Reviewed DEF Turn!NotExecuting
    <3> QED
      BY <2>2, <3>1, <3>2, <3>3, SessionTyped DEF Sessions
  <2>3. CASE durable.turn # 0 /\ durable.executing.turn # durable.turn
    <3>1. durable' = [durable EXCEPT !.turn = 0, !.failed = TRUE, !.tail = "final", !.reply = FALSE]
      BY <1>1, <2>3, SessionTyped DEF Turn!Recovered, Turn!Recovery, Sessions
    <3>2. durable.review.status = "none" => durable.review = Turn!None
      BY DEF SessionInv, TurnTyped
    <3> QED
      BY <2>3, <3>1, <3>2, SessionTyped DEF Sessions
  <2> QED
    BY <2>1, <2>2, <2>3
<1>5. TurnTyped'
  BY <1>2, <1>3, <1>4, SessionTyped DEF TurnTyped
<1>6. RememberedInv'
  <2>1. Remembered' = Turn!Replayed(durable')
    BY <1>3 DEF Remembered, Turn!Replayed, Turn!At
  <2> QED
    BY <1>2, <1>4, <2>1 DEF RememberedInv
<1>7. TurnInv' /\ PlanInv'
  <2>1. Between' /\ ~Turn!At("executing")'
    BY <1>3 DEF Between, Turn!At
  <2>2. durable'.executing.turn <= turn
    BY <1>4, SessionTyped DEF SessionInv, PlanInv
  <2> QED
    BY <1>2, <1>3, <1>4, <2>1, <2>2 DEF TurnInv, PlanInv
<1>8. KeepsPlan
  BY <1>4 DEF KeepsPlan
<1> QED
  BY <1>5, <1>6, <1>7, <1>8 DEF SessionInv

LEMMA NothingChanges ==
  ASSUME SessionInv, UNCHANGED Turn!vars
  PROVE  SessionInv' /\ KeepsPlan
BY DEF Turn!vars, SessionInv, TurnTyped, RememberedInv, Remembered, Turn!Replayed, TurnInv, PlanInv, Between, Turn!At,
  KeepsPlan

LEMMA NextSession ==
  ASSUME SessionInv, [Turn!Next]_(Turn!vars)
  PROVE  SessionInv' /\ KeepsPlan
<1>1. CASE Turn!SubmitUserMessage BY <1>1, SubmitUserMessageStep
<1>2. CASE Turn!Adjust BY <1>2, AdjustStep
<1>3. CASE Turn!Approve \/ Turn!SaveApproval BY <1>3, ApproveStep, SaveApprovalStep
<1>4. CASE Turn!Reject \/ Turn!SwitchMode BY <1>4, RejectStep, SwitchModeStep
<1>5. CASE Turn!ExecuteApproved \/ Turn!StartExecution BY <1>5, ExecuteApprovedStep, StartExecutionStep
<1>6. CASE Turn!Route \/ Turn!AnswerDirectly BY <1>6, RouteStep, AnswerDirectlyStep
<1>7. CASE Turn!Response("calls") \/ Turn!Response("final") BY <1>7, CallsStep, FinalStep
<1>8. CASE Turn!FinishAtRequestLimit \/ Turn!Fail \/ Turn!PauseOnFault
  BY <1>8, FinishAtRequestLimitStep, FailStep, PauseOnFaultStep
<1>9. CASE Turn!Batch \/ Turn!ProposePlan BY <1>9, BatchStep, ProposePlanStep
<1>10. CASE Turn!RejectIncompleteOutput \/ Turn!RejectCompletion
  BY <1>10, RejectIncompleteOutputStep, RejectCompletionStep
<1>11. CASE Turn!Correct \/ Turn!CollectReady BY <1>11, CorrectStep, CollectReadyStep
<1>12. CASE Turn!PassGate \/ Turn!ChallengeDelivery \/ Turn!Seal BY <1>12, PassGateStep, ChallengeDeliveryStep, SealStep
<1>13. CASE Turn!ReturnToReview \/ Turn!CloseHistory \/ Turn!Complete
  BY <1>13, ReturnToReviewStep, CloseHistoryStep, CompleteStep
<1>14. CASE Turn!Crash \/ Turn!RepairInterruptedTurn BY <1>14, CrashStep, RepairStep
<1>15. CASE Turn!RefuseRecovery BY <1>15, NothingChanges DEF Turn!RefuseRecovery
<1>16. CASE UNCHANGED Turn!vars BY <1>16, NothingChanges
<1> QED
  BY <1>1, <1>2, <1>3, <1>4, <1>5, <1>6, <1>7, <1>8, <1>9, <1>10, <1>11, <1>12, <1>13, <1>14, <1>15, <1>16 DEF Turn!Next

LEMMA SessionIsReplayed ==
  ASSUME SessionInv
  PROVE  Turn!MemoryIsReplayed
BY Knows DEF SessionInv, RememberedInv, Turn!MemoryIsReplayed, Turn!At

-----------------------------------------------------------------------------
(* Searches of the conversation *)

RowSet == [kind : {"message", "summary"}, at : Nat, text : Nat]
Indexes == [generation : Nat, of : SUBSET RowSet]
QuerySet == [at : {"idle", "looking", "building", "scoring", "answered"}, tries : Nat, index : Indexes, waits : BOOLEAN]
IndexTyped ==
  /\ history \in Seq(Nat) /\ saved \in Seq(Nat) /\ said \in Nat /\ limits \in Nat
  /\ summary \in [id : Nat, end : Nat]
  /\ checkpoint \in [count : Nat, summary : Nat, limits : Nat]
  /\ rows \in SUBSET RowSet /\ IsFiniteSet(rows) /\ embedded \in SUBSET RowSet /\ backfill \in SUBSET RowSet
  /\ generation \in Nat /\ cached \in Indexes
  /\ build \in [owner : SUBSET Agents, index : Indexes]
  /\ query \in [Agents -> QuerySet]
  /\ flow \in {"idle", "checking", "searching"} /\ dropped \in BOOLEAN

\* An index of the generation of the tables holds the embeddings there are.
Faithful(i) == i.generation <= generation /\ (i.generation = generation => i.of = Index!Current)
IndexesInv ==
  /\ Faithful(Index!NoIndex) /\ Faithful(cached) /\ Faithful(build.index)
  /\ \A q \in Agents : Faithful(query[q].index)

\* What the checkpoint says is indexed has its rows.
Messages(S) == {r \in S : r.kind = "message"}
RowsInv == dropped
     \/ (checkpoint.count <= Len(history) /\ Messages(rows) = {Index!Row(i) : i \in 1 .. checkpoint.count})
SummaryInv ==
  /\ summary.id <= said /\ checkpoint.summary <= said
  /\ summary.id # 0 /\ checkpoint.summary = summary.id => Index!SummaryRow \in rows

\* Searches go on while the conversation is checked in, and stays as it is.
SearchInv ==
  /\ flow = "searching" => Index!KnowsHistory \/ dropped
  /\ flow # "searching" => \A q \in Agents : query[q].at = "idle"
  /\ flow = "checking" => history # <<>>

EvidenceInv == IndexTyped /\ IndexesInv /\ RowsInv /\ SummaryInv /\ SearchInv

KnownWhenAsked == \A q \in Agents : Index!Begun(q) => query'[q].index.of = Index!Current
     /\ (Index!KnowsHistory \/ dropped)

-----------------------------------------------------------------------------
LEMMA QuietTyped == Index!Quiet \in QuerySet /\ Index!NoIndex \in Indexes
     /\ Index!NoBuild \in [owner : SUBSET Agents, index : Indexes]
<1>1. Index!NoIndex \in Indexes
  BY DEF Index!NoIndex, Indexes
<1>2. QED
  BY <1>1 DEF Index!Quiet, QuerySet, Index!NoBuild

LEMMA InitEvidence == Index!Init => EvidenceInv
<1> SUFFICES ASSUME Index!Init PROVE EvidenceInv
  OBVIOUS
<1> USE DEF Index!Init
<1>1. IsFiniteSet(rows)
  BY FS_EmptySet
<1>2. IndexTyped
  <2>1. summary \in [id : Nat, end : Nat] /\ checkpoint \in [count : Nat, summary : Nat, limits : Nat]
    BY DEF Index!NoSummary, Index!Unchecked
  <2>2. query \in [Agents -> QuerySet] /\ cached \in Indexes /\ build \in [owner : SUBSET Agents, index : Indexes]
    BY QuietTyped
  <2>3. history \in Seq(Nat) /\ saved \in Seq(Nat) /\ said \in Nat /\ limits \in Nat /\ generation \in Nat
    OBVIOUS
  <2>4. QED
    BY <1>1, <2>1, <2>2, <2>3 DEF IndexTyped
<1>3. Index!Current = {}
  BY DEF Index!Current
<1>4. Faithful(Index!NoIndex)
  BY <1>3 DEF Faithful, Index!NoIndex
<1>5. build.index = Index!NoIndex /\ \A q \in Agents : query[q].index = Index!NoIndex /\ query[q].at = "idle"
  BY DEF Index!NoBuild, Index!Quiet
<1>6. IndexesInv
  BY <1>4, <1>5 DEF IndexesInv
<1>7. RowsInv /\ SummaryInv
  <2>1. checkpoint.count = 0 /\ checkpoint.summary = 0 /\ summary.id = 0 /\ Len(history) = 0
    BY DEF Index!Unchecked, Index!NoSummary
  <2>2. QED
    BY <2>1 DEF RowsInv, SummaryInv, Messages
<1>8. SearchInv
  BY <1>5 DEF SearchInv
<1>9. QED
  BY <1>2, <1>6, <1>7, <1>8 DEF EvidenceInv

\* The tables do not change without their generation.
Advances == generation' \in Nat /\ generation' >= generation
     /\ (generation' = generation => Index!Current' = Index!Current)

LEMMA StaysFaithful ==
  ASSUME IndexTyped, Advances, NEW i \in Indexes, Faithful(i)
  PROVE  i.generation <= generation' /\ (i.generation = generation' => i.of = Index!Current')
BY DEF IndexTyped, Indexes, Advances, Faithful

LEMMA SameTables ==
  ASSUME IndexTyped, UNCHANGED <<rows, embedded, generation>>
  PROVE  Advances
BY DEF IndexTyped, Advances, Index!Current

\* No index is new, but for copies of those there were.
LEMMA IndexesStay ==
  ASSUME EvidenceInv, Advances, cached' \in {cached, Index!NoIndex}, build' \in {build, Index!NoBuild},
         \A q \in Agents : query'[q].index \in {query[q].index, Index!NoIndex}
  PROVE  IndexesInv'
<1>1. /\ Index!NoIndex \in Indexes /\ cached \in Indexes /\ build.index \in Indexes
      /\ \A q \in Agents : query[q].index \in Indexes
  BY QuietTyped DEF EvidenceInv, IndexTyped, QuerySet
<1>2. Faithful(Index!NoIndex) /\ Faithful(cached) /\ Faithful(build.index) /\ \A q \in Agents : Faithful(query[q].index)
  BY DEF EvidenceInv, IndexesInv
<1>3. build'.index \in {build.index, Index!NoIndex}
  BY DEF Index!NoBuild
<1>4. \A i \in Indexes : Faithful(i) => i.generation <= generation' /\ (i.generation = generation' => i.of
          = Index!Current')
  BY StaysFaithful DEF EvidenceInv
<1>5. Index!NoIndex.generation <= generation' /\ (Index!NoIndex.generation = generation' => Index!NoIndex.of
          = Index!Current')
  BY <1>1, <1>2, <1>4
<1>6. cached'.generation <= generation' /\ (cached'.generation = generation' => cached'.of = Index!Current')
  BY <1>1, <1>2, <1>4
<1>7. build'.index.generation <= generation' /\ (build'.index.generation = generation' => build'.index.of
          = Index!Current')
  BY <1>1, <1>2, <1>3, <1>4
<1>8. \A q \in Agents : query'[q].index.generation <= generation'
                      /\ (query'[q].index.generation = generation' => query'[q].index.of = Index!Current')
  BY <1>1, <1>2, <1>4
<1>9. QED
  BY <1>5, <1>6, <1>7, <1>8 DEF IndexesInv, Faithful, Index!NoIndex

\* Nobody begins to score.
LEMMA NoneBegins ==
  ASSUME \A q \in Agents : query'[q].at = "scoring" => query[q].at = "scoring"
  PROVE  KnownWhenAsked
BY DEF KnownWhenAsked, Index!Begun

-----------------------------------------------------------------------------
(* The conversation *)

LEMMA TalkStep ==
  ASSUME EvidenceInv, Index!Say \/ Index!SayUnwritten
  PROVE  EvidenceInv' /\ KnownWhenAsked
<1>1. /\ UNCHANGED <<summary, Index!tables, limits, Index!vectors, flow, query, dropped>>
      /\ flow = "idle" /\ said' = said + 1 /\ history' = Append(history, said + 1)
      /\ saved' \in {saved, Append(saved, said + 1)}
  BY DEF Index!Say, Index!SayUnwritten
<1>2. history \in Seq(Nat) /\ saved \in Seq(Nat) /\ said \in Nat /\ said + 1 \in Nat
  BY DEF EvidenceInv, IndexTyped
<1>3. history' \in Seq(Nat) /\ saved' \in Seq(Nat)
  <2>1. Append(history, said + 1) \in Seq(Nat) /\ Append(saved, said + 1) \in Seq(Nat)
    BY <1>2
  <2>2. QED
    BY <1>1, <1>2, <2>1
<1>4. IndexTyped'
  BY <1>1, <1>2, <1>3 DEF EvidenceInv, IndexTyped, Index!tables, Index!vectors
<1>5. Advances
  BY <1>1, SameTables DEF EvidenceInv, Index!tables
<1>6. IndexesInv'
  BY <1>1, <1>5, IndexesStay DEF Index!vectors
<1>7. RowsInv'
  <2>1. CASE dropped
    BY <1>1, <2>1 DEF RowsInv
  <2>2. CASE ~dropped
    <3>1. checkpoint.count \in Nat /\ checkpoint.count <= Len(history)
      BY <2>2 DEF EvidenceInv, IndexTyped, RowsInv
    <3>2. Len(history') = Len(history) + 1 /\ \A i \in 1 .. Len(history) : history'[i] = history[i]
      BY <1>1, <1>2
    <3>3. Len(history) \in Nat
      BY <1>2
    <3>4. \A i \in 1 .. checkpoint.count : Index!Row(i)' = Index!Row(i)
      BY <3>1, <3>2, <3>3 DEF Index!Row
    <3>5. {Index!Row(i)' : i \in 1 .. checkpoint.count} = {Index!Row(i) : i \in 1 .. checkpoint.count}
      BY <3>4
    <3>6. Messages(rows) = {Index!Row(i) : i \in 1 .. checkpoint.count}
      BY <2>2 DEF EvidenceInv, RowsInv
    <3>7. checkpoint' = checkpoint /\ rows' = rows
      BY <1>1 DEF Index!tables
    <3>8. Messages(rows)' = {Index!Row(i)' : i \in 1 .. checkpoint'.count}
      BY <3>5, <3>6, <3>7 DEF Messages
    <3>9. checkpoint'.count <= Len(history')
      BY <3>1, <3>2, <3>3, <3>7
    <3>10. QED
      BY <3>8, <3>9 DEF RowsInv
  <2>3. QED
    BY <2>1, <2>2 DEF EvidenceInv, IndexTyped
<1>8. SummaryInv'
  BY <1>1, <1>2 DEF EvidenceInv, IndexTyped, SummaryInv, Index!SummaryRow, Index!tables
<1>9. SearchInv'
  BY <1>1 DEF EvidenceInv, SearchInv
<1>10. KnownWhenAsked
  BY <1>1, NoneBegins
<1>11. QED
  BY <1>4, <1>6, <1>7, <1>8, <1>9, <1>10 DEF EvidenceInv

LEMMA CompactStep ==
  ASSUME EvidenceInv, Index!Compact
  PROVE  EvidenceInv' /\ KnownWhenAsked
<1>1. /\ UNCHANGED <<history, saved, Index!tables, limits, Index!vectors, flow, query, dropped>>
      /\ flow = "idle" /\ said' = said + 1 /\ summary' = [id |-> said + 1, end |-> Len(history)]
  BY DEF Index!Compact
<1>2. said \in Nat /\ said + 1 \in Nat /\ Len(history) \in Nat
  BY DEF EvidenceInv, IndexTyped
<1>3. summary' \in [id : Nat, end : Nat]
  BY <1>1, <1>2
<1>4. IndexTyped'
  BY <1>1, <1>2, <1>3 DEF EvidenceInv, IndexTyped, Index!tables, Index!vectors
<1>5. Advances
  BY <1>1, SameTables DEF EvidenceInv, Index!tables
<1>6. IndexesInv'
  BY <1>1, <1>5, IndexesStay DEF Index!vectors
<1>7. RowsInv'
  BY <1>1 DEF EvidenceInv, RowsInv, Messages, Index!Row, Index!tables
<1>8. SummaryInv'
  <2>1. checkpoint.summary \in Nat /\ checkpoint.summary <= said
    BY DEF EvidenceInv, IndexTyped, SummaryInv
  <2>2. QED
    BY <1>1, <1>2, <2>1 DEF SummaryInv, Index!tables
<1>9. SearchInv'
  BY <1>1 DEF EvidenceInv, SearchInv
<1>10. KnownWhenAsked
  BY <1>1, NoneBegins
<1>11. QED
  BY <1>4, <1>6, <1>7, <1>8, <1>9, <1>10 DEF EvidenceInv

\* A restart that drops nothing leaves what has rows.
LEMMA RestartStep ==
  ASSUME EvidenceInv, Index!Restart
  PROVE  EvidenceInv' /\ KnownWhenAsked
<1>1. /\ UNCHANGED <<saved, summary, said, Index!tables>> /\ history' = saved /\ limits' \in 1 .. 2
      /\ cached' = Index!NoIndex /\ build' = Index!NoBuild /\ backfill' = {} /\ flow' = "idle"
      /\ query' = [q \in Agents |-> Index!Quiet]
      /\ dropped' = (dropped \/ \E r \in rows : r.kind = "message" /\ (r.at > Len(saved) \/ r.text # saved[r.at]))
  BY DEF Index!Restart
<1>2. IndexTyped'
  <2>1. query' \in [Agents -> QuerySet]
    BY <1>1, QuietTyped
  <2>2. QED
    BY <1>1, <2>1, QuietTyped DEF EvidenceInv, IndexTyped, Index!tables
<1>3. \A q \in Agents : query'[q].index = Index!NoIndex /\ query'[q].at = "idle"
  BY <1>1 DEF Index!Quiet
<1>4. IndexesInv'
  <2>1. Advances
    BY <1>1, SameTables DEF EvidenceInv, Index!tables
  <2>2. QED
    BY <1>1, <1>3, <2>1, IndexesStay
<1>5. RowsInv'
  <2>1. SUFFICES ASSUME ~dropped'
                 PROVE  checkpoint'.count <= Len(history') /\ Messages(rows)'
                     = {Index!Row(i)' : i \in 1 .. checkpoint'.count}
    BY DEF RowsInv
  <2>2. ~dropped /\ \A r \in rows : r.kind = "message" => ~(r.at > Len(saved)) /\ r.text = saved[r.at]
    BY <1>1, <2>1
  <2>3. checkpoint.count \in Nat /\ Len(saved) \in Nat /\ saved \in Seq(Nat) /\ history \in Seq(Nat)
    BY DEF EvidenceInv, IndexTyped
  <2>4. Messages(rows) = {Index!Row(i) : i \in 1 .. checkpoint.count}
    BY <2>2 DEF EvidenceInv, RowsInv
  <2>5. ASSUME NEW i \in 1 .. checkpoint.count
        PROVE  i <= Len(saved) /\ Index!Row(i)' = Index!Row(i)
    <3>1. Index!Row(i) \in rows /\ Index!Row(i).kind = "message" /\ Index!Row(i).at = i /\ Index!Row(i).text
              = history[i]
      BY <2>4 DEF Messages, Index!Row
    <3>2. ~(i > Len(saved)) /\ history[i] = saved[i]
      BY <2>2, <3>1
    <3>3. QED
      BY <1>1, <2>3, <3>2 DEF Index!Row
  <2>6. checkpoint.count <= Len(saved)
    <3>1. CASE checkpoint.count = 0 BY <2>3, <3>1
    <3>2. CASE checkpoint.count # 0
      <4>1. checkpoint.count \in 1 .. checkpoint.count
        BY <2>3, <3>2
      <4>2. QED
        BY <2>5, <4>1
    <3>3. QED
      BY <3>1, <3>2
  <2>7. {Index!Row(i)' : i \in 1 .. checkpoint.count} = {Index!Row(i) : i \in 1 .. checkpoint.count}
    BY <2>5
  <2>8. QED
    BY <1>1, <2>4, <2>6, <2>7 DEF Messages, Index!tables
<1>6. SummaryInv'
  BY <1>1 DEF EvidenceInv, SummaryInv, Index!SummaryRow, Index!tables
<1>7. SearchInv'
  BY <1>1, <1>3 DEF SearchInv
<1>8. KnownWhenAsked
  BY <1>3, NoneBegins
<1>9. QED
  BY <1>2, <1>4, <1>5, <1>6, <1>7, <1>8 DEF EvidenceInv

-----------------------------------------------------------------------------
(* checkpoint *)

LEMMA BeginStep ==
  ASSUME EvidenceInv, Index!Begin
  PROVE  EvidenceInv' /\ KnownWhenAsked
<1>1. UNCHANGED <<Index!talk, Index!tables, limits, Index!vectors, query, dropped>> /\ flow = "idle" /\ flow'
          = "checking" /\ history # <<>>
  BY DEF Index!Begin
<1>2. IndexTyped'
  BY <1>1 DEF EvidenceInv, IndexTyped, Index!talk, Index!tables, Index!vectors
<1>3. IndexesInv'
  BY <1>1, SameTables, IndexesStay DEF EvidenceInv, Index!tables, Index!vectors
<1>4. RowsInv' /\ SummaryInv'
  BY <1>1 DEF EvidenceInv, RowsInv, SummaryInv, Messages, Index!Row, Index!SummaryRow, Index!talk, Index!tables
<1>5. SearchInv'
  BY <1>1 DEF EvidenceInv, SearchInv, Index!talk
<1>6. QED
  BY <1>1, <1>2, <1>3, <1>4, <1>5, NoneBegins DEF EvidenceInv

\* What a checkpoint adds.
LEMMA PendingRows ==
  ASSUME IndexTyped
  PROVE  /\ Index!Pending \subseteq RowSet /\ IsFiniteSet(Index!Pending) /\ Index!First \in Nat \ {0}
         /\ Messages(Index!Pending) = {Index!Row(i) : i \in Index!First .. Len(history)}
         /\ \A p \in Index!Pending : p.kind = "summary" => p = Index!SummaryRow
              /\ (Index!Reset \/ summary.id # checkpoint.summary)
         /\ summary.id # 0 /\ (Index!Reset \/ summary.id # checkpoint.summary) => Index!SummaryRow \in Index!Pending
<1> DEFINE Ms == {Index!Row(i) : i \in Index!First .. Len(history)}
           Ss == IF summary.id # 0 /\ (Index!Reset \/ summary.id # checkpoint.summary) THEN {Index!SummaryRow} ELSE {}
<1>1. /\ checkpoint.count \in Nat /\ Len(history) \in Nat /\ summary.id \in Nat /\ summary.end \in Nat
      /\ \A i \in 1 .. Len(history) : history[i] \in Nat
  BY DEF IndexTyped
<1>2. Index!First \in Nat \ {0}
  BY <1>1 DEF Index!First
<1>3. Index!SummaryRow \in RowSet /\ Index!SummaryRow.kind = "summary"
  BY <1>1 DEF Index!SummaryRow, RowSet
<1>4. \A i \in Index!First .. Len(history) : Index!Row(i) \in RowSet /\ Index!Row(i).kind = "message"
  <2>1. \A i \in Index!First .. Len(history) : i \in Nat /\ i \in 1 .. Len(history)
    BY <1>1, <1>2
  <2>2. QED
    BY <1>1, <2>1 DEF Index!Row, RowSet
<1>5. Index!Pending = Ms \cup Ss
  BY DEF Index!Pending
<1>6. IsFiniteSet(Ms)
  <2>1. IsFiniteSet(Index!First .. Len(history))
    BY <1>1, <1>2, FS_Interval
  <2>2. [i \in Index!First .. Len(history) |-> Index!Row(i)] \in Surjection(Index!First .. Len(history), Ms)
    BY DEF Surjection
  <2>3. QED
    BY <2>1, <2>2, FS_Surjection
<1>7. IsFiniteSet(Ss)
  BY FS_EmptySet, FS_Singleton
<1>8. IsFiniteSet(Index!Pending)
  BY <1>5, <1>6, <1>7, FS_Union
<1>9. Index!Pending \subseteq RowSet
  BY <1>3, <1>4, <1>5
<1>10. Messages(Index!Pending) = Ms
  BY <1>3, <1>4, <1>5 DEF Messages
<1>11. \A p \in Index!Pending : p.kind = "summary" => p \in Ss
  BY <1>4, <1>5
<1>12. QED
  BY <1>2, <1>5, <1>8, <1>9, <1>10, <1>11

LEMMA CommitRows ==
  ASSUME EvidenceInv, Index!Commit, ~(dropped /\ ~Index!Reset)
  PROVE  Messages(rows') = {Index!Row(i) : i \in 1 .. Len(history)}
<1> DEFINE kept == IF Index!Reset THEN {} ELSE {r \in rows : \A p \in Index!Pending : ~Index!SameKey(r, p)}
<1>1. rows' = kept \cup Index!Pending
  BY DEF Index!Commit
<1>2. /\ checkpoint.count \in Nat /\ Len(history) \in Nat /\ rows \subseteq RowSet /\ Index!Pending \subseteq RowSet
      /\ Messages(Index!Pending) = {Index!Row(i) : i \in Index!First .. Len(history)}
  BY PendingRows DEF EvidenceInv, IndexTyped
<1>3. Messages(rows') = Messages(kept) \cup Messages(Index!Pending)
  BY <1>1 DEF Messages
<1>4. CASE Index!Reset
  BY <1>2, <1>3, <1>4 DEF Index!First, Messages
<1>5. CASE ~Index!Reset
  <2>1. ~dropped /\ Index!First = checkpoint.count + 1
    BY <1>5 DEF Index!First
  <2>2. checkpoint.count <= Len(history) /\ Messages(rows) = {Index!Row(i) : i \in 1 .. checkpoint.count}
    BY <2>1 DEF EvidenceInv, RowsInv
  <2>3. ASSUME NEW r \in Messages(rows)
        PROVE  r \in kept
    <3>1. PICK i \in 1 .. checkpoint.count : r = Index!Row(i)
      BY <2>2
    <3>2. SUFFICES ASSUME NEW p \in Index!Pending, Index!SameKey(r, p) PROVE FALSE
      BY <1>5 DEF Messages
    <3>3. r.kind = "message" /\ r.at = i
      BY <3>1 DEF Index!Row
    <3>4. p.kind = "message" /\ p.at = i
      BY <3>2, <3>3 DEF Index!SameKey
    <3>5. PICK j \in Index!First .. Len(history) : p = Index!Row(j)
      BY <1>2, <3>4 DEF Messages
    <3>6. p.at = j
      BY <3>5 DEF Index!Row
    <3>7. QED
      BY <1>2, <2>1, <3>4, <3>6
  <2>4. Messages(kept) = {Index!Row(i) : i \in 1 .. checkpoint.count}
    BY <1>5, <2>2, <2>3 DEF Messages
  <2>5. 1 .. Len(history) = (1 .. checkpoint.count) \cup (checkpoint.count + 1 .. Len(history))
    BY <1>2, <2>2
  <2>6. QED
    BY <1>2, <1>3, <2>1, <2>4, <2>5
<1>6. QED
  BY <1>4, <1>5

LEMMA CommitSummary ==
  ASSUME EvidenceInv, Index!Commit, summary.id # 0
  PROVE  Index!SummaryRow \in rows'
<1> DEFINE kept == IF Index!Reset THEN {} ELSE {r \in rows : \A p \in Index!Pending : ~Index!SameKey(r, p)}
<1>1. rows' = kept \cup Index!Pending
  BY DEF Index!Commit
<1>2. CASE Index!Reset \/ summary.id # checkpoint.summary
  BY <1>1, <1>2, PendingRows DEF EvidenceInv
<1>3. CASE ~Index!Reset /\ summary.id = checkpoint.summary
  <2>1. Index!SummaryRow \in rows
    BY <1>3 DEF EvidenceInv, SummaryInv
  <2>2. Index!SummaryRow.kind = "summary"
    BY DEF Index!SummaryRow
  <2>3. \A p \in Index!Pending : p.kind # "summary"
    BY <1>3, PendingRows DEF EvidenceInv
  <2>4. \A p \in Index!Pending : ~Index!SameKey(Index!SummaryRow, p)
    BY <2>2, <2>3 DEF Index!SameKey
  <2>5. QED
    BY <1>1, <1>3, <2>1, <2>4
<1>4. QED
  BY <1>2, <1>3

LEMMA CommitAdvances ==
  ASSUME EvidenceInv, Index!Commit
  PROVE  Advances
<1> DEFINE kept == IF Index!Reset THEN {} ELSE {r \in rows : \A p \in Index!Pending : ~Index!SameKey(r, p)}
<1>1. /\ rows' = kept \cup Index!Pending /\ embedded' = IF Index!Reset THEN {} ELSE embedded
      /\ generation' = generation + (Cardinality(Index!Pending) + (IF Index!Reset THEN Cardinality(rows) ELSE 0))
  BY SameOperators DEF Index!Commit, Index!Moved
<1>2. IsFiniteSet(Index!Pending) /\ IsFiniteSet(rows) /\ generation \in Nat
  BY PendingRows DEF EvidenceInv, IndexTyped
<1>3. Cardinality(Index!Pending) \in Nat /\ Cardinality(rows) \in Nat
  BY <1>2, FS_CardinalityType
<1>4. generation' \in Nat /\ generation' >= generation
  BY <1>1, <1>2, <1>3
<1>5. ASSUME generation' = generation
      PROVE  Index!Current' = Index!Current
  <2>1. Cardinality(Index!Pending) = 0 /\ (Index!Reset => Cardinality(rows) = 0)
    BY <1>1, <1>2, <1>3, <1>5
  <2>2. Index!Pending = {} /\ (Index!Reset => rows = {})
    BY <1>2, <2>1, FS_EmptySet
  <2>3. CASE Index!Reset
    BY <1>1, <2>2, <2>3 DEF Index!Current
  <2>4. CASE ~Index!Reset
    <3>1. kept = rows
      BY <2>2, <2>4
    <3>2. rows' = rows /\ embedded' = embedded
      BY <1>1, <2>2, <2>4, <3>1
    <3>3. QED
      BY <3>2 DEF Index!Current
  <2>5. QED
    BY <2>3, <2>4
<1>6. QED
  BY <1>4, <1>5 DEF Advances

LEMMA IndexCommitStep ==
  ASSUME EvidenceInv, Index!Commit
  PROVE  EvidenceInv' /\ KnownWhenAsked
<1> DEFINE kept == IF Index!Reset THEN {} ELSE {r \in rows : \A p \in Index!Pending : ~Index!SameKey(r, p)}
<1>1. /\ flow = "checking" /\ flow' = "searching" /\ rows' = kept \cup Index!Pending
      /\ embedded' \in {{}, embedded} /\ cached' \in {cached, Index!NoIndex}
      /\ checkpoint' = [count |-> Len(history), summary |-> summary.id, limits |-> limits]
      /\ dropped' = (dropped /\ ~Index!Reset)
      /\ UNCHANGED <<Index!talk, limits, build, backfill, query>>
  BY DEF Index!Commit
<1>2. Advances
  BY CommitAdvances
<1>3. IndexTyped'
  <2>1. kept \subseteq RowSet /\ IsFiniteSet(kept)
    <3>1. kept \subseteq rows
      OBVIOUS
    <3>2. QED
      BY <3>1, FS_Subset DEF EvidenceInv, IndexTyped
  <2>2. rows' \in SUBSET RowSet /\ IsFiniteSet(rows')
    BY <1>1, <2>1, PendingRows, FS_Union DEF EvidenceInv
  <2>3. checkpoint' \in [count : Nat, summary : Nat, limits : Nat] /\ generation' \in Nat
    BY <1>1, <1>2 DEF EvidenceInv, IndexTyped, Advances
  <2>4. embedded' \in SUBSET RowSet /\ cached' \in Indexes
    BY <1>1, QuietTyped DEF EvidenceInv, IndexTyped
  <2>5. dropped' \in BOOLEAN /\ flow' \in {"idle", "checking", "searching"}
    BY <1>1
  <2>6. QED
    BY <1>1, <2>2, <2>3, <2>4, <2>5 DEF EvidenceInv, IndexTyped, Index!talk
<1>4. IndexesInv'
  BY <1>1, <1>2, IndexesStay
<1>5. history' = history /\ summary' = summary /\ said' = said /\ query' = query
  BY <1>1 DEF Index!talk
<1>6. \A i : Index!Row(i)' = Index!Row(i)
  BY <1>5 DEF Index!Row
<1>7. Index!SummaryRow' = Index!SummaryRow
  BY <1>5 DEF Index!SummaryRow
<1>8. dropped' \/ Messages(rows') = {Index!Row(i)' : i \in 1 .. Len(history')}
  BY <1>1, <1>5, <1>6, CommitRows
<1>9. RowsInv'
  <2>1. checkpoint'.count = Len(history') /\ Len(history') \in Nat
    BY <1>1, <1>5 DEF EvidenceInv, IndexTyped
  <2>2. QED
    BY <1>8, <2>1 DEF RowsInv, Messages
<1>10. summary'.id # 0 => Index!SummaryRow' \in rows'
  BY <1>5, <1>7, CommitSummary
<1>11. SummaryInv'
  BY <1>1, <1>5, <1>10 DEF SummaryInv, EvidenceInv
<1>12. DOMAIN history' = 1 .. Len(history')
  BY <1>5 DEF EvidenceInv, IndexTyped
<1>13. Index!KnowsHistory' \/ dropped'
  BY <1>8, <1>10, <1>12 DEF Index!KnowsHistory, Messages
<1>14. SearchInv'
  BY <1>1, <1>13 DEF SearchInv
<1>15. QED
  BY <1>3, <1>4, <1>5, <1>9, <1>11, <1>14, NoneBegins DEF EvidenceInv

-----------------------------------------------------------------------------
(* Embeddings and searches *)

\* Steps that leave the conversation, its rows and its checkpoint alone.
LEMMA Undisturbed ==
  ASSUME EvidenceInv, UNCHANGED <<Index!talk, rows, checkpoint, dropped>>, flow' \in {flow, "idle"}
  PROVE  /\ RowsInv' /\ SummaryInv'
         /\ flow' = "searching" => Index!KnowsHistory' \/ dropped'
         /\ flow' = "checking" => history' # <<>>
<1>1. RowsInv' /\ SummaryInv'
  BY DEF EvidenceInv, RowsInv, SummaryInv, Messages, Index!Row, Index!SummaryRow, Index!talk
<1>2. Index!KnowsHistory' = Index!KnowsHistory
  BY DEF Index!KnowsHistory, Index!Row, Index!SummaryRow, Index!talk
<1>3. QED
  BY <1>1, <1>2 DEF EvidenceInv, SearchInv, Index!talk

LEMMA FinishBackfillStep ==
  ASSUME EvidenceInv, Index!FinishBackfill
  PROVE  EvidenceInv' /\ KnownWhenAsked
<1> DEFINE written == backfill \cap rows
<1>1. /\ backfill' = {} /\ cached' = Index!NoIndex
      /\ embedded' = {e \in embedded : \A w \in written : ~Index!SameKey(e, w)} \cup written
      /\ generation' = generation + Cardinality(written)
      /\ UNCHANGED <<Index!talk, rows, checkpoint, limits, build, disabled, flow, query, dropped>>
  BY SameOperators DEF Index!FinishBackfill, Index!Moved
<1>2. written \subseteq RowSet /\ IsFiniteSet(written) /\ generation \in Nat /\ embedded \subseteq RowSet
  BY FS_Intersection DEF EvidenceInv, IndexTyped
<1>3. Cardinality(written) \in Nat /\ (Cardinality(written) = 0 => written = {})
  BY <1>2, FS_CardinalityType, FS_EmptySet
<1>4. Advances
  <2>1. generation' \in Nat /\ generation' >= generation
    BY <1>1, <1>2, <1>3
  <2>2. ASSUME generation' = generation
        PROVE  Index!Current' = Index!Current
    <3>1. written = {}
      BY <1>1, <1>2, <1>3, <2>2
    <3>2. embedded' = embedded
      BY <1>1, <3>1
    <3>3. QED
      BY <1>1, <3>2 DEF Index!Current
  <2>3. QED
    BY <2>1, <2>2 DEF Advances
<1>5. IndexTyped'
  <2>1. embedded' \subseteq RowSet
    BY <1>1, <1>2
  <2>2. QED
    BY <1>1, <1>4, <2>1, QuietTyped DEF EvidenceInv, IndexTyped, Advances, Index!talk
<1>6. IndexesInv'
  BY <1>1, <1>4, IndexesStay
<1>7. QED
  BY <1>1, <1>5, <1>6, Undisturbed, NoneBegins DEF EvidenceInv, SearchInv

LEMMA BackgroundStep ==
  ASSUME EvidenceInv, Index!FailBackfill \/ Index!Cool \/ Index!Evict \/ Index!Done
  PROVE  EvidenceInv' /\ KnownWhenAsked
<1>1. /\ UNCHANGED <<Index!talk, Index!tables, limits, build, dropped>> /\ flow' \in {flow, "idle"}
      /\ cached' \in {cached, Index!NoIndex} /\ backfill' \in {backfill, {}}
      /\ (query' = query /\ flow' = flow) \/ (query' = [q \in Agents |-> Index!Quiet])
  BY DEF Index!FailBackfill, Index!Cool, Index!Evict, Index!Done, Index!vectors
<1>2. \A q \in Agents : query'[q] \in {query[q], Index!Quiet}
  BY <1>1
<1>3. IndexTyped'
  <2>1. query' \in [Agents -> QuerySet]
    BY <1>1, QuietTyped DEF EvidenceInv, IndexTyped
  <2>2. cached' \in Indexes /\ backfill' \in SUBSET RowSet /\ flow' \in {"idle", "checking", "searching"}
    BY <1>1, QuietTyped DEF EvidenceInv, IndexTyped
  <2>3. QED
    BY <1>1, <2>1, <2>2 DEF EvidenceInv, IndexTyped, Index!talk, Index!tables
<1>4. \A q \in Agents : query'[q].index \in {query[q].index, Index!NoIndex}
  BY <1>2 DEF Index!Quiet
<1>5. IndexesInv'
  BY <1>1, <1>4, SameTables, IndexesStay DEF EvidenceInv, Index!tables
<1>6. \A q \in Agents : Index!Quiet.at = "idle" /\ (query'[q].at = "scoring" => query[q].at = "scoring")
  BY <1>2 DEF Index!Quiet
<1>7. SearchInv'
  BY <1>1, <1>6, Undisturbed DEF EvidenceInv, SearchInv, Index!tables
<1>8. QED
  BY <1>1, <1>3, <1>5, <1>6, <1>7, Undisturbed, NoneBegins DEF EvidenceInv, Index!tables

LEMMA SearchStep ==
  ASSUME EvidenceInv, NEW q \in Agents, Index!Search(q)
  PROVE  EvidenceInv' /\ KnownWhenAsked
<1>1. /\ flow = "searching" /\ query[q].at = "idle"
      /\ UNCHANGED <<Index!talk, Index!tables, limits, cached, build, flow, dropped>>
      /\ \E a \in {"answered", "looking"} : query' = [query EXCEPT ![q].at = a]
  BY DEF Index!Search
<1>2. backfill' \in SUBSET RowSet
  <2>1. backfill' = backfill \/ \E b \in 1 .. Len(history) : backfill' \in Index!Stale(b)
    BY DEF Index!Search
  <2>2. \A b : \A s \in Index!Stale(b) : s \subseteq rows
    BY DEF Index!Stale
  <2>3. QED
    BY <2>1, <2>2 DEF EvidenceInv, IndexTyped
<1>3. PICK a \in {"answered", "looking"} : query' = [query EXCEPT ![q].at = a]
  BY <1>1
<1>4. query \in [Agents -> QuerySet]
  BY DEF EvidenceInv, IndexTyped
<1>5. query' \in [Agents -> QuerySet]
  BY <1>3, <1>4 DEF QuerySet
<1>6. \A p \in Agents : query'[p].index = query[p].index /\ (query'[p].at = "scoring" => query[p].at = "scoring")
  BY <1>3, <1>4 DEF QuerySet
<1>7. IndexTyped'
  BY <1>1, <1>2, <1>5 DEF EvidenceInv, IndexTyped, Index!talk, Index!tables
<1>8. IndexesInv'
  BY <1>1, <1>6, SameTables, IndexesStay DEF EvidenceInv, Index!tables
<1>9. SearchInv'
  BY <1>1, Undisturbed DEF SearchInv, Index!tables
<1>10. QED
  BY <1>1, <1>6, <1>7, <1>8, <1>9, Undisturbed, NoneBegins DEF EvidenceInv, Index!tables

\* One query of those asks an index that is faithful, or goes back.
LEMMA AskStep ==
  ASSUME EvidenceInv, NEW q \in Agents, query[q].at # "idle",
         UNCHANGED <<Index!talk, Index!tables, limits, backfill, flow, dropped>>,
         cached' \in Indexes, Faithful(cached'),
         build' \in [owner : SUBSET Agents, index : Indexes], Faithful(build'.index),
         query' \in [Agents -> QuerySet],
         \A p \in Agents \ {q} : query'[p].at = query[p].at /\ query'[p].index = query[p].index,
         Faithful(query'[q].index),
         query'[q].at = "scoring" => query'[q].index.generation = generation
  PROVE  EvidenceInv' /\ KnownWhenAsked
<1>1. flow = "searching"
  BY DEF EvidenceInv, SearchInv
<1>2. IndexTyped'
  BY DEF EvidenceInv, IndexTyped, Index!talk, Index!tables
<1>3. UNCHANGED <<rows, embedded, generation, checkpoint>> /\ Index!Current' = Index!Current
  BY DEF Index!tables, Index!Current
<1>4. \A p \in Agents : Faithful(query'[p].index)
  BY DEF EvidenceInv, IndexesInv
<1>5. Index!NoIndex' = Index!NoIndex /\ Faithful(Index!NoIndex)
  BY DEF EvidenceInv, IndexesInv, Index!NoIndex
<1>6. IndexesInv'
  BY <1>3, <1>4, <1>5 DEF IndexesInv, Faithful
<1>7. Index!KnowsHistory \/ dropped
  BY <1>1 DEF EvidenceInv, SearchInv
<1>8. \A p \in Agents \ {q} : ~Index!Begun(p)
  BY DEF Index!Begun
<1>9. Index!Begun(q) => query'[q].index.of = Index!Current
  BY DEF Index!Begun, Faithful
<1>10. KnownWhenAsked
  BY <1>7, <1>8, <1>9 DEF KnownWhenAsked
<1>11. SearchInv'
  BY <1>1, <1>3, Undisturbed DEF SearchInv
<1>12. QED
  BY <1>2, <1>3, <1>6, <1>10, <1>11, Undisturbed DEF EvidenceInv

LEMMA LookStep ==
  ASSUME EvidenceInv, NEW q \in Agents, Index!Look(q)
  PROVE  EvidenceInv' /\ KnownWhenAsked
<1> DEFINE fresh == [generation |-> generation, of |-> Index!Current]
           found == query' = [query EXCEPT ![q].at = "scoring", ![q].index = cached]
           gaveUp == query' = [query EXCEPT ![q] = [Index!Quiet EXCEPT !.at = "answered"]]
           builds == /\ build' = IF build = Index!NoBuild THEN [owner |-> {q}, index |-> fresh] ELSE build
                     /\ query' = [query EXCEPT ![q] = [at |-> "building", tries |-> @.tries + 1,
                                                       index |-> build'.index, waits |-> ~(build = Index!NoBuild)]]
<1>1. /\ query[q].at = "looking"
      /\ UNCHANGED <<Index!talk, Index!tables, limits, cached, backfill, flow, dropped>>
      /\ \/ cached.generation = generation /\ found /\ build' = build
         \/ gaveUp /\ build' = build
         \/ builds
  BY DEF Index!Look
<1>2. query \in [Agents -> QuerySet] /\ cached \in Indexes /\ build \in [owner : SUBSET Agents, index : Indexes]
  BY DEF EvidenceInv, IndexTyped
<1>3. Faithful(Index!NoIndex) /\ Faithful(cached) /\ Faithful(build.index)
  BY DEF EvidenceInv, IndexesInv
<1>4. fresh \in Indexes /\ Faithful(fresh)
  <2>1. generation \in Nat /\ Index!Current \in SUBSET RowSet
    BY DEF EvidenceInv, IndexTyped, Index!Current
  <2>2. QED
    BY <2>1 DEF Indexes, Faithful
<1>5. cached' \in Indexes /\ Faithful(cached')
  BY <1>1, <1>2, <1>3
<1>6. build' \in [owner : SUBSET Agents, index : Indexes] /\ Faithful(build'.index)
  <2>1. CASE build' = build BY <1>2, <1>3, <2>1
  <2>2. CASE build' = [owner |-> {q}, index |-> fresh]
    <3>1. build'.index = fresh
      BY <2>2
    <3>2. QED
      BY <1>4, <2>2, <3>1
  <2>3. QED
    BY <1>1, <2>1, <2>2
<1> DEFINE new == query'[q]
<1>7. \E x \in QuerySet : /\ query' = [query EXCEPT ![q] = x] /\ Faithful(x.index)
                          /\ x.at = "scoring" => x.index.generation = generation
  <2>1. CASE cached.generation = generation /\ found
    <3> DEFINE x == [query[q] EXCEPT !.at = "scoring", !.index = cached]
    <3>1. query[q] \in QuerySet
      BY <1>2
    <3>2. x \in QuerySet /\ x.index = cached
      BY <1>2, <3>1 DEF QuerySet
    <3>3. query' = [query EXCEPT ![q] = x]
      BY <1>2, <2>1
    <3>4. QED
      BY <1>3, <2>1, <3>2, <3>3
  <2>2. CASE gaveUp
    <3> DEFINE x == [Index!Quiet EXCEPT !.at = "answered"]
    <3>1. x \in QuerySet /\ x.index = Index!NoIndex /\ x.at = "answered"
      BY QuietTyped DEF Index!Quiet, QuerySet
    <3>2. QED
      BY <1>3, <2>2, <3>1
  <2>3. CASE builds
    <3> DEFINE x == [at |-> "building", tries |-> query[q].tries + 1, index |-> build'.index, waits |-> ~(build
            = Index!NoBuild)]
    <3>1. query[q] \in QuerySet /\ build'.index \in Indexes
      BY <1>2, <1>6
    <3>2. x \in QuerySet
      <4>1. query[q].tries + 1 \in Nat
        BY <3>1 DEF QuerySet
      <4>2. (~(build = Index!NoBuild)) \in BOOLEAN
        OBVIOUS
      <4>3. QED
        BY <3>1, <4>1, <4>2 DEF QuerySet
    <3>3. query' = [query EXCEPT ![q] = x]
      BY <2>3
    <3>4. QED
      BY <1>6, <3>2, <3>3
  <2>4. QED
    BY <1>1, <2>1, <2>2, <2>3
<1>8. PICK x \in QuerySet : /\ query' = [query EXCEPT ![q] = x] /\ Faithful(x.index)
                            /\ x.at = "scoring" => x.index.generation = generation
  BY <1>7
<1>9. query' \in [Agents -> QuerySet] /\ query'[q] = x /\ \A p \in Agents \ {q} : query'[p] = query[p]
  BY <1>2, <1>8
<1>10. QED
  BY <1>1, <1>5, <1>6, <1>8, <1>9, AskStep

LEMMA BuiltStep ==
  ASSUME EvidenceInv, NEW q \in Agents, Index!Built(q)
  PROVE  EvidenceInv' /\ KnownWhenAsked
<1> DEFINE mine == build.owner = {q}
           freed == [p \in Agents |-> IF mine THEN [query[p] EXCEPT !.waits = FALSE] ELSE query[p]]
<1>1. /\ query[q].at = "building" /\ build' \in {build, Index!NoBuild}
      /\ UNCHANGED <<Index!talk, Index!tables, limits, backfill, flow, dropped>>
      /\ \/ /\ Index!UpToDate(query[q].index) /\ cached' = query[q].index
            /\ query' = [freed EXCEPT ![q].at = "scoring"]
         \/ /\ cached' = Index!NoIndex
            /\ query' = [freed EXCEPT ![q].at = "looking", ![q].index = Index!NoIndex]
  BY DEF Index!Built
<1>2. query \in [Agents -> QuerySet] /\ build \in [owner : SUBSET Agents, index : Indexes]
  BY DEF EvidenceInv, IndexTyped
<1>3. Faithful(Index!NoIndex) /\ Faithful(build.index) /\ Faithful(query[q].index)
  BY DEF EvidenceInv, IndexesInv
<1>4. Index!NoBuild.index = Index!NoIndex
  BY DEF Index!NoBuild
<1>5. build' \in [owner : SUBSET Agents, index : Indexes] /\ Faithful(build'.index)
  BY <1>1, <1>2, <1>3, <1>4, QuietTyped
<1>6. \A p \in Agents : query[p] \in QuerySet /\ freed[p] \in QuerySet /\ freed[p].at = query[p].at /\ freed[p].index
          = query[p].index
  BY <1>2 DEF QuerySet
<1>7. freed \in [Agents -> QuerySet]
  BY <1>6
<1> HIDE DEF freed
<1>8. CASE Index!UpToDate(query[q].index) /\ cached' = query[q].index /\ query' = [freed EXCEPT ![q].at = "scoring"]
  <2>1. query' \in [Agents -> QuerySet]
    BY <1>7, <1>8 DEF QuerySet
  <2>2. \A p \in Agents \ {q} : query'[p] = freed[p]
    BY <1>7, <1>8
  <2>3. query'[q].index = query[q].index
    <3>1. freed[q] \in QuerySet /\ freed[q].index = query[q].index
      BY <1>6
    <3>2. query'[q] = [freed[q] EXCEPT !.at = "scoring"]
      BY <1>7, <1>8
    <3>3. QED
      BY <3>1, <3>2 DEF QuerySet
  <2>4. cached' \in Indexes
    BY <1>6, <1>8 DEF QuerySet
  <2>5. query[q].index.generation = generation
    BY <1>8 DEF Index!UpToDate
  <2>6. QED
    BY <1>1, <1>3, <1>5, <1>6, <1>8, <2>1, <2>2, <2>3, <2>4, <2>5, AskStep
<1>9. CASE cached' = Index!NoIndex /\ query' = [freed EXCEPT ![q].at = "looking", ![q].index = Index!NoIndex]
  <2>1. query' \in [Agents -> QuerySet]
    BY <1>7, <1>9, QuietTyped DEF QuerySet
  <2>2. \A p \in Agents \ {q} : query'[p] = freed[p]
    BY <1>7, <1>9
  <2>3. query'[q].at = "looking" /\ query'[q].index = Index!NoIndex
    BY <1>7, <1>9 DEF QuerySet
  <2>4. cached' \in Indexes
    BY <1>9, QuietTyped
  <2>5. QED
    BY <1>1, <1>3, <1>5, <1>6, <1>9, <2>1, <2>2, <2>3, <2>4, AskStep
<1>10. QED
  BY <1>1, <1>8, <1>9

LEMMA AnswerStep ==
  ASSUME EvidenceInv, NEW q \in Agents, Index!Answer(q) \/ Index!FailSearch(q)
  PROVE  EvidenceInv' /\ KnownWhenAsked
<1>1. /\ query[q].at = "scoring" /\ query' = [query EXCEPT ![q] = [Index!Quiet EXCEPT !.at = "answered"]]
      /\ UNCHANGED <<Index!talk, Index!tables, limits, cached, build, backfill, flow, dropped>>
  BY DEF Index!Answer, Index!FailSearch
<1>2. query \in [Agents -> QuerySet] /\ cached \in Indexes /\ build \in [owner : SUBSET Agents, index : Indexes]
  BY DEF EvidenceInv, IndexTyped
<1>3. Faithful(Index!NoIndex) /\ Faithful(cached) /\ Faithful(build.index)
  BY DEF EvidenceInv, IndexesInv
<1> DEFINE x == [Index!Quiet EXCEPT !.at = "answered"]
<1>4. x \in QuerySet /\ x.index = Index!NoIndex /\ x.at = "answered"
  BY QuietTyped DEF Index!Quiet, QuerySet
<1> HIDE DEF x
<1>5. query' = [query EXCEPT ![q] = x]
  BY <1>1 DEF x
<1>6. query' \in [Agents -> QuerySet] /\ query'[q] = x /\ \A p \in Agents \ {q} : query'[p] = query[p]
  BY <1>2, <1>4, <1>5
<1>7. QED
  BY <1>1, <1>2, <1>3, <1>4, <1>6, AskStep

LEMMA StillEvidence ==
  ASSUME EvidenceInv, UNCHANGED Index!vars
  PROVE  EvidenceInv' /\ KnownWhenAsked
<1>1. IndexTyped' /\ UNCHANGED <<Index!talk, Index!tables, query, cached, build, flow, dropped>>
  BY DEF EvidenceInv, IndexTyped, Index!vars, Index!talk, Index!tables, Index!vectors
<1>2. IndexesInv'
  BY <1>1, SameTables, IndexesStay DEF EvidenceInv, Index!tables
<1>3. SearchInv'
  BY <1>1, Undisturbed DEF EvidenceInv, SearchInv, Index!tables
<1>4. QED
  BY <1>1, <1>2, <1>3, Undisturbed, NoneBegins DEF EvidenceInv, Index!tables

LEMMA NextEvidence ==
  ASSUME EvidenceInv, [Index!Next]_(Index!vars)
  PROVE  EvidenceInv' /\ KnownWhenAsked
<1>1. CASE Index!Say \/ Index!SayUnwritten \/ Index!Compact BY <1>1, TalkStep, CompactStep
<1>2. CASE Index!Begin \/ Index!Commit BY <1>2, BeginStep, IndexCommitStep
<1>3. CASE Index!FinishBackfill BY <1>3, FinishBackfillStep
<1>4. CASE Index!FailBackfill \/ Index!Cool \/ Index!Evict \/ Index!Done BY <1>4, BackgroundStep
<1>5. CASE Index!Restart BY <1>5, RestartStep
<1>6. ASSUME NEW q \in Agents, Index!Search(q) \/ Index!Look(q) \/ Index!Built(q) \/ Index!Answer(q)
          \/ Index!FailSearch(q)
      PROVE  EvidenceInv' /\ KnownWhenAsked
  BY <1>6, SearchStep, LookStep, BuiltStep, AnswerStep
<1>7. CASE UNCHANGED Index!vars BY <1>7, StillEvidence
<1> QED
  BY <1>1, <1>2, <1>3, <1>4, <1>5, <1>6, <1>7 DEF Index!Next

-----------------------------------------------------------------------------
(* The components side by side *)

LEMMA MailboxRuns == SideBySide => Mailbox!Spec
<1>1. Initially => Mailbox!Init
  BY DEF Initially
<1>2. [Move]_all => [Mailbox!Next]_(Mailbox!vars)
  BY DEF Move, all, reports, Mailbox!vars
<1> QED
  BY <1>1, <1>2, PTL DEF SideBySide, Mailbox!Spec

LEMMA IndexRuns == SideBySide => Index!Spec
<1>1. Initially => Index!Init
  BY DEF Initially
<1>2. [Move]_all => [Index!Next]_(Index!vars)
  BY DEF Move, all, index, Index!vars, Index!talk, Index!tables, Index!vectors
<1> QED
  BY <1>1, <1>2, PTL DEF SideBySide, Index!Spec

LEMMA TurnRuns == SideBySide => Turn!Spec
<1>1. Initially => Turn!Init
  BY DEF Initially
<1>2. [Move]_all => [Turn!Next]_(Turn!vars)
  BY DEF Move, all, turns, Turn!vars
<1> QED
  BY <1>1, <1>2, PTL DEF SideBySide, Turn!Spec

\* A report is in the parent's conversation once if the parent has read it and not at all otherwise, before the result
\* of the child it is from; nothing of a collected child is unread, and no answer stands with anything unread: whatever
\* the deliveries, calls, failed appends and crashes (drainUnread and observe in coordinator.ts, messages.ts).
THEOREM ReportsRead == SideBySide => []ReportsAreRead
<1>1. MailboxConstants
  BY MailboxAssumption DEF MailboxConstants
<1>2. MailboxConstants => (Mailbox!Init => MailInv)
  BY InitMail
<1>3. MailboxConstants /\ MailInv /\ [Mailbox!Next]_(Mailbox!vars) => MailInv'
  BY NextMail
<1>4. MailInv => ReportsAreRead
  BY MailIsRead DEF ReportsAreRead
<1> QED
  BY <1>1, <1>2, <1>3, <1>4, MailboxRuns, PTL DEF Mailbox!Spec

\* What the process believes of its turn, its plan and its history is what a process that replays the journal would:
\* a crash at any point loses nothing the process has acted on (agent.ts, session replay in recovery).
THEOREM MemoryReplayed == SideBySide => []MemoryIsReplayed
<1>1. SessionInv /\ [Turn!Next]_(Turn!vars) => SessionInv'
  BY NextSession
<1>2. SessionInv => MemoryIsReplayed
  BY SessionIsReplayed DEF MemoryIsReplayed
<1> QED
  BY <1>1, <1>2, InitSession, TurnRuns, PTL DEF Turn!Spec

\* A turn that executes an approved plan and ends without success, or is repaired after a crash, leaves the plan: as
\* the graph it was working on, or as the review it came from.
THEOREM PlanKept == SideBySide => PlanIsKept
<1>1. SessionInv /\ [Turn!Next]_(Turn!vars) => SessionInv' /\ KeepsPlan
  BY NextSession
<1>2. KeepsPlan =>
        [/\ durable.turn # 0 /\ durable'.turn = 0
         /\ durable'.executing.turn = durable.turn /\ durable'.failed
         => durable.turn \in {durable'.graph.turn, durable'.review.plan}]_(Turn!vars)
  BY DEF KeepsPlan
<1> QED
  BY <1>1, <1>2, InitSession, TurnRuns, PTL DEF Turn!Spec, PlanIsKept, Turn!PlanIsKept

\* A search that begins to score asks an index of exactly the embeddings there are, and every message and the accepted
\* summary has its row (artifact-index.ts: checkpoint, search, getCachedIndex, backfill), whatever is embedded, built,
\* evicted or restarted meanwhile, but for rows of messages that a restart took away.
THEOREM SearchesAreCurrent == SideBySide => SearchIsCurrent
<1>1. EvidenceInv /\ [Index!Next]_(Index!vars) => EvidenceInv' /\ KnownWhenAsked
  BY NextEvidence
<1>2. KnownWhenAsked =>
        [\A q \in Agents : Index!Begun(q) => query'[q].index.of = Index!Current
                                           /\ (Index!KnowsHistory \/ dropped)]_(Index!vars)
  BY DEF KnownWhenAsked
<1> QED
  BY <1>1, <1>2, InitEvidence, IndexRuns, PTL DEF Index!Spec, SearchIsCurrent, Index!SearchIsCurrent
=============================================================================
