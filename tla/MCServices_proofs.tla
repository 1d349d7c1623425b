------------------------- MODULE MCServices_proofs -------------------------
(***************************************************************************)
(* Proofs for the components that MCServices runs side by side.  What is   *)
(* written of a component, in terms of the instance that names it, holds   *)
(* of the component; the theorems at the end say so of the whole.          *)
(*                                                                         *)
(* A turn's budget holds for every number of agents, every limit and every *)
(* number of retries, crashes and failed writes, as long as one process    *)
(* uses the thread. BudgetInvariant is inductive: the budget in memory and *)
(* the one in the journal each cover what was sent and respect the limits, *)
(* and an agent with a request has a budget to charge it to. That reserved *)
(* never falls below zero needs the sum of the requests in flight, which   *)
(* no installed prover can do induction over; TypeOK stays with TLC.       *)
(*                                                                         *)
(* An attached image (Attachments!) is kept until its message is sent, for *)
(* every number of images and processes, however often the grace period    *)
(* passes and however many of them crash. ImageInv is inductive. The lock  *)
(* is not in it: what protects an image is that its marker is its          *)
(* process's, that no collection takes a living process's marker from it,  *)
(* and that a file a collection reached before there was a marker is new   *)
(* while it runs.                                                          *)
(*                                                                         *)
(* The long-term memory (Memory!): what a single change of the records     *)
(* keeps (Keeps, Spares) is followed along batches of any length, and      *)
(* MemoryInv says of a consolidation's plan (PlanOK) why each candidate    *)
(* that expires is repeated by another record: the last of them to expire  *)
(* repeats one that stands.                                                *)
(***************************************************************************)
EXTENDS MCServices, FiniteSetTheorems, SequenceTheorems, WellFoundedInduction, TLAPS

-----------------------------------------------------------------------------
(* The budget of a turn *)

OneProcess == \A p, q \in Processes : p = q

IntBudgets == [requests : Nat, tokens : Int, reserved : Int]

Calls == [at : {"idle", "attempt", "sent"}, size : Nat, api : Nat, capacity : Nat]

Typed ==
  /\ holder \in Processes \cup {None}
  /\ budget \in [Processes -> IntBudgets \cup {None}]
  /\ saved \in IntBudgets \cup {None}
  /\ main \in BOOLEAN
  /\ child \in [Children -> {"none", "running", "paused"}]
  /\ call \in [Agents -> Calls]
  /\ dispatched \in Nat /\ billed \in Int /\ overrun \in Nat

\* The budget accounts for everything that was sent.
Covers(b) == dispatched <= b.requests /\ billed <= b.tokens + b.reserved

\* The budget exceeds its limits only by what requests used beyond estimates.
Within(b) ==
  /\ MaxRequests > 0 => b.requests <= MaxRequests
  /\ MaxTokens > 0 => b.tokens + b.reserved <= MaxTokens + overrun

Good(b) == Covers(b) /\ Within(b)

MemoryGood == \A p \in Processes : budget[p] # None => Good(budget[p])

JournalGood ==
  /\ saved # None => Good(saved)
  /\ saved = None => dispatched = 0 /\ billed <= 0

\* Agents work in a process that has a budget for the thread.
Charged ==
  /\ \A a \in Agents : Active(a) => holder # None /\ budget[holder] # None
  /\ \A a \in Agents : call[a].at # "idle" => Active(a)

BudgetInvariant == Typed /\ MemoryGood /\ JournalGood /\ Charged /\ TurnWithinLimits

-----------------------------------------------------------------------------
(* A budget that is written when no request is sent or settled. *)

\* A restored budget covers and respects what the saved one did.
LEMMA RestoredGood ==
  ASSUME NEW b \in IntBudgets, Good(b), dispatched \in Nat, billed \in Int, overrun \in Nat
  PROVE  Restored(b) \in IntBudgets /\ Good(Restored(b))
BY BudgetAssumption DEF IntBudgets, Restored, Good, Covers, Within

\* None is not a budget.
LEMMA NoneIsNoBudget == None \notin IntBudgets
BY BudgetAssumption DEF IntBudgets

\* sharedTaskBudget returns a budget that covers and respects what was sent.
LEMMA SharedGood ==
  ASSUME BudgetInvariant, NEW p \in Processes
  PROVE  Shared(p) \in IntBudgets /\ Good(Shared(p)) /\ Shared(p) # None
<1>0. Typed /\ MemoryGood /\ JournalGood
  BY DEF BudgetInvariant
<1>1. CASE budget[p] # None
  BY <1>0, <1>1 DEF Shared, Typed, MemoryGood
<1>2. CASE budget[p] = None /\ saved # None
  BY <1>0, <1>2, RestoredGood, NoneIsNoBudget DEF Shared, Typed, JournalGood
<1>3. CASE budget[p] = None /\ saved = None
  <2>1. Shared(p) = NewBudget
    BY <1>3 DEF Shared
  <2>2. NewBudget \in IntBudgets /\ Good(NewBudget)
    BY <1>0, <1>3, BudgetAssumption
    DEF Typed, JournalGood, NewBudget, IntBudgets, Good, Covers, Within
  <2> QED BY <2>1, <2>2, NoneIsNoBudget
<1> QED BY <1>1, <1>2, <1>3

\* Writing a good budget in memory and in the journal keeps both good.
LEMMA WriteKeepsGood ==
  ASSUME Typed, NEW p \in Processes, NEW b \in IntBudgets, Write(p, b), OneProcess,
         Good(b)'
  PROVE  /\ MemoryGood' /\ JournalGood'
         /\ budget' \in [Processes -> IntBudgets \cup {None}] /\ saved' \in IntBudgets
         /\ budget'[p] = b /\ b # None
<1>1. budget' = [budget EXCEPT ![p] = b] /\ saved' = b
  BY DEF Write
<1>2. budget' \in [Processes -> IntBudgets \cup {None}] /\ budget'[p] = b /\ b # None
  BY <1>1, NoneIsNoBudget DEF Typed
<1>3. \A q \in Processes : budget'[q] = b
  BY <1>2 DEF OneProcess
<1> QED BY <1>1, <1>2, <1>3 DEF MemoryGood, JournalGood, Good, Covers, Within

\* A failed write changes the budget in memory only: both stay good when the
\* one in memory is, and the journal's is as good as before.
LEMMA FailedWriteKeepsGood ==
  ASSUME Typed, NEW p \in Processes, NEW b \in IntBudgets, WriteFails(p, b), OneProcess,
         Good(b)', JournalGood, JournalGood => JournalGood'
  PROVE  /\ MemoryGood' /\ JournalGood'
         /\ budget' \in [Processes -> IntBudgets \cup {None}] /\ saved' = saved
         /\ budget'[p] = b /\ b # None
<1>1. budget' = [budget EXCEPT ![p] = b] /\ saved' = saved
  BY DEF WriteFails
<1>2. budget' \in [Processes -> IntBudgets \cup {None}] /\ budget'[p] = b /\ b # None
  BY <1>1, NoneIsNoBudget DEF Typed
<1>3. \A q \in Processes : budget'[q] = b
  BY <1>2 DEF OneProcess
<1> QED BY <1>1, <1>2, <1>3 DEF MemoryGood, Good, Covers, Within

-----------------------------------------------------------------------------
(* A step preserves BudgetInvariant. *)

\* The shape of agents: the main agent is none of the children.
LEMMA AgentFacts == "main" \in Agents /\ (\A a \in Agents : a # "main" => a \in Children)
                    /\ (\A c \in Children : c \in Agents /\ c # "main")
BY BudgetAssumption DEF Agents

\* No request in progress is a legal one.
LEMMA NoCallTyped == NoCall \in Calls
BY DEF NoCall, Calls

\* The initial budget satisfies the invariant.
LEMMA InitBudget == Init => BudgetInvariant
<1> SUFFICES ASSUME Init PROVE BudgetInvariant
  OBVIOUS
<1>1. Typed
  <2>1. call \in [Agents -> Calls]
    BY NoCallTyped DEF Init
  <2>2. child \in [Children -> {"none", "running", "paused"}]
    BY DEF Init
  <2>3. budget \in [Processes -> IntBudgets \cup {None}]
    BY DEF Init
  <2>4. dispatched \in Nat /\ billed \in Int /\ overrun \in Nat
    BY DEF Init
  <2>5. main \in BOOLEAN /\ holder \in Processes \cup {None} /\ saved \in IntBudgets \cup {None}
    BY DEF Init
  <2> QED BY <2>1, <2>2, <2>3, <2>4, <2>5 DEF Typed
<1>2. Charged
  BY AgentFacts DEF Init, Charged, Active, NoCall
<1>3. MemoryGood /\ JournalGood /\ TurnWithinLimits
  BY BudgetAssumption DEF Init, MemoryGood, JournalGood, TurnWithinLimits
<1> QED BY <1>1, <1>2, <1>3 DEF BudgetInvariant

\* Opening the thread: a paused child is resumed on the budget in memory or a restored one.
LEMMA OpenKeeps ==
  ASSUME BudgetInvariant, OneProcess, NEW p \in Processes, Open(p)
  PROVE  BudgetInvariant'
<1>0. Typed /\ MemoryGood /\ JournalGood /\ Charged /\ TurnWithinLimits
  BY DEF BudgetInvariant
<1>1. UNCHANGED <<main, call, dispatched, billed, overrun>> /\ holder' = p /\ holder = None
  BY DEF Open, ghosts
<1>2. child' \in [Children -> {"none", "running", "paused"}]
  BY <1>0 DEF Open, Typed
<1>3. \A a \in Agents : ~Active(a)
  BY <1>0, <1>1 DEF Charged
<1>4. \A a \in Agents : call[a].at = "idle"
  BY <1>0, <1>3 DEF Charged
<1>5. main = FALSE
  BY <1>0, <1>3, AgentFacts DEF Active, Typed
<1>6. TurnWithinLimits'
  BY <1>0, <1>1 DEF TurnWithinLimits
<1>7. CASE (\E c \in Children : child[c] = "paused") /\ budget[p] = None
  <2>1. Write(p, Shared(p))
    BY <1>7 DEF Open
  <2>2. PICK b : b = Shared(p)
    OBVIOUS
  <2>3. b \in IntBudgets /\ Good(b)
    BY <2>2, SharedGood
  <2>4. Good(b)'
    BY <2>3, <1>1 DEF Good, Covers, Within
  <2>5. /\ MemoryGood' /\ JournalGood'
        /\ budget' \in [Processes -> IntBudgets \cup {None}] /\ saved' \in IntBudgets
        /\ budget'[p] # None
    BY <2>1, <2>2, <2>3, <2>4, <1>0, WriteKeepsGood
  <2>6. Typed'
    BY <1>0, <1>1, <1>2, <2>5 DEF Typed
  <2>7. Charged'
    BY <1>1, <1>4, <2>5, BudgetAssumption DEF Charged, Active
  <2> QED BY <1>6, <2>5, <2>6, <2>7 DEF BudgetInvariant
<1>8. CASE ~((\E c \in Children : child[c] = "paused") /\ budget[p] = None)
  <2>1. UNCHANGED <<budget, saved>>
    BY <1>8 DEF Open
  <2>2. MemoryGood' /\ JournalGood'
    BY <1>0, <1>1, <2>1 DEF MemoryGood, JournalGood, Good, Covers, Within
  <2>3. Typed'
    BY <1>0, <1>1, <1>2, <2>1 DEF Typed
  <2>4. \A c \in Children : child'[c] = "running" => child[c] = "paused"
    <3>1. child' = [c \in Children |-> IF child[c] = "paused" THEN "running" ELSE child[c]]
      BY DEF Open
    <3>2. \A c \in Children : child[c] # "running"
      BY <1>3, AgentFacts DEF Active
    <3> QED BY <3>1, <3>2
  <2>5. \A a \in Agents : Active(a)' => budget[p] # None
    BY <1>1, <1>5, <1>8, <2>4, AgentFacts DEF Active
  <2>6. Charged'
    BY <1>1, <1>4, <2>1, <2>5, BudgetAssumption DEF Charged
  <2> QED BY <1>6, <2>2, <2>3, <2>6 DEF BudgetInvariant
<1> QED BY <1>7, <1>8

\* A turn starts: on a new budget, or on the one its children still work on.
LEMMA PromptKeeps ==
  ASSUME BudgetInvariant, OneProcess, Prompt
  PROVE  BudgetInvariant'
<1>0. Typed /\ MemoryGood /\ JournalGood /\ Charged /\ TurnWithinLimits
  BY DEF BudgetInvariant
<1>1. UNCHANGED <<holder, child, call>> /\ main' = TRUE /\ holder \in Processes
  BY <1>0 DEF Prompt, Typed
<1>2. \A a \in Agents : Active(a) => Active(a)'
  BY <1>1 DEF Active
<1>3. CASE (\E c \in Children : child[c] = "running")
  <2>1. budget[holder] # None
    BY <1>0, <1>3, AgentFacts DEF Charged, Active
  <2>2. UNCHANGED <<budget, saved, dispatched, billed, overrun>>
    BY <1>3, <2>1 DEF Prompt, Mine, ghosts
  <2>3. Typed'
    BY <1>0, <1>1, <2>2 DEF Typed
  <2>4. MemoryGood' /\ JournalGood' /\ TurnWithinLimits'
    BY <1>0, <2>2 DEF MemoryGood, JournalGood, Good, Covers, Within, TurnWithinLimits
  <2>5. Charged'
    BY <1>0, <1>1, <1>2, <2>1, <2>2, BudgetAssumption DEF Charged
  <2> QED BY <2>3, <2>4, <2>5 DEF BudgetInvariant
<1>4. CASE ~(\E c \in Children : child[c] = "running")
  <2>1. Write(holder, NewBudget) /\ dispatched' = 0 /\ billed' = 0 /\ overrun' = 0
    BY <1>4 DEF Prompt
  <2>2. PICK b : b = NewBudget
    OBVIOUS
  <2>3. b \in IntBudgets /\ Good(b)'
    BY <2>1, <2>2, BudgetAssumption DEF NewBudget, IntBudgets, Good, Covers, Within
  <2>4. /\ MemoryGood' /\ JournalGood'
        /\ budget' \in [Processes -> IntBudgets \cup {None}] /\ saved' \in IntBudgets
        /\ budget'[holder] # None
    BY <1>0, <1>1, <2>1, <2>2, <2>3, WriteKeepsGood
  <2>5. Typed'
    BY <1>0, <1>1, <2>1, <2>4 DEF Typed
  <2>6. Charged'
    BY <1>0, <1>1, <1>2, <2>4, BudgetAssumption DEF Charged
  <2>7. TurnWithinLimits'
    BY <2>1, BudgetAssumption DEF TurnWithinLimits
  <2> QED BY <2>4, <2>5, <2>6, <2>7 DEF BudgetInvariant
<1> QED BY <1>3, <1>4

\* Steps that touch no budget keep every part but Typed and Charged.
LEMMA OthersKeep ==
  ASSUME BudgetInvariant, UNCHANGED <<budget, saved, dispatched, billed, overrun>>, Typed', Charged'
  PROVE  BudgetInvariant'
<1>0. MemoryGood /\ JournalGood /\ TurnWithinLimits
  BY DEF BudgetInvariant
<1>1. MemoryGood' /\ JournalGood' /\ TurnWithinLimits'
  BY <1>0 DEF MemoryGood, JournalGood, Good, Covers, Within, TurnWithinLimits
<1> QED BY <1>1 DEF BudgetInvariant

\* Leaving the thread, starting and ending agents touch no budget.
LEMMA ThreadKeeps ==
  ASSUME BudgetInvariant,
         Leave \/ (\E c \in Children : Spawn(c)) \/ (\E a \in Agents : End(a))
  PROVE  BudgetInvariant'
<1>0. Typed /\ Charged
  BY DEF BudgetInvariant
<1>1. UNCHANGED <<budget, saved, call, dispatched, billed, overrun>>
  BY DEF Leave, Spawn, End, ghosts
<1>2. CASE Leave
  <2>1. /\ holder' = None /\ main = FALSE /\ main' = FALSE /\ \A a \in Agents : call[a].at = "idle"
        /\ child' = [c \in Children |-> IF child[c] = "running" THEN "paused" ELSE child[c]]
    BY <1>0, <1>2 DEF Leave, Typed
  <2>2. Typed'
    BY <1>0, <1>1, <2>1 DEF Typed
  <2>3. \A a \in Agents : ~Active(a)'
    BY <2>1, AgentFacts DEF Active
  <2>4. Charged'
    BY <1>1, <2>1, <2>3 DEF Charged
  <2> QED BY <1>1, <2>2, <2>4, OthersKeep
<1>3. ASSUME NEW c \in Children, Spawn(c) PROVE BudgetInvariant'
  <2>1. main /\ UNCHANGED <<holder, main>> /\ child' = [child EXCEPT ![c] = "running"]
    BY <1>3 DEF Spawn
  <2>2. Typed'
    BY <1>0, <1>1, <2>1 DEF Typed
  <2>3. holder # None /\ budget[holder] # None
    BY <1>0, <2>1, AgentFacts DEF Charged, Active
  <2>4. \A a \in Agents : Active(a) => Active(a)'
    BY <1>0, <2>1, AgentFacts DEF Active, Typed
  <2>5. Charged'
    BY <1>0, <1>1, <2>1, <2>3, <2>4 DEF Charged
  <2> QED BY <1>1, <2>2, <2>5, OthersKeep
<1>4. ASSUME NEW e \in Agents, End(e) PROVE BudgetInvariant'
  <2>1. Active(e) /\ call[e].at = "idle" /\ holder' = holder
    BY <1>4 DEF End
  <2>2. Typed'
    BY <1>0, <1>1, <1>4, AgentFacts DEF Typed, End
  <2>3. \A a \in Agents : a # e => Active(a)' = Active(a)
    BY <1>0, <1>4, AgentFacts DEF Active, End, Typed
  <2>4. holder # None /\ budget[holder] # None
    BY <1>0, <2>1 DEF Charged
  <2>5. Charged'
    BY <1>0, <1>1, <2>1, <2>3, <2>4 DEF Charged
  <2> QED BY <1>1, <2>2, <2>5, OthersKeep
<1> QED BY <1>2, <1>3, <1>4

\* A crash loses the budget in memory: the journal's stands for it.
LEMMA CrashKeeps ==
  ASSUME BudgetInvariant, NEW p \in Processes, Crash(p), OneProcess
  PROVE  BudgetInvariant'
<1>0. Typed /\ MemoryGood /\ JournalGood /\ Charged /\ TurnWithinLimits
  BY DEF BudgetInvariant
<1>1. UNCHANGED <<saved, dispatched, billed, overrun>> /\ budget' = [budget EXCEPT ![p] = None]
  BY DEF Crash, ghosts
<1>2. Typed'
  <2>1. call' \in [Agents -> Calls]
    BY <1>0, NoCallTyped DEF Crash, Typed
  <2>2. budget' \in [Processes -> IntBudgets \cup {None}]
    BY <1>0, <1>1 DEF Typed
  <2>3. child' \in [Children -> {"none", "running", "paused"}] /\ main' \in BOOLEAN /\ holder' \in Processes \cup {None}
    BY <1>0 DEF Crash, Typed
  <2> QED BY <1>0, <1>1, <2>1, <2>2, <2>3 DEF Typed
<1>3. MemoryGood' /\ JournalGood' /\ TurnWithinLimits'
  BY <1>0, <1>1 DEF Typed, MemoryGood, JournalGood, Good, Covers, Within, TurnWithinLimits
<1>4. CASE holder = p
  <2>1. /\ main' = FALSE /\ call' = [a \in Agents |-> NoCall]
        /\ child' = [c \in Children |-> IF child[c] = "running" THEN "paused" ELSE child[c]]
    BY <1>4 DEF Crash
  <2>2. \A a \in Agents : ~Active(a)' /\ call'[a].at = "idle"
    BY <2>1, AgentFacts DEF Active, NoCall
  <2> QED BY <1>2, <1>3, <2>2 DEF BudgetInvariant, Charged
<1>5. CASE holder # p
  <2>1. holder = None
    BY <1>0, <1>5 DEF OneProcess, Typed
  <2>2. UNCHANGED <<holder, main, child, call>>
    BY <1>5 DEF Crash
  <2>3. Charged'
    BY <1>0, <2>1, <2>2 DEF Charged, Active
  <2> QED BY <1>2, <1>3, <2>3 DEF BudgetInvariant
<1> QED BY <1>4, <1>5

\* A request that is not sent touches no budget.
LEMMA AskKeeps ==
  ASSUME BudgetInvariant, NEW e \in Agents, Ask(e) \/ GiveUp(e)
  PROVE  BudgetInvariant'
<1>0. Typed /\ Charged
  BY DEF BudgetInvariant
<1>1. UNCHANGED <<holder, budget, saved, main, child, dispatched, billed, overrun>>
  BY DEF Ask, GiveUp, ghosts
<1>2. call' \in [Agents -> Calls]
  <2>1. \A size \in Sizes : [NoCall EXCEPT !.at = "attempt", !.size = size] \in Calls
    BY BudgetAssumption DEF NoCall, Calls
  <2> QED BY <1>0, <2>1, NoCallTyped DEF Typed, Ask, GiveUp
<1>3. Active(e)
  BY <1>0 DEF Ask, GiveUp, Charged
<1>4. \A a \in Agents : a # e => call'[a] = call[a]
  BY <1>0 DEF Typed, Ask, GiveUp
<1>5. Typed'
  BY <1>0, <1>1, <1>2 DEF Typed
<1>6. Charged'
  BY <1>0, <1>1, <1>3, <1>4 DEF Charged, Active
<1> QED BY <1>1, <1>5, <1>6, OthersKeep

-----------------------------------------------------------------------------
(* Requests that are sent and settled. *)

\* A change of one agent's request, budgets and counters aside.
LEMMA CallKeepsCharged ==
  ASSUME Typed, Charged, NEW e \in Agents, call[e].at # "idle",
         UNCHANGED <<holder, main, child>>, budget'[holder] # None,
         NEW c \in Calls, call' = [call EXCEPT ![e] = c]
  PROVE  Charged' /\ call' \in [Agents -> Calls]
<1>1. call' \in [Agents -> Calls] /\ \A a \in Agents : a # e => call'[a] = call[a]
  BY DEF Typed
<1>2. \A a \in Agents : Active(a)' = Active(a)
  BY DEF Active
<1> QED BY <1>1, <1>2 DEF Charged

\* A debited budget covers one more request of that size, within the limits.
LEMMA DebitedGood ==
  ASSUME NEW b \in IntBudgets, Good(b), NEW size \in Nat, Fits(b, size),
         dispatched \in Nat, billed \in Int, overrun \in Nat
  PROVE  /\ Debited(b, size) \in IntBudgets
         /\ dispatched + 1 <= Debited(b, size).requests
         /\ billed + size <= Debited(b, size).tokens + Debited(b, size).reserved
         /\ Within(Debited(b, size))
         /\ MaxRequests > 0 => dispatched + 1 <= MaxRequests
         /\ MaxTokens > 0 => billed + size <= MaxTokens
<1> DEFINE d == Debited(b, size)
<1>2. b.requests \in Nat /\ b.tokens \in Int /\ b.reserved \in Int
  BY DEF IntBudgets
<1>1. d \in IntBudgets /\ d.requests = b.requests + 1 /\ d.tokens = b.tokens /\ d.reserved = b.reserved + size
  <2>1. PICK x \in Nat : x = b.requests + 1
    BY <1>2
  <2>2. PICK y \in Int : y = b.reserved + size
    BY <1>2
  <2>3. d = [b EXCEPT !.requests = x, !.reserved = y]
    BY <2>1, <2>2 DEF Debited
  <2> HIDE DEF d
  <2>4. d \in IntBudgets /\ d.requests = x /\ d.tokens = b.tokens /\ d.reserved = y
    BY <2>3 DEF IntBudgets
  <2> QED BY <2>1, <2>2, <2>4
<1>3. /\ MaxRequests \in Nat /\ MaxTokens \in Nat
      /\ MaxRequests = 0 \/ b.requests < MaxRequests
      /\ MaxTokens = 0 \/ b.tokens + b.reserved + size <= MaxTokens
  BY BudgetAssumption DEF Fits
<1>4. dispatched <= b.requests /\ billed <= b.tokens + b.reserved
  BY DEF Good, Covers
<1> HIDE DEF d
<1>5. Within(d)
  BY <1>1, <1>2, <1>3 DEF Within
<1> QED BY <1>1, <1>2, <1>3, <1>4, <1>5 DEF d

\* What a settled budget charges covers what the request used.
LEMMA SettledTotal ==
  ASSUME NEW b \in IntBudgets, NEW size \in Nat, NEW used \in Int
  PROVE  /\ Settled(b, size, used) \in IntBudgets
         /\ Settled(b, size, used).requests = b.requests
         /\ Settled(b, size, used).tokens + Settled(b, size, used).reserved
              = b.tokens + b.reserved + (IF used = -1 THEN 0 ELSE used - size)
<1> DEFINE d == Settled(b, size, used)
           spent == IF used = -1 THEN size ELSE used
<1>1. b.requests \in Nat /\ b.tokens \in Int /\ b.reserved \in Int /\ spent \in Int
  BY DEF IntBudgets
<1>2. PICK x \in Int : x = b.reserved - size
  BY <1>1
<1>3. PICK y \in Int : y = b.tokens + spent
  BY <1>1
<1>4. d = [b EXCEPT !.reserved = x, !.tokens = y]
  BY <1>2, <1>3 DEF Settled
<1> HIDE DEF d
<1>5. d \in IntBudgets /\ d.requests = b.requests /\ d.tokens = y /\ d.reserved = x
  BY <1>4 DEF IntBudgets
<1> QED BY <1>1, <1>2, <1>3, <1>5 DEF d

\* Sending a request: it is sent only when its debit is in the journal.
LEMMA SendKeeps ==
  ASSUME BudgetInvariant, OneProcess, NEW e \in Agents, Send(e)
  PROVE  BudgetInvariant'
<1>0. Typed /\ MemoryGood /\ JournalGood /\ Charged /\ TurnWithinLimits
  BY DEF BudgetInvariant
<1>1. /\ call[e].at = "attempt" /\ Fits(Mine, call[e].size)
      /\ UNCHANGED <<holder, main, child, overrun>>
  BY DEF Send
<1>2. holder \in Processes /\ Mine \in IntBudgets /\ Mine = budget[holder]
      /\ call[e].size \in Nat /\ call[e] \in Calls
  BY <1>0, <1>1 DEF Typed, Charged, Mine, Calls
<1>3. PICK m \in IntBudgets : m = Mine
  BY <1>2
<1>4. PICK size \in Nat : size = call[e].size
  BY <1>2
<1>5. PICK b : b = Debited(m, size)
  OBVIOUS
<1>6. Good(m)
  BY <1>0, <1>2, <1>3, NoneIsNoBudget DEF MemoryGood
<1>7. /\ b \in IntBudgets
      /\ dispatched + 1 <= b.requests
      /\ billed + size <= b.tokens + b.reserved
      /\ Within(b)
      /\ MaxRequests > 0 => dispatched + 1 <= MaxRequests
      /\ MaxTokens > 0 => billed + size <= MaxTokens
  BY <1>0, <1>1, <1>3, <1>4, <1>5, <1>6, DebitedGood DEF Typed
<1>8. CASE Write(holder, b) /\ call' = [call EXCEPT ![e].at = "sent"]
           /\ dispatched' = dispatched + 1 /\ billed' = billed + size
  <2>1. Good(b)'
    BY <1>1, <1>7, <1>8 DEF Good, Covers, Within
  <2>2. /\ MemoryGood' /\ JournalGood'
        /\ budget' \in [Processes -> IntBudgets \cup {None}] /\ saved' \in IntBudgets
        /\ budget'[holder] # None
    BY <1>0, <1>2, <1>7, <1>8, <2>1, WriteKeepsGood
  <2>3. PICK c \in Calls : call' = [call EXCEPT ![e] = c]
    BY <1>2, <1>8 DEF Calls
  <2>4. Charged' /\ call' \in [Agents -> Calls]
    BY <1>0, <1>1, <2>2, <2>3, CallKeepsCharged
  <2>5. Typed'
    BY <1>0, <1>1, <1>4, <1>8, <2>2, <2>4 DEF Typed
  <2>6. TurnWithinLimits'
    BY <1>7, <1>8 DEF TurnWithinLimits
  <2> QED BY <2>2, <2>4, <2>5, <2>6 DEF BudgetInvariant
<1>9. CASE WriteFails(holder, b) /\ call' = [call EXCEPT ![e] = NoCall]
           /\ UNCHANGED <<dispatched, billed>>
  <2>1. Good(b)'
    BY <1>0, <1>1, <1>2, <1>4, <1>7, <1>9 DEF Good, Covers, Within, Typed, IntBudgets
  <2>2. saved' = saved
    BY <1>9 DEF WriteFails
  <2>3. JournalGood'
    BY <1>0, <1>1, <1>9, <2>2 DEF JournalGood, Good, Covers, Within
  <2>4. /\ MemoryGood'
        /\ budget' \in [Processes -> IntBudgets \cup {None}]
        /\ budget'[holder] # None
    BY <1>0, <1>2, <1>7, <1>9, <2>1, <2>3, FailedWriteKeepsGood
  <2>5. Charged' /\ call' \in [Agents -> Calls]
    BY <1>0, <1>1, <1>9, <2>4, NoCallTyped, CallKeepsCharged
  <2>6. Typed'
    BY <1>0, <1>1, <1>9, <2>2, <2>4, <2>5 DEF Typed
  <2>7. TurnWithinLimits'
    BY <1>0, <1>9 DEF TurnWithinLimits
  <2> QED BY <2>3, <2>4, <2>5, <2>6, <2>7 DEF BudgetInvariant
<1>10. \/ Write(holder, b) /\ call' = [call EXCEPT ![e].at = "sent"]
          /\ dispatched' = dispatched + 1 /\ billed' = billed + size
       \/ WriteFails(holder, b) /\ call' = [call EXCEPT ![e] = NoCall]
          /\ UNCHANGED <<dispatched, billed>>
  BY <1>3, <1>4, <1>5 DEF Send
<1> QED BY <1>8, <1>9, <1>10

\* Settling a request, whatever the agent does with it then.
LEMMA SettleKeeps ==
  ASSUME BudgetInvariant, OneProcess, NEW e \in Agents, call[e].at = "sent",
         NEW used \in Int, used >= -1, Settle(e, used),
         NEW c \in Calls, call' = [call EXCEPT ![e] = c]
  PROVE  BudgetInvariant'
<1>0. Typed /\ MemoryGood /\ JournalGood /\ Charged /\ TurnWithinLimits
  BY DEF BudgetInvariant
<1>1. UNCHANGED <<holder, main, child, dispatched>>
  BY DEF Settle
<1>2. holder \in Processes /\ Mine \in IntBudgets /\ Mine = budget[holder] /\ call[e].size \in Nat
  BY <1>0 DEF Typed, Charged, Mine, Calls
<1>3. PICK m \in IntBudgets : m = Mine
  BY <1>2
<1>4. PICK size \in Nat : size = call[e].size
  BY <1>2
<1>5. PICK b : b = Settled(m, size, used)
  OBVIOUS
<1>6. Good(m)
  BY <1>0, <1>2, <1>3, NoneIsNoBudget DEF MemoryGood
<1>7. b \in IntBudgets /\ b.requests = m.requests
      /\ b.tokens + b.reserved = m.tokens + m.reserved + (IF used = -1 THEN 0 ELSE used - size)
  BY <1>5, SettledTotal
<1>8. /\ billed' = IF used = -1 \/ used > size THEN billed ELSE billed - size + used
      /\ overrun' = IF used > size THEN overrun + used - size ELSE overrun
  BY <1>4 DEF Settle
<1>9. billed \in Int /\ overrun \in Nat /\ billed' \in Int /\ overrun' \in Nat
      /\ billed' <= billed /\ overrun <= overrun'
  BY <1>0, <1>8 DEF Typed
<1>10. Good(b)'
  <2>1. m.tokens \in Int /\ m.reserved \in Int /\ b.tokens \in Int /\ b.reserved \in Int
    BY <1>7 DEF IntBudgets
  <2>2. Covers(b)'
    BY <1>1, <1>6, <1>7, <1>8, <1>9, <2>1 DEF Good, Covers
  <2>3. Within(b)'
    BY <1>6, <1>7, <1>8, <1>9, <2>1, BudgetAssumption DEF Good, Within
  <2> QED BY <2>2, <2>3 DEF Good
<1>11. TurnWithinLimits'
  BY <1>0, <1>1, <1>9, BudgetAssumption DEF TurnWithinLimits
<1>12. Write(holder, b) \/ WriteFails(holder, b)
  BY <1>3, <1>4, <1>5 DEF Settle
<1>13. /\ MemoryGood' /\ JournalGood'
       /\ budget' \in [Processes -> IntBudgets \cup {None}]
       /\ saved' \in IntBudgets \cup {None} /\ budget'[holder] # None
  <2>1. CASE Write(holder, b)
    BY <1>0, <1>2, <1>7, <1>10, <2>1, WriteKeepsGood
  <2>2. CASE WriteFails(holder, b)
    <3>1. saved' = saved /\ saved \in IntBudgets \cup {None}
      BY <1>0, <2>2 DEF WriteFails, Typed
    <3>2. JournalGood'
      <4>1. saved # None => saved.tokens \in Int /\ saved.reserved \in Int
        BY <3>1 DEF IntBudgets
      <4> QED BY <1>0, <1>1, <1>9, <3>1, <4>1, BudgetAssumption DEF JournalGood, Good, Covers, Within
    <3> QED BY <1>0, <1>2, <1>7, <1>10, <2>2, <3>1, <3>2, FailedWriteKeepsGood
  <2> QED BY <1>12, <2>1, <2>2
<1>14. Charged' /\ call' \in [Agents -> Calls]
  BY <1>0, <1>1, <1>13, CallKeepsCharged
<1>15. Typed'
  BY <1>0, <1>1, <1>9, <1>13, <1>14 DEF Typed
<1> QED BY <1>11, <1>13, <1>14, <1>15 DEF BudgetInvariant

\* A request that ends, whether it is answered, abandoned or tried again.
LEMMA SettledStepKeeps ==
  ASSUME BudgetInvariant, OneProcess, NEW e \in Agents, Answer(e) \/ Fail(e)
  PROVE  BudgetInvariant'
<1>0. Typed /\ call[e].at = "sent" /\ call[e] \in Calls
  BY DEF BudgetInvariant, Typed, Answer, Fail
<1>1. CASE Answer(e)
  <2>1. PICK used \in {-1} \cup 0 .. call[e].size + 1 : Settle(e, used)
    BY <1>1 DEF Answer
  <2>2. used \in Int /\ used >= -1
    BY <1>0, <2>1 DEF Calls
  <2>3. call' = [call EXCEPT ![e] = NoCall]
    BY <1>1 DEF Answer
  <2> QED BY <1>0, <2>1, <2>2, <2>3, NoCallTyped, SettleKeeps
<1>2. CASE Fail(e)
  <2>1. PICK c \in Calls : call' = [call EXCEPT ![e] = c]
    <3>1. CASE call' = [call EXCEPT ![e] = NoCall]
      BY <3>1, NoCallTyped
    <3>2. CASE call' = [call EXCEPT ![e].at = "attempt", ![e].api = @ + 1]
      <4>0. call[e].api + 1 \in Nat
        BY <1>0 DEF Calls
      <4>1. [call[e] EXCEPT !.at = "attempt", !.api = @ + 1] \in Calls
        BY <1>0, <4>0 DEF Calls
      <4>2. call' = [call EXCEPT ![e] = [call[e] EXCEPT !.at = "attempt", !.api = @ + 1]]
        BY <1>0, <3>2 DEF Typed
      <4> QED BY <4>1, <4>2
    <3>3. CASE \E size \in Sizes :
                 call' = [call EXCEPT ![e].at = "attempt", ![e].capacity = @ + 1, ![e].size = size]
      <4>1. PICK size \in Sizes :
                 call' = [call EXCEPT ![e].at = "attempt", ![e].capacity = @ + 1, ![e].size = size]
        BY <3>3
      <4>2. call[e].capacity + 1 \in Nat /\ size \in Nat
        BY <1>0, BudgetAssumption DEF Calls
      <4>3. [call[e] EXCEPT !.at = "attempt", !.capacity = @ + 1, !.size = size] \in Calls
        BY <1>0, <4>2 DEF Calls
      <4>4. call' = [call EXCEPT ![e] = [call[e] EXCEPT !.at = "attempt", !.capacity = @ + 1, !.size = size]]
        BY <1>0, <4>1 DEF Typed
      <4> QED BY <4>3, <4>4
    <3> QED BY <1>2, <3>1, <3>2, <3>3 DEF Fail
  <2>2. Settle(e, -1)
    BY <1>2 DEF Fail
  <2>3. -1 \in Int /\ -1 >= -1
    OBVIOUS
  <2> QED BY <1>0, <2>1, <2>2, <2>3, SettleKeeps
<1> QED BY <1>1, <1>2

-----------------------------------------------------------------------------
(* The theorems *)

\* BudgetInvariant is inductive when one process uses the thread.
LEMMA StepKeeps ==
  ASSUME BudgetInvariant, OneProcess, [Next]_vars
  PROVE  BudgetInvariant'
<1>1. CASE UNCHANGED vars
  <2>1. UNCHANGED <<holder, budget, saved, main, child, call, dispatched, billed, overrun>>
    BY <1>1 DEF vars, ghosts
  <2> QED BY <2>1 DEF BudgetInvariant, Typed, MemoryGood, JournalGood, Good, Covers, Within,
                      Charged, Active, TurnWithinLimits
<1>2. ASSUME NEW p \in Processes, Open(p) \/ Crash(p) PROVE BudgetInvariant'
  BY <1>2, OpenKeeps, CrashKeeps
<1>3. CASE Prompt
  BY <1>3, PromptKeeps
<1>4. CASE Leave \/ (\E c \in Children : Spawn(c)) \/ (\E a \in Agents : End(a))
  BY <1>4, ThreadKeeps
<1>5. ASSUME NEW a \in Agents, Ask(a) \/ GiveUp(a) PROVE BudgetInvariant'
  BY <1>5, AskKeeps
<1>6. ASSUME NEW a \in Agents, Send(a) PROVE BudgetInvariant'
  BY <1>6, SendKeeps
<1>7. ASSUME NEW a \in Agents, Answer(a) \/ Fail(a) PROVE BudgetInvariant'
  BY <1>7, SettledStepKeeps
<1> QED BY <1>1, <1>2, <1>3, <1>4, <1>5, <1>6, <1>7 DEF Next

\* Every reachable state satisfies the invariant when one process uses the thread.
THEOREM BudgetStaysGood ==
  ASSUME OneProcess PROVE Spec => []BudgetInvariant
<1>1. Init => BudgetInvariant
  BY InitBudget
<1>2. BudgetInvariant /\ [Next]_vars => BudgetInvariant'
  BY StepKeeps
<1> QED BY <1>1, <1>2, PTL DEF Spec

\* No crash, no retry and no failed write makes a request free.
THEOREM NoRequestIsFree ==
  ASSUME OneProcess PROVE Spec => []NothingIsFree
<1>1. BudgetInvariant => NothingIsFree
  BY DEF BudgetInvariant, Typed, JournalGood, Good, Covers, NothingIsFree
<1> QED BY <1>1, BudgetStaysGood, PTL

\* A turn never sends more than its limits allow.
THEOREM LimitsHold ==
  ASSUME OneProcess PROVE Spec => []TurnWithinLimits
<1>1. BudgetInvariant => TurnWithinLimits
  BY DEF BudgetInvariant
<1> QED BY <1>1, BudgetStaysGood, PTL

-----------------------------------------------------------------------------
(* Attached images *)

\* What the names and the bounds may be.
ImagesConstants ==
  /\ Nobody \notin Workers /\ Dead \notin Workers
  /\ MaxAges \in Nat /\ MaxSlips \in Nat

\* While the lock is wanted or held, and while a collection runs.
Working == {"create", "create again", "steal", "steal again", "snapshot", "examine", "sweep", "unmark", "release"}

\* The images of a message not sent yet are their process's, file and marker.
DraftInv ==
  \A p \in Workers : \A i \in draft[p] :
    /\ owner[i] = p
    /\ i \notin mentioned => image[i] # "none" /\ marker[i] # "none"

\* An image being imported is nobody else's, and no message has it yet.
ImportInv ==
  \A p \in Workers : Attachments!At(p, {"importing"}) =>
    \A i \in window[p].todo : owner[i] = p /\ image[i] = "new" /\ i \notin draft[p]

\* An image being removed is out of the message.
RemoveInv ==
  \A p \in Workers : Attachments!At(p, {"removing"}) =>
    \A i \in window[p].kept : owner[i] = p /\ i \notin draft[p]

\* Markers are released only of images that a journal refers to.
CommitOK(p) ==
  /\ Attachments!At(p, {"commit"}) => window[p].todo \subseteq mentioned
  /\ (Attachments!At(p, Working) /\ window[p].goal = "commit") => window[p].todo \cup window[p].kept \subseteq mentioned
  /\ Attachments!At(p, {"unmark"}) => window[p].goal = "commit"
  /\ Attachments!At(p, {"snapshot", "examine", "sweep"}) => window[p].goal # "commit"

\* A process that ends has no message left.
StopOK(p) == (Attachments!At(p, Working) /\ window[p].goal = "stop") => draft[p] = {}

WorkInv == \A p \in Workers : CommitOK(p) /\ StopOK(p)

\* q's collection has looked for i's marker.
Examined(q, i) == Attachments!At(q, {"sweep"}) \/ (Attachments!At(q, {"examine"}) /\ i \notin window[q].todo)

\* What it saw of the journals is still true, and it spares every staged image.
SweepInv ==
  \A q \in Workers :
    /\ Attachments!At(q, {"examine", "sweep"}) => window[q].seen \subseteq mentioned
    /\ \A p \in Workers : \A i \in draft[p] \ mentioned :
         Examined(q, i) => (i \in window[q].kept \/ image[i] = "new")

ImageInv == Attachments!TypeOK /\ DraftInv /\ ImportInv /\ RemoveInv /\ WorkInv /\ SweepInv

-----------------------------------------------------------------------------
(* Initially, and when nothing happens *)

LEMMA ImagesTyped ==
  ASSUME ImageInv
  PROVE  /\ window \in [Workers -> Attachments!Doing]
         /\ \A q \in Workers :
              /\ window[q].todo \subseteq Images /\ window[q].kept \subseteq Images /\ window[q].seen \subseteq Images
              /\ draft[q] \subseteq Images
BY DEF ImageInv, Attachments!TypeOK, Attachments!Doing

\* What a process does next has the type it has.
LEMMA StepTyped ==
  ASSUME ImageInv, NEW p \in Workers, NEW r \in Attachments!Doing, window' = [window EXCEPT ![p] = r]
  PROVE  /\ window' \in [Workers -> Attachments!Doing] /\ window'[p] = r
         /\ \A q \in Workers \ {p} : window'[q] = window[q]
BY ImagesTyped

\* What the others do stays what it was.
LEMMA OthersWork ==
  ASSUME WorkInv, NEW p \in Workers, \A q \in Workers \ {p} : window'[q] = window[q] /\ draft'[q] = draft[q],
         mentioned \subseteq mentioned', CommitOK(p)', StopOK(p)'
  PROVE  WorkInv'
<1>1. ASSUME NEW q \in Workers \ {p} PROVE CommitOK(q)' /\ StopOK(q)'
  BY <1>1 DEF WorkInv, CommitOK, StopOK, Attachments!At
<1> QED BY <1>1 DEF WorkInv

LEMMA InitInv == ASSUME ImagesConstants, Attachments!Init PROVE ImageInv
<1>1. window \in [Workers -> Attachments!Doing]
  BY DEF Attachments!Init, Attachments!Doing, Attachments!Down, Attachments!Resting
<1>2. Attachments!TypeOK
  BY <1>1 DEF ImagesConstants, Attachments!Init, Attachments!TypeOK, Attachments!Free, Attachments!Age3
<1>3. \A p \in Workers : window[p].at = "down" /\ draft[p] = {} BY DEF Attachments!Init, Attachments!Down
<1> QED
  BY <1>2, <1>3 DEF ImageInv, DraftInv, ImportInv, RemoveInv, WorkInv, CommitOK, StopOK, SweepInv, Examined,
    Attachments!At, Working

LEMMA StutterInv == ASSUME ImageInv, UNCHANGED Attachments!vars PROVE ImageInv'
<1>1. Attachments!TypeOK' BY DEF ImageInv, Attachments!TypeOK, Attachments!vars, Attachments!disk
<1>2. DraftInv' BY DEF ImageInv, DraftInv, Attachments!vars, Attachments!disk
<1>3. ImportInv' BY DEF ImageInv, ImportInv, Attachments!At, Attachments!vars, Attachments!disk
<1>4. RemoveInv' BY DEF ImageInv, RemoveInv, Attachments!At, Attachments!vars, Attachments!disk
<1>5. WorkInv' BY DEF ImageInv, WorkInv, CommitOK, StopOK, Attachments!At, Attachments!vars, Attachments!disk
<1>6. SweepInv' BY DEF ImageInv, SweepInv, Examined, Attachments!At, Attachments!vars, Attachments!disk
<1> QED BY <1>1, <1>2, <1>3, <1>4, <1>5, <1>6 DEF ImageInv

-----------------------------------------------------------------------------
(* A message and its images *)

LEMMA ImportPreserves ==
  ASSUME ImagesConstants, ImageInv, NEW p \in Workers, NEW i \in Images, Attachments!Import(p, i)
  PROVE  ImageInv'
<1> DEFINE r == [window[p] EXCEPT !.at = "importing", !.todo = {i}]
<1>1. r \in Attachments!Doing /\ r.at = "importing" /\ r.todo = {i}
  BY ImagesTyped DEF Attachments!Doing, Attachments!Resting
<1>2. window' = [window EXCEPT ![p] = r] BY ImagesTyped DEF Attachments!Import, Attachments!Doing
<1> HIDE DEF r
<1>3. /\ window[p].at = "idle" /\ owner[i] = Nobody
      /\ \A j \in Images \ {i} : image'[j] = image[j] /\ owner'[j] = owner[j]
      /\ image'[i] = "new" /\ owner'[i] = p
      /\ UNCHANGED <<marker, gcLock, mentioned, draft, ages, slips>>
  BY DEF ImageInv, Attachments!TypeOK, Attachments!Import, Attachments!At
<1>4. /\ window' \in [Workers -> Attachments!Doing] /\ window'[p] = r
      /\ \A q \in Workers \ {p} : window'[q] = window[q] BY <1>1, <1>2, StepTyped
<1>5. Attachments!TypeOK' BY <1>4 DEF ImageInv, Attachments!Import, Attachments!TypeOK, Attachments!Age3
<1>6. \A q \in Workers : i \notin draft[q] BY <1>3 DEF ImagesConstants, ImageInv, DraftInv
<1>7. DraftInv' BY <1>3, <1>6, ImagesTyped DEF ImageInv, DraftInv
<1>8. ImportInv' BY <1>1, <1>3, <1>4, <1>6, ImagesTyped DEF ImageInv, ImportInv, Attachments!At, ImagesConstants
<1>9. RemoveInv' BY <1>1, <1>3, <1>4, <1>6, ImagesTyped DEF ImageInv, RemoveInv, Attachments!At, ImagesConstants
<1>10. CommitOK(p)' /\ StopOK(p)' BY <1>1, <1>4 DEF CommitOK, StopOK, Attachments!At, Working
<1>11. WorkInv' BY <1>3, <1>4, <1>10, OthersWork DEF ImageInv
<1>12. SweepInv' BY <1>1, <1>3, <1>4, <1>6, ImagesTyped DEF ImageInv, SweepInv, Examined, Attachments!At
<1> QED BY <1>5, <1>7, <1>8, <1>9, <1>11, <1>12 DEF ImageInv

LEMMA CreatePendingMarkerPreserves ==
  ASSUME ImagesConstants, ImageInv, NEW p \in Workers, Attachments!CreatePendingMarker(p)
  PROVE  ImageInv'
<1> DEFINE r == [window[p] EXCEPT !.at = "idle", !.todo = {}]
           T == window[p].todo
<1>1. r \in Attachments!Doing /\ r.at = "idle" /\ r.todo = {} BY ImagesTyped DEF Attachments!Doing, Attachments!Resting
<1>2. window' = [window EXCEPT ![p] = r] BY ImagesTyped DEF Attachments!CreatePendingMarker, Attachments!Doing
<1>3. T \subseteq Images /\ window[p].at = "importing"
  BY ImagesTyped DEF Attachments!CreatePendingMarker, Attachments!At
<1> HIDE DEF r
<1>4. /\ window' \in [Workers -> Attachments!Doing] /\ window'[p] = r
      /\ \A q \in Workers \ {p} : window'[q] = window[q] BY <1>1, <1>2, StepTyped
<1>5. /\ \A j \in T : owner[j] = p /\ image[j] = "new" /\ j \notin draft[p]
      /\ \A q \in Workers \ {p} : \A j \in T : j \notin draft[q]
  BY <1>3 DEF ImageInv, ImportInv, DraftInv, Attachments!At
<1>6. /\ \A j \in Images \ T : image'[j] = image[j] /\ marker'[j] = marker[j]
      /\ \A q \in Workers \ {p} : draft'[q] = draft[q]
      /\ \/ /\ draft'[p] = draft[p] \cup T
            /\ \A j \in T : image'[j] = "new" /\ marker'[j] = "new"
         \/ draft'[p] = draft[p]
      /\ UNCHANGED <<owner, gcLock, mentioned, ages>>
  BY <1>3, <1>5 DEF ImageInv, Attachments!TypeOK, Attachments!CreatePendingMarker
<1>7. Attachments!TypeOK'
  <2>1. CASE image' = image
    BY <1>3, <1>4, <2>1 DEF ImageInv, Attachments!CreatePendingMarker, Attachments!TypeOK, Attachments!Age3,
      Attachments!Fault, ImagesConstants
  <2>2. CASE UNCHANGED <<marker, draft>>
    BY <1>3, <1>4, <2>2 DEF ImageInv, Attachments!CreatePendingMarker, Attachments!TypeOK, Attachments!Age3,
      Attachments!Fault, ImagesConstants
  <2> QED BY <2>1, <2>2 DEF Attachments!CreatePendingMarker
<1> HIDE DEF T
<1>8. DraftInv' BY <1>5, <1>6, ImagesTyped DEF ImageInv, DraftInv
<1>9. ImportInv' BY <1>1, <1>4, <1>5, <1>6, ImagesTyped DEF ImageInv, ImportInv, Attachments!At
<1>10. RemoveInv' BY <1>1, <1>4, <1>6 DEF ImageInv, RemoveInv, Attachments!At
<1>11. CommitOK(p)' /\ StopOK(p)' BY <1>1, <1>4 DEF CommitOK, StopOK, Attachments!At, Working
<1>12. WorkInv' BY <1>4, <1>6, <1>11, OthersWork DEF ImageInv
<1>13. SweepInv' BY <1>1, <1>4, <1>5, <1>6, ImagesTyped DEF ImageInv, SweepInv, Examined, Attachments!At
<1> QED BY <1>7, <1>8, <1>9, <1>10, <1>12, <1>13 DEF ImageInv

\* A step that leaves the files and the markers alone, stages nothing, and whose
\* process is not in the middle of anything afterwards; it may have given up its lease.
LEMMA QuietStep ==
  ASSUME ImageInv, NEW p \in Workers, NEW r \in Attachments!Doing, window' = [window EXCEPT ![p] = r],
         r.at \notin {"importing", "removing", "sweep"},
         r.at = "examine" => (r.seen \subseteq mentioned /\ r.todo = Images),
         UNCHANGED <<image, marker>>, mentioned \subseteq mentioned',
         \A q \in Workers : draft'[q] \subseteq draft[q],
         \A i \in Images : owner'[i] = owner[i] \/ (owner[i] = p /\ draft'[p] = {}),
         Attachments!TypeOK', WorkInv'
  PROVE  ImageInv'
<1>1. /\ window' \in [Workers -> Attachments!Doing] /\ window'[p] = r
      /\ \A q \in Workers \ {p} : window'[q] = window[q] BY StepTyped
<1>2. DraftInv' BY ImagesTyped DEF ImageInv, DraftInv
<1>3. ImportInv' BY <1>1, ImagesTyped DEF ImageInv, ImportInv, Attachments!At
<1>4. RemoveInv' BY <1>1, ImagesTyped DEF ImageInv, RemoveInv, Attachments!At
<1>5. SweepInv' BY <1>1, ImagesTyped DEF ImageInv, SweepInv, Examined, Attachments!At
<1> QED BY <1>2, <1>3, <1>4, <1>5 DEF ImageInv

LEMMA SubmitPreserves ==
  ASSUME ImagesConstants, ImageInv, NEW p \in Workers, Attachments!Submit(p)
  PROVE  ImageInv'
<1>1. PICK S \in SUBSET draft[p] :
        mentioned' = mentioned \cup S /\ window' = [window EXCEPT ![p].at = "commit", ![p].todo = S]
  BY DEF Attachments!Submit
<1> DEFINE r == [window[p] EXCEPT !.at = "commit", !.todo = S]
<1>2. r \in Attachments!Doing /\ r.at = "commit" /\ r.todo = S BY ImagesTyped DEF Attachments!Doing
<1>3. window' = [window EXCEPT ![p] = r] BY <1>1, ImagesTyped DEF Attachments!Doing
<1> HIDE DEF r
<1>4. /\ window' \in [Workers -> Attachments!Doing] /\ window'[p] = r
      /\ \A q \in Workers \ {p} : window'[q] = window[q] BY <1>2, <1>3, StepTyped
<1>5. UNCHANGED <<image, marker, owner, gcLock, draft, ages, slips>> BY DEF Attachments!Submit, Attachments!disk
<1>6. Attachments!TypeOK' BY <1>1, <1>4, <1>5, ImagesTyped DEF ImageInv, Attachments!TypeOK
<1>7. CommitOK(p)' /\ StopOK(p)' BY <1>1, <1>2, <1>4 DEF CommitOK, StopOK, Attachments!At, Working
<1>8. WorkInv' BY <1>1, <1>4, <1>5, <1>7, OthersWork DEF ImageInv
<1>9. r.at \notin {"importing", "removing", "examine", "sweep"} BY <1>2
<1> QED BY <1>1, <1>2, <1>3, <1>5, <1>6, <1>8, <1>9, QuietStep

LEMMA CommitPreserves ==
  ASSUME ImagesConstants, ImageInv, NEW p \in Workers, Attachments!Commit(p)
  PROVE  ImageInv'
<1>1. /\ window[p].at = "commit" /\ window[p].todo \subseteq mentioned
      /\ UNCHANGED <<image, marker, owner, gcLock, mentioned, draft, ages, slips>>
  BY DEF Attachments!Commit, Attachments!disk, Attachments!At, ImageInv, WorkInv, CommitOK
<1>2. PICK r \in Attachments!Doing :
        /\ window' = [window EXCEPT ![p] = r]
        /\ \/ r.at = "turn"
           \/ r.at = "create" /\ r.goal = "commit" /\ r.todo = window[p].todo /\ r.kept \subseteq window[p].todo
  <2>1. CASE window[p].todo = {}
    <3>1. window' = [window EXCEPT ![p] = [@ EXCEPT !.at = "turn"]]
      BY <2>1, ImagesTyped DEF Attachments!Commit, Attachments!Goto, Attachments!Doing
    <3>2. [window[p] EXCEPT !.at = "turn"] \in Attachments!Doing /\ [window[p] EXCEPT !.at = "turn"].at = "turn"
      BY ImagesTyped DEF Attachments!Doing, Attachments!Resting
    <3> QED BY <3>1, <3>2
  <2>2. CASE window[p].todo # {}
    <3>1. PICK i \in window[p].todo : window' = [window EXCEPT ![p] =
                  IF image[i] = "none" THEN [@ EXCEPT !.at = "turn", !.todo = {}]
                  ELSE [@ EXCEPT !.at = "create", !.goal = "commit", !.kept = {i}]]
      BY <2>2 DEF Attachments!Commit
    <3> DEFINE g == [window[p] EXCEPT !.at = "turn", !.todo = {}]
               c == [window[p] EXCEPT !.at = "create", !.goal = "commit", !.kept = {i}]
    <3>2. g \in Attachments!Doing /\ g.at = "turn" BY ImagesTyped DEF Attachments!Doing, Attachments!Resting
    <3>3. c \in Attachments!Doing /\ c.at = "create" /\ c.goal = "commit" /\ c.todo = window[p].todo /\ c.kept = {i}
      BY ImagesTyped DEF Attachments!Doing
    <3>4. window' = [window EXCEPT ![p] = g] \/ window' = [window EXCEPT ![p] = c] BY <3>1, ImagesTyped
    <3> HIDE DEF g, c
    <3> QED BY <3>2, <3>3, <3>4
  <2> QED BY <2>1, <2>2
<1>3. /\ window' \in [Workers -> Attachments!Doing] /\ window'[p] = r
      /\ \A q \in Workers \ {p} : window'[q] = window[q] BY <1>2, StepTyped
<1>4. Attachments!TypeOK' BY <1>1, <1>3 DEF ImageInv, Attachments!TypeOK
<1>5. CommitOK(p)' /\ StopOK(p)' BY <1>1, <1>2, <1>3 DEF CommitOK, StopOK, Attachments!At, Working
<1>6. WorkInv' BY <1>1, <1>3, <1>5, OthersWork DEF ImageInv
<1>7. r.at \notin {"importing", "removing", "examine", "sweep"} BY <1>2
<1> QED BY <1>1, <1>2, <1>4, <1>6, <1>7, QuietStep

\* The markers that go are not those of a message that is still to be sent.
LEMMA UnmarkPreserves ==
  ASSUME ImagesConstants, ImageInv, NEW p \in Workers, Attachments!Unmark(p)
  PROVE  ImageInv'
<1> DEFINE r == [window[p] EXCEPT !.at = "release"]
           K == window[p].kept
<1>1. r \in Attachments!Doing /\ r.at = "release" /\ r.goal = window[p].goal /\ r.todo = window[p].todo /\ r.kept
          = window[p].kept
  BY ImagesTyped DEF Attachments!Doing
<1>2. window' = [window EXCEPT ![p] = r] BY ImagesTyped DEF Attachments!Unmark, Attachments!Goto, Attachments!Doing
<1>3. /\ window[p].at = "unmark" /\ window[p].goal = "commit" /\ K \cup window[p].todo \subseteq mentioned
      /\ K \subseteq Images
      /\ marker' = [i \in Images |-> IF i \in K THEN "none" ELSE marker[i]]
      /\ UNCHANGED <<image, owner, gcLock, mentioned, draft, ages, slips>>
  BY ImagesTyped DEF Attachments!Unmark, Attachments!At, ImageInv, WorkInv, CommitOK, Working
<1> HIDE DEF r, K
<1>4. /\ window' \in [Workers -> Attachments!Doing] /\ window'[p] = r
      /\ \A q \in Workers \ {p} : window'[q] = window[q] BY <1>1, <1>2, StepTyped
<1>5. Attachments!TypeOK' BY <1>3, <1>4 DEF ImageInv, Attachments!TypeOK, Attachments!Age3
<1>6. DraftInv' BY <1>3, ImagesTyped DEF ImageInv, DraftInv
<1>7. ImportInv' BY <1>1, <1>3, <1>4 DEF ImageInv, ImportInv, Attachments!At
<1>8. RemoveInv' BY <1>1, <1>3, <1>4 DEF ImageInv, RemoveInv, Attachments!At
<1>9. CommitOK(p)' /\ StopOK(p)' BY <1>1, <1>3, <1>4 DEF CommitOK, StopOK, Attachments!At, Working, K
<1>10. WorkInv' BY <1>3, <1>4, <1>9, OthersWork DEF ImageInv
<1>11. SweepInv' BY <1>1, <1>3, <1>4 DEF ImageInv, SweepInv, Examined, Attachments!At
<1> QED BY <1>5, <1>6, <1>7, <1>8, <1>10, <1>11 DEF ImageInv

LEMMA EndTurnPreserves ==
  ASSUME ImagesConstants, ImageInv, NEW p \in Workers, Attachments!EndTurn(p)
  PROVE  ImageInv'
<1> DEFINE r == [window[p] EXCEPT !.at = "idle"]
<1>1. r \in Attachments!Doing /\ r.at = "idle" BY ImagesTyped DEF Attachments!Doing, Attachments!Resting
<1>2. window' = [window EXCEPT ![p] = r] BY ImagesTyped DEF Attachments!EndTurn, Attachments!Goto, Attachments!Doing
<1> HIDE DEF r
<1>3. /\ window' \in [Workers -> Attachments!Doing] /\ window'[p] = r
      /\ \A q \in Workers \ {p} : window'[q] = window[q] BY <1>1, <1>2, StepTyped
<1>4. /\ UNCHANGED <<image, marker, owner, gcLock, mentioned, ages>>
      /\ draft' \in [Workers -> SUBSET Images]
      /\ \A q \in Workers : draft'[q] \subseteq draft[q] /\ (q # p => draft'[q] = draft[q])
  BY DEF Attachments!EndTurn, Attachments!disk, ImageInv, Attachments!TypeOK
<1>5. slips' \in 0..MaxSlips
  BY DEF Attachments!EndTurn, Attachments!Fault, ImageInv, Attachments!TypeOK, ImagesConstants
<1>6. Attachments!TypeOK' BY <1>3, <1>4, <1>5 DEF ImageInv, Attachments!TypeOK
<1>7. CommitOK(p)' /\ StopOK(p)' BY <1>1, <1>3 DEF CommitOK, StopOK, Attachments!At, Working
<1>8. WorkInv' BY <1>3, <1>4, <1>7, OthersWork DEF ImageInv
<1>9. r.at \notin {"importing", "removing", "examine", "sweep"} BY <1>1
<1> QED BY <1>1, <1>2, <1>4, <1>6, <1>8, <1>9, QuietStep

\* The file of an image goes only when the image is out of the message.
LEMMA DiscardPreserves ==
  ASSUME ImagesConstants, ImageInv, NEW p \in Workers, Attachments!Discard(p)
  PROVE  ImageInv'
<1>1. PICK i \in draft[p] :
        /\ draft' = [draft EXCEPT ![p] = @ \ {i}]
        /\ IF marker[i] # "none" /\ owner[i] = p /\ image[i] # "none"
           THEN /\ image' = [image EXCEPT ![i] = "none"]
                /\ window' = [window EXCEPT ![p].goal = IF Attachments!At(p, {"idle"}) THEN "start" ELSE "stop",
                                        ![p].at = "removing", ![p].kept = {i}]
           ELSE UNCHANGED <<image, window>>
  BY DEF Attachments!Discard
<1>2. /\ window[p].at \in {"idle", "closing"}
      /\ UNCHANGED <<marker, owner, gcLock, mentioned, ages, slips>>
      /\ i \in Images /\ owner[i] = p
      /\ draft'[p] = draft[p] \ {i} /\ \A q \in Workers \ {p} : draft'[q] = draft[q]
      /\ draft' \in [Workers -> SUBSET Images]
  BY <1>1 DEF Attachments!Discard, Attachments!At, ImageInv, Attachments!TypeOK, DraftInv
<1>3. \A q \in Workers : i \notin draft'[q] BY <1>2 DEF ImageInv, DraftInv
<1>4. PICK r \in Attachments!Doing :
        /\ window' = [window EXCEPT ![p] = r]
        /\ \/ r = window[p] /\ image' = image
           \/ r.at = "removing" /\ r.kept = {i} /\ image' = [image EXCEPT ![i] = "none"]
  <2>1. CASE marker[i] # "none" /\ owner[i] = p /\ image[i] # "none"
    <3> DEFINE g == IF Attachments!At(p, {"idle"}) THEN "start" ELSE "stop"
               c == [window[p] EXCEPT !.goal = g, !.at = "removing", !.kept = {i}]
    <3>1. g \in {"start", "stop"} OBVIOUS
    <3>2. window' = [window EXCEPT ![p].goal = g, ![p].at = "removing", ![p].kept = {i}] /\ image'
              = [image EXCEPT ![i] = "none"]
      BY <1>1, <2>1
    <3> HIDE DEF g
    <3>3. window[p] \in Attachments!Doing /\ {i} \in SUBSET Images BY <1>2, ImagesTyped
    <3>4. c \in Attachments!Doing /\ c.at = "removing" /\ c.kept = {i} BY <3>1, <3>3 DEF Attachments!Doing
    <3>5. window' = [window EXCEPT ![p] = c] BY <3>2, ImagesTyped DEF Attachments!Doing
    <3> QED BY <3>2, <3>4, <3>5
  <2>2. CASE ~(marker[i] # "none" /\ owner[i] = p /\ image[i] # "none")
    <3>1. UNCHANGED <<image, window>> BY <1>1, <2>2
    <3>2. window' = [window EXCEPT ![p] = window[p]] BY <3>1, ImagesTyped
    <3> QED BY <3>1, <3>2, ImagesTyped
  <2> QED BY <2>1, <2>2
<1>5. /\ window' \in [Workers -> Attachments!Doing] /\ window'[p] = r
      /\ \A q \in Workers \ {p} : window'[q] = window[q] BY <1>4, StepTyped
<1>6. /\ image' \in [Images -> Attachments!Age3]
      /\ \A j \in Images \ {i} : image'[j] = image[j]
  BY <1>2, <1>4 DEF ImageInv, Attachments!TypeOK, Attachments!Age3
<1>7. Attachments!TypeOK' BY <1>2, <1>5, <1>6 DEF ImageInv, Attachments!TypeOK
<1>8. DraftInv' BY <1>2, <1>3, <1>6, ImagesTyped DEF ImageInv, DraftInv
<1>9. ImportInv' BY <1>2, <1>4, <1>5, <1>6, ImagesTyped DEF ImageInv, ImportInv, Attachments!At
<1>10. RemoveInv' BY <1>2, <1>3, <1>4, <1>5 DEF ImageInv, RemoveInv, Attachments!At
<1>11. CommitOK(p)' /\ StopOK(p)' BY <1>2, <1>4, <1>5 DEF CommitOK, StopOK, Attachments!At, Working
<1>12. WorkInv' BY <1>2, <1>5, <1>11, OthersWork DEF ImageInv
<1>13. SweepInv' BY <1>2, <1>3, <1>4, <1>5, <1>6, ImagesTyped DEF ImageInv, SweepInv, Examined, Attachments!At
<1> QED BY <1>7, <1>8, <1>9, <1>10, <1>12, <1>13 DEF ImageInv

LEMMA RemoveMarkerPreserves ==
  ASSUME ImagesConstants, ImageInv, NEW p \in Workers, Attachments!RemoveMarker(p)
  PROVE  ImageInv'
<1> DEFINE g == IF window[p].goal = "stop" THEN "closing" ELSE "idle"
           r == [window[p] EXCEPT !.at = g, !.kept = {}]
           K == window[p].kept
<1>1. g \in {"closing", "idle"} OBVIOUS
<1>2. /\ window' = [window EXCEPT ![p].at = g, ![p].kept = {}] /\ window[p].at = "removing"
      /\ marker' = [i \in Images |-> IF i \in K THEN "none" ELSE marker[i]]
      /\ UNCHANGED <<image, owner, gcLock, mentioned, draft, ages, slips>>
  BY DEF Attachments!RemoveMarker, Attachments!At
<1> HIDE DEF g
<1>3. r \in Attachments!Doing /\ r.at \in {"closing", "idle"}
  BY <1>1, ImagesTyped DEF Attachments!Doing, Attachments!Resting
<1>4. window' = [window EXCEPT ![p] = r] BY <1>2, ImagesTyped DEF Attachments!Doing
<1> HIDE DEF r
<1>5. /\ window' \in [Workers -> Attachments!Doing] /\ window'[p] = r
      /\ \A q \in Workers \ {p} : window'[q] = window[q] BY <1>3, <1>4, StepTyped
<1>6. \A j \in K : \A q \in Workers : j \notin draft[q] BY <1>2 DEF ImageInv, RemoveInv, DraftInv, Attachments!At
<1>7. window'[p].at \notin {"importing", "examine", "sweep"} BY <1>3, <1>5
<1> HIDE DEF K
<1>8. Attachments!TypeOK' BY <1>2, <1>5 DEF ImageInv, Attachments!TypeOK, Attachments!Age3
<1>9. DraftInv' BY <1>2, <1>6, ImagesTyped DEF ImageInv, DraftInv
<1>10. ImportInv' BY <1>2, <1>5, <1>7 DEF ImageInv, ImportInv, Attachments!At
<1>11. RemoveInv' BY <1>2, <1>3, <1>5 DEF ImageInv, RemoveInv, Attachments!At
<1>12. CommitOK(p)' /\ StopOK(p)' BY <1>3, <1>5 DEF CommitOK, StopOK, Attachments!At, Working
<1>13. WorkInv' BY <1>2, <1>5, <1>12, OthersWork DEF ImageInv
<1>14. SweepInv' BY <1>2, <1>5, <1>7 DEF ImageInv, SweepInv, Examined, Attachments!At
<1> QED BY <1>8, <1>9, <1>10, <1>11, <1>13, <1>14 DEF ImageInv

-----------------------------------------------------------------------------
(* The lock *)

\* What is left of a commit is referred to; a process gives up its lease only
\* when no message is left.
LEMMA DoneStep ==
  ASSUME ImagesConstants, ImageInv, NEW p \in Workers, Attachments!Done(p), window[p].at \in Working
  PROVE  /\ owner' \in [Images -> Workers \cup {Nobody, Dead}]
         /\ \A i \in Images : owner'[i] = owner[i] \/ (owner[i] = p /\ draft[p] = {})
         /\ \E r \in Attachments!Doing :
              /\ window' = [window EXCEPT ![p] = r]
              /\ r.at \in {"idle", "commit", "down"} /\ (r.at = "commit" => r.todo \subseteq mentioned)
<1>1. /\ window[p].goal \in {"start", "commit", "stop"}
      /\ owner \in [Images -> Workers \cup {Nobody, Dead}]
  BY DEF ImageInv, Attachments!TypeOK, Attachments!Doing
<1>2. CASE window[p].goal = "stop"
  <2>1. Attachments!Down \in Attachments!Doing /\ Attachments!Down.at = "down"
    BY DEF Attachments!Down, Attachments!Doing, Attachments!Resting
  <2>2. draft[p] = {} BY <1>2 DEF ImageInv, WorkInv, StopOK, Attachments!At
  <2>3. window' = [window EXCEPT ![p] = Attachments!Down] /\ owner' = [i \in Images |-> IF owner[i] = p THEN Dead
            ELSE owner[i]]
    BY <1>2 DEF Attachments!Done
  <2> QED BY <1>1, <2>1, <2>2, <2>3
<1>3. CASE window[p].goal # "stop"
  <2> DEFINE g == Attachments!After(window[p].goal)
             left == IF window[p].goal = "commit" THEN window[p].todo \ window[p].kept ELSE {}
             c == [at |-> g, goal |-> "start", todo |-> left, seen |-> {}, kept |-> {}]
  <2>1. g = IF window[p].goal = "commit" THEN "commit" ELSE "idle" BY <1>1, <1>3 DEF Attachments!After
  <2>2. left \subseteq Images /\ (window[p].goal = "commit" => left \subseteq mentioned)
    BY ImagesTyped DEF ImageInv, WorkInv, CommitOK, Attachments!At
  <2>3. window' = [window EXCEPT ![p] = c] /\ owner' = owner BY <1>3 DEF Attachments!Done
  <2> HIDE DEF g, left
  <2>4. c \in Attachments!Doing /\ c.at = g /\ c.todo = left BY <2>1, <2>2 DEF Attachments!Doing, Attachments!Resting
  <2> HIDE DEF c
  <2> QED BY <1>1, <2>1, <2>2, <2>3, <2>4
<1> QED BY <1>2, <1>3

\* An operation that ends without a change of the files.
LEMMA DonePreserves ==
  ASSUME ImagesConstants, ImageInv, NEW p \in Workers, Attachments!Done(p), window[p].at \in Working,
         UNCHANGED <<image, marker, mentioned, draft, ages, slips>>,
         gcLock' \in [by : Workers \cup {Nobody, Dead}, old : BOOLEAN]
  PROVE  ImageInv'
<1>1. PICK r \in Attachments!Doing :
        /\ window' = [window EXCEPT ![p] = r]
        /\ r.at \in {"idle", "commit", "down"} /\ (r.at = "commit" => r.todo \subseteq mentioned)
  BY DoneStep
<1>2. /\ owner' \in [Images -> Workers \cup {Nobody, Dead}]
      /\ \A i \in Images : owner'[i] = owner[i] \/ (owner[i] = p /\ draft'[p] = {})
  BY DoneStep
<1>3. /\ window' \in [Workers -> Attachments!Doing] /\ window'[p] = r
      /\ \A q \in Workers \ {p} : window'[q] = window[q] BY <1>1, StepTyped
<1>4. Attachments!TypeOK' BY <1>2, <1>3 DEF ImageInv, Attachments!TypeOK
<1>5. CommitOK(p)' /\ StopOK(p)' BY <1>1, <1>3 DEF CommitOK, StopOK, Attachments!At, Working
<1>6. WorkInv' BY <1>3, <1>5, OthersWork DEF ImageInv
<1>7. r.at \notin {"importing", "removing", "examine", "sweep"} BY <1>1
<1> QED BY <1>1, <1>2, <1>4, <1>6, <1>7, QuietStep

\* A step to the next thing to do about the lock, with nothing done to the files.
LEMMA GotoPreserves ==
  ASSUME ImagesConstants, ImageInv, NEW p \in Workers, window[p].at \in Working,
         NEW at \in {"create again", "steal", "steal again", "snapshot", "unmark"}, Attachments!Goto(p, at),
         at = "unmark" => window[p].goal = "commit", at = "snapshot" => window[p].goal # "commit",
         UNCHANGED <<image, marker, owner, mentioned, draft, ages, slips>>,
         gcLock' \in [by : Workers \cup {Nobody, Dead}, old : BOOLEAN]
  PROVE  ImageInv'
<1> DEFINE r == [window[p] EXCEPT !.at = at]
<1>1. /\ r \in Attachments!Doing /\ r.at = at /\ r.goal = window[p].goal /\ r.todo = window[p].todo
      /\ r.kept = window[p].kept
  BY ImagesTyped DEF Attachments!Doing
<1>2. window' = [window EXCEPT ![p] = r] BY ImagesTyped DEF Attachments!Goto, Attachments!Doing
<1> HIDE DEF r
<1>3. /\ window' \in [Workers -> Attachments!Doing] /\ window'[p] = r
      /\ \A q \in Workers \ {p} : window'[q] = window[q] BY <1>1, <1>2, StepTyped
<1>4. Attachments!TypeOK' BY <1>3 DEF ImageInv, Attachments!TypeOK
<1>5. CommitOK(p) /\ StopOK(p) BY DEF ImageInv, WorkInv
<1>6. at \in Working BY DEF Working
<1>7. CommitOK(p)' /\ StopOK(p)' BY <1>1, <1>3, <1>5, <1>6 DEF CommitOK, StopOK, Attachments!At
<1>8. WorkInv' BY <1>3, <1>7, OthersWork DEF ImageInv
<1>9. r.at \notin {"importing", "removing", "examine", "sweep"} BY <1>1
<1> QED BY <1>1, <1>2, <1>4, <1>8, <1>9, QuietStep

LEMMA CreatePreserves ==
  ASSUME ImagesConstants, ImageInv, NEW p \in Workers, Attachments!Create(p)
  PROVE  ImageInv'
<1>1. /\ window[p].at \in {"create", "create again"}
      /\ UNCHANGED <<image, marker, mentioned, draft, ages, slips>>
      /\ window[p].goal \in {"start", "commit", "stop"}
      /\ gcLock \in [by : Workers \cup {Nobody, Dead}, old : BOOLEAN]
  BY ImagesTyped DEF Attachments!Create, Attachments!At, Attachments!Doing, ImageInv, Attachments!TypeOK
<1>2. window[p].at \in Working BY <1>1 DEF Working
<1>3. CASE gcLock.by = Nobody
  <2>1. gcLock' = [by |-> p, old |-> FALSE] /\ Attachments!Goto(p, Attachments!Held(window[p].goal)) /\ UNCHANGED owner
    BY <1>3 DEF Attachments!Create
  <2>2. gcLock' \in [by : Workers \cup {Nobody, Dead}, old : BOOLEAN] BY <2>1
  <2>3. /\ Attachments!Held(window[p].goal) \in {"unmark", "snapshot"}
        /\ Attachments!Held(window[p].goal) = "unmark" => window[p].goal = "commit"
        /\ Attachments!Held(window[p].goal) = "snapshot" => window[p].goal # "commit"
    BY DEF Attachments!Held
  <2> QED BY <1>1, <1>2, <2>1, <2>2, <2>3, GotoPreserves
<1>4. CASE gcLock.by # Nobody /\ gcLock.by = Dead /\ gcLock.old
  <2>1. UNCHANGED <<gcLock, owner>> /\ (Attachments!Goto(p, "steal") \/ Attachments!Goto(p, "steal again"))
    BY <1>4 DEF Attachments!Create
  <2> QED BY <1>1, <1>2, <2>1, GotoPreserves
<1>5. CASE gcLock.by # Nobody /\ ~(gcLock.by = Dead /\ gcLock.old)
  <2>1. UNCHANGED gcLock /\ Attachments!Done(p) BY <1>5 DEF Attachments!Create
  <2> QED BY <1>1, <1>2, <2>1, DonePreserves
<1> QED BY <1>3, <1>4, <1>5

LEMMA StealPreserves ==
  ASSUME ImagesConstants, ImageInv, NEW p \in Workers, Attachments!Steal(p)
  PROVE  ImageInv'
<1>1. /\ window[p].at \in Working /\ gcLock' = Attachments!Free
      /\ UNCHANGED <<image, marker, mentioned, draft, ages, slips>>
      /\ (Attachments!Goto(p, "create again") /\ UNCHANGED owner) \/ Attachments!Done(p)
  BY DEF Attachments!Steal, Attachments!At, Working
<1>2. gcLock' \in [by : Workers \cup {Nobody, Dead}, old : BOOLEAN] BY <1>1 DEF Attachments!Free
<1> QED BY <1>1, <1>2, GotoPreserves, DonePreserves

LEMMA ReleasePreserves ==
  ASSUME ImagesConstants, ImageInv, NEW p \in Workers, Attachments!Release(p)
  PROVE  ImageInv'
<1>1. /\ window[p].at \in Working /\ Attachments!Done(p)
      /\ UNCHANGED <<image, marker, mentioned, draft, ages, slips>>
      /\ gcLock' = Attachments!Free \/ gcLock' = gcLock
  BY DEF Attachments!Release, Attachments!At, Working
<1>2. gcLock \in [by : Workers \cup {Nobody, Dead}, old : BOOLEAN] BY DEF ImageInv, Attachments!TypeOK
<1>3. Attachments!Free \in [by : Workers \cup {Nobody, Dead}, old : BOOLEAN] BY DEF Attachments!Free
<1> QED BY <1>1, <1>2, <1>3, DonePreserves

-----------------------------------------------------------------------------
(* Garbage collection *)

LEMMA SnapshotPreserves ==
  ASSUME ImagesConstants, ImageInv, NEW p \in Workers, Attachments!Snapshot(p)
  PROVE  ImageInv'
<1> DEFINE r == [window[p] EXCEPT !.at = "examine", !.seen = mentioned, !.todo = Images, !.kept = {}]
<1>1. mentioned \subseteq Images BY DEF ImageInv, Attachments!TypeOK
<1>2. /\ r \in Attachments!Doing /\ r.at = "examine" /\ r.seen = mentioned /\ r.todo = Images /\ r.goal = window[p].goal
  BY <1>1, ImagesTyped DEF Attachments!Doing
<1>3. /\ window' = [window EXCEPT ![p] = r] /\ window[p].at = "snapshot"
      /\ UNCHANGED <<image, marker, owner, gcLock, mentioned, draft, ages, slips>>
  BY DEF Attachments!Snapshot, Attachments!disk, Attachments!At
<1> HIDE DEF r
<1>4. /\ window' \in [Workers -> Attachments!Doing] /\ window'[p] = r
      /\ \A q \in Workers \ {p} : window'[q] = window[q] BY <1>2, <1>3, StepTyped
<1>5. Attachments!TypeOK' BY <1>3, <1>4 DEF ImageInv, Attachments!TypeOK
<1>6. window[p].goal # "commit" /\ (window[p].goal = "stop" => draft[p] = {})
  BY <1>3 DEF ImageInv, WorkInv, CommitOK, StopOK, Attachments!At, Working
<1>7. CommitOK(p)' /\ StopOK(p)' BY <1>2, <1>3, <1>4, <1>6 DEF CommitOK, StopOK, Attachments!At
<1>8. WorkInv' BY <1>3, <1>4, <1>7, OthersWork DEF ImageInv
<1>9. r.at \notin {"importing", "removing", "sweep"} BY <1>2
<1> QED BY <1>2, <1>3, <1>5, <1>8, <1>9, QuietStep

\* No marker of a message that is to be sent is recovered or abandoned.
LEMMA ExaminePreserves ==
  ASSUME ImagesConstants, ImageInv, NEW p \in Workers, Attachments!Examine(p)
  PROVE  ImageInv'
<1>1. /\ window[p].at = "examine" /\ window[p].seen \subseteq mentioned /\ window[p].goal # "commit"
      /\ window[p].goal = "stop" => draft[p] = {}
      /\ UNCHANGED <<owner, gcLock, mentioned, draft, ages, slips>>
  BY DEF Attachments!Examine, Attachments!At, ImageInv, SweepInv, WorkInv, CommitOK, StopOK, Working
<1>2. CASE window[p].todo = {}
  <2> DEFINE r == [window[p] EXCEPT !.at = "sweep", !.todo = Images]
  <2>1. /\ r \in Attachments!Doing /\ r.at = "sweep" /\ r.seen = window[p].seen /\ r.kept = window[p].kept
        /\ r.goal = window[p].goal
    BY ImagesTyped DEF Attachments!Doing
  <2>2. window' = [window EXCEPT ![p] = r] /\ UNCHANGED <<image, marker>>
    BY <1>2, ImagesTyped DEF Attachments!Examine, Attachments!Doing
  <2> HIDE DEF r
  <2>3. /\ window' \in [Workers -> Attachments!Doing] /\ window'[p] = r
        /\ \A q \in Workers \ {p} : window'[q] = window[q] BY <2>1, <2>2, StepTyped
  <2>4. Attachments!TypeOK' BY <1>1, <2>2, <2>3 DEF ImageInv, Attachments!TypeOK
  <2>5. DraftInv' BY <1>1, <2>2 DEF ImageInv, DraftInv
  <2>6. ImportInv' BY <1>1, <2>1, <2>2, <2>3 DEF ImageInv, ImportInv, Attachments!At
  <2>7. RemoveInv' BY <1>1, <2>1, <2>2, <2>3 DEF ImageInv, RemoveInv, Attachments!At
  <2>8. CommitOK(p)' /\ StopOK(p)' BY <1>1, <2>1, <2>3 DEF CommitOK, StopOK, Attachments!At
  <2>9. WorkInv' BY <1>1, <2>3, <2>8, OthersWork DEF ImageInv
  <2>10. SweepInv' BY <1>1, <1>2, <2>1, <2>2, <2>3 DEF ImageInv, SweepInv, Examined, Attachments!At
  <2> QED BY <2>4, <2>5, <2>6, <2>7, <2>9, <2>10 DEF ImageInv
<1>3. CASE window[p].todo # {}
  <2> DEFINE Recovered(i) == i \in window[p].seen /\ image[i] # "none"
             Gone(i) == i \notin window[p].seen /\ Attachments!Abandoned(p, i)
             Keep(i) == marker[i] # "none" /\ ~Recovered(i) /\ ~Gone(i)
             K(i) == IF Keep(i) THEN window[p].kept \cup {i} ELSE window[p].kept
  <2>1. PICK i \in window[p].todo :
          /\ marker' = IF Recovered(i) \/ Gone(i) THEN [marker EXCEPT ![i] = "none"] ELSE marker
          /\ image' = IF Gone(i) /\ marker[i] # "none" THEN [image EXCEPT ![i] = "none"] ELSE image
          /\ window' = [window EXCEPT ![p].todo = @ \ {i}, ![p].kept = IF Keep(i) THEN @ \cup {i} ELSE @]
    BY <1>3 DEF Attachments!Examine
  <2> DEFINE r == [window[p] EXCEPT !.todo = @ \ {i}, !.kept = K(i)]
  <2>2. i \in Images BY ImagesTyped
  <2>3. K(i) \subseteq Images /\ window[p].kept \subseteq K(i) BY <2>2, ImagesTyped
  <2>4. window' = [window EXCEPT ![p] = r] BY <2>1, ImagesTyped DEF Attachments!Doing
  <2>5. \A q \in Workers : i \in draft[q] \ mentioned => i \in K(i) /\ ~Recovered(i) /\ ~Gone(i)
    BY <1>1 DEF ImagesConstants, ImageInv, DraftInv, Attachments!Abandoned
  <2>6. ASSUME NEW q \in Workers, window[q].at = "importing", i \in window[q].todo PROVE ~Gone(i)
    BY <1>1, <2>6 DEF ImagesConstants, ImageInv, ImportInv, Attachments!Abandoned, Attachments!At
  <2>7. /\ image' \in [Images -> Attachments!Age3] /\ marker' \in [Images -> Attachments!Age3]
        /\ \A j \in Images \ {i} : image'[j] = image[j] /\ marker'[j] = marker[j]
        /\ (Gone(i) \/ image' = image) /\ (Gone(i) \/ Recovered(i) \/ marker' = marker)
    BY <2>1, <2>2 DEF ImageInv, Attachments!TypeOK, Attachments!Age3
  <2> HIDE DEF Recovered, Gone, K
  <2>8. r \in Attachments!Doing /\ r.at = "examine" /\ r.seen = window[p].seen /\ r.kept = K(i) /\ r.todo
            = window[p].todo \ {i} /\ r.goal = window[p].goal
    BY <1>1, <2>3, ImagesTyped DEF Attachments!Doing
  <2> HIDE DEF r
  <2>9. /\ window' \in [Workers -> Attachments!Doing] /\ window'[p] = r
        /\ \A q \in Workers \ {p} : window'[q] = window[q] BY <2>4, <2>8, StepTyped
  <2>10. Attachments!TypeOK' BY <1>1, <2>7, <2>9 DEF ImageInv, Attachments!TypeOK
  <2>11. DraftInv' BY <1>1, <2>5, <2>7, ImagesTyped DEF ImageInv, DraftInv
  <2>12. ImportInv' BY <1>1, <2>6, <2>7, <2>8, <2>9, ImagesTyped DEF ImageInv, ImportInv, Attachments!At
  <2>13. RemoveInv' BY <1>1, <2>8, <2>9 DEF ImageInv, RemoveInv, Attachments!At
  <2>14. CommitOK(p)' /\ StopOK(p)' BY <1>1, <2>8, <2>9 DEF CommitOK, StopOK, Attachments!At
  <2>15. WorkInv' BY <1>1, <2>9, <2>14, OthersWork DEF ImageInv
  <2>16. SweepInv' BY <1>1, <2>3, <2>5, <2>7, <2>8, <2>9, ImagesTyped DEF ImageInv, SweepInv, Examined, Attachments!At
  <2> QED BY <2>10, <2>11, <2>12, <2>13, <2>15, <2>16 DEF ImageInv
<1> QED BY <1>2, <1>3

\* A file that is swept is old, and nothing kept it.
LEMMA SweepPreserves ==
  ASSUME ImagesConstants, ImageInv, NEW p \in Workers, Attachments!Sweep(p)
  PROVE  ImageInv'
<1>1. /\ window[p].at = "sweep" /\ window[p].seen \subseteq mentioned /\ window[p].goal # "commit"
      /\ window[p].goal = "stop" => draft[p] = {}
      /\ UNCHANGED <<marker, owner, gcLock, mentioned, draft, ages, slips>>
  BY DEF Attachments!Sweep, Attachments!At, ImageInv, SweepInv, WorkInv, CommitOK, StopOK, Working
<1>2. PICK r \in Attachments!Doing :
        /\ window' = [window EXCEPT ![p] = r]
        /\ r.at \in {"sweep", "release"} /\ r.goal = window[p].goal /\ r.seen = window[p].seen
        /\ r.kept = window[p].kept
  <2>1. CASE window[p].todo = {}
    <3>1. window' = [window EXCEPT ![p] = [@ EXCEPT !.at = "release"]]
      BY <2>1, ImagesTyped DEF Attachments!Sweep, Attachments!Goto, Attachments!Doing
    <3> DEFINE c == [window[p] EXCEPT !.at = "release"]
    <3>2. c \in Attachments!Doing /\ c.at = "release" /\ c.goal = window[p].goal /\ c.seen = window[p].seen /\ c.kept
              = window[p].kept
      BY ImagesTyped DEF Attachments!Doing
    <3> HIDE DEF c
    <3>3. window' = [window EXCEPT ![p] = c] BY <3>1 DEF c
    <3> QED BY <3>2, <3>3
  <2>2. CASE window[p].todo # {}
    <3>1. PICK i \in window[p].todo : window' = [window EXCEPT ![p].todo = @ \ {i}] BY <2>2 DEF Attachments!Sweep
    <3> DEFINE c == [window[p] EXCEPT !.todo = @ \ {i}]
    <3>2. /\ c \in Attachments!Doing /\ c.at = "sweep" /\ c.goal = window[p].goal /\ c.seen = window[p].seen
          /\ c.kept = window[p].kept
      BY <1>1, ImagesTyped DEF Attachments!Doing
    <3>3. window' = [window EXCEPT ![p] = c] BY <3>1, ImagesTyped DEF Attachments!Doing
    <3> HIDE DEF c
    <3> QED BY <3>2, <3>3
  <2> QED BY <2>1, <2>2
<1>3. /\ image' \in [Images -> Attachments!Age3]
      /\ \A j \in Images : \/ image'[j] = image[j]
                           \/ j \notin window[p].seen \cup window[p].kept /\ image[j] = "old"
  <2>1. CASE window[p].todo = {} BY <2>1 DEF Attachments!Sweep, ImageInv, Attachments!TypeOK
  <2>2. CASE window[p].todo # {}
    <3>1. PICK i \in window[p].todo :
            image' = IF i \notin window[p].seen \cup window[p].kept /\ image[i] = "old"
                    THEN [image EXCEPT ![i] = "none"] ELSE image
      BY <2>2 DEF Attachments!Sweep
    <3> QED BY <3>1 DEF ImageInv, Attachments!TypeOK, Attachments!Age3
  <2> QED BY <2>1, <2>2
<1>4. /\ window' \in [Workers -> Attachments!Doing] /\ window'[p] = r
      /\ \A q \in Workers \ {p} : window'[q] = window[q] BY <1>2, StepTyped
<1>5. \A q \in Workers : \A j \in draft[q] \ mentioned : image'[j] = image[j]
  BY <1>1, <1>3, ImagesTyped DEF ImageInv, SweepInv, Examined, Attachments!At
<1>6. Attachments!TypeOK' BY <1>1, <1>3, <1>4 DEF ImageInv, Attachments!TypeOK
<1>7. DraftInv' BY <1>1, <1>5 DEF ImageInv, DraftInv
<1>8. ImportInv' BY <1>1, <1>2, <1>3, <1>4, ImagesTyped DEF ImageInv, ImportInv, Attachments!At
<1>9. RemoveInv' BY <1>1, <1>2, <1>4 DEF ImageInv, RemoveInv, Attachments!At
<1>10. CommitOK(p)' /\ StopOK(p)' BY <1>1, <1>2, <1>4 DEF CommitOK, StopOK, Attachments!At
<1>11. WorkInv' BY <1>1, <1>4, <1>10, OthersWork DEF ImageInv
<1>12. SweepInv' BY <1>1, <1>2, <1>4, <1>5 DEF ImageInv, SweepInv, Examined, Attachments!At
<1> QED BY <1>6, <1>7, <1>8, <1>9, <1>11, <1>12 DEF ImageInv

-----------------------------------------------------------------------------
(* Processes and time *)

LEMMA StartPreserves ==
  ASSUME ImagesConstants, ImageInv, NEW p \in Workers, Attachments!Start(p)
  PROVE  ImageInv'
<1> DEFINE r == [window[p] EXCEPT !.at = "create", !.goal = "start"]
<1>1. r \in Attachments!Doing /\ r.at = "create" /\ r.goal = "start" BY ImagesTyped DEF Attachments!Doing
<1>2. /\ window' = [window EXCEPT ![p] = r]
      /\ UNCHANGED <<image, marker, owner, gcLock, mentioned, draft, ages, slips>>
  BY ImagesTyped DEF Attachments!Start, Attachments!disk, Attachments!Doing
<1> HIDE DEF r
<1>3. /\ window' \in [Workers -> Attachments!Doing] /\ window'[p] = r
      /\ \A q \in Workers \ {p} : window'[q] = window[q] BY <1>1, <1>2, StepTyped
<1>4. Attachments!TypeOK' BY <1>2, <1>3 DEF ImageInv, Attachments!TypeOK
<1>5. CommitOK(p)' /\ StopOK(p)' BY <1>1, <1>3 DEF CommitOK, StopOK, Attachments!At
<1>6. WorkInv' BY <1>2, <1>3, <1>5, OthersWork DEF ImageInv
<1>7. r.at \notin {"importing", "removing", "examine", "sweep"} BY <1>1
<1> QED BY <1>1, <1>2, <1>4, <1>6, <1>7, QuietStep

LEMMA ClosePreserves ==
  ASSUME ImagesConstants, ImageInv, NEW p \in Workers, Attachments!Close(p)
  PROVE  ImageInv'
<1> DEFINE r == [window[p] EXCEPT !.at = "closing"]
<1>1. r \in Attachments!Doing /\ r.at = "closing" BY ImagesTyped DEF Attachments!Doing, Attachments!Resting
<1>2. /\ window' = [window EXCEPT ![p] = r]
      /\ UNCHANGED <<image, marker, owner, gcLock, mentioned, draft, ages, slips>>
  BY ImagesTyped DEF Attachments!Close, Attachments!Goto, Attachments!disk, Attachments!Doing
<1> HIDE DEF r
<1>3. /\ window' \in [Workers -> Attachments!Doing] /\ window'[p] = r
      /\ \A q \in Workers \ {p} : window'[q] = window[q] BY <1>1, <1>2, StepTyped
<1>4. Attachments!TypeOK' BY <1>2, <1>3 DEF ImageInv, Attachments!TypeOK
<1>5. CommitOK(p)' /\ StopOK(p)' BY <1>1, <1>3 DEF CommitOK, StopOK, Attachments!At, Working
<1>6. WorkInv' BY <1>2, <1>3, <1>5, OthersWork DEF ImageInv
<1>7. r.at \notin {"importing", "removing", "examine", "sweep"} BY <1>1
<1> QED BY <1>1, <1>2, <1>4, <1>6, <1>7, QuietStep

\* The lease is given up only after the last collection, with no message left.
LEMMA ShutdownPreserves ==
  ASSUME ImagesConstants, ImageInv, NEW p \in Workers, Attachments!Shutdown(p)
  PROVE  ImageInv'
<1> DEFINE r == [window[p] EXCEPT !.at = "create", !.goal = "stop"]
<1>1. r \in Attachments!Doing /\ r.at = "create" /\ r.goal = "stop" BY ImagesTyped DEF Attachments!Doing
<1>2. /\ window' = [window EXCEPT ![p] = r] /\ draft[p] = {}
      /\ UNCHANGED <<image, marker, owner, gcLock, mentioned, draft, ages, slips>>
  BY ImagesTyped DEF Attachments!Shutdown, Attachments!disk, Attachments!Doing
<1> HIDE DEF r
<1>3. /\ window' \in [Workers -> Attachments!Doing] /\ window'[p] = r
      /\ \A q \in Workers \ {p} : window'[q] = window[q] BY <1>1, <1>2, StepTyped
<1>4. Attachments!TypeOK' BY <1>2, <1>3 DEF ImageInv, Attachments!TypeOK
<1>5. CommitOK(p)' /\ StopOK(p)' BY <1>1, <1>2, <1>3 DEF CommitOK, StopOK, Attachments!At
<1>6. WorkInv' BY <1>2, <1>3, <1>5, OthersWork DEF ImageInv
<1>7. r.at \notin {"importing", "removing", "examine", "sweep"} BY <1>1
<1> QED BY <1>1, <1>2, <1>4, <1>6, <1>7, QuietStep

LEMMA CrashPreserves ==
  ASSUME ImagesConstants, ImageInv, NEW p \in Workers, Attachments!Crash(p)
  PROVE  ImageInv'
<1>1. Attachments!Down \in Attachments!Doing /\ Attachments!Down.at = "down"
  BY DEF Attachments!Down, Attachments!Doing, Attachments!Resting
<1>2. /\ window' = [window EXCEPT ![p] = Attachments!Down]
      /\ UNCHANGED <<image, marker, mentioned, ages>>
      /\ draft' = [draft EXCEPT ![p] = {}]
      /\ owner' = [i \in Images |-> IF owner[i] = p THEN Dead ELSE owner[i]]
      /\ gcLock' = gcLock \/ gcLock' = [gcLock EXCEPT !.by = Dead]
  BY DEF Attachments!Crash
<1>3. slips' \in 0..MaxSlips BY DEF Attachments!Crash, Attachments!Fault, ImageInv, Attachments!TypeOK, ImagesConstants
<1>4. gcLock' \in [by : Workers \cup {Nobody, Dead}, old : BOOLEAN]
  <2>1. gcLock \in [by : Workers \cup {Nobody, Dead}, old : BOOLEAN] BY DEF ImageInv, Attachments!TypeOK
  <2> QED BY <1>2, <2>1
<1>5. /\ owner' \in [Images -> Workers \cup {Nobody, Dead}]
      /\ draft' \in [Workers -> SUBSET Images]
      /\ draft'[p] = {} /\ \A q \in Workers \ {p} : draft'[q] = draft[q]
  BY <1>2 DEF ImageInv, Attachments!TypeOK
<1>6. /\ window' \in [Workers -> Attachments!Doing] /\ window'[p] = Attachments!Down
      /\ \A q \in Workers \ {p} : window'[q] = window[q] BY <1>1, <1>2, StepTyped
<1>7. Attachments!TypeOK' BY <1>2, <1>3, <1>4, <1>5, <1>6 DEF ImageInv, Attachments!TypeOK
<1>8. CommitOK(p)' /\ StopOK(p)' BY <1>1, <1>6 DEF CommitOK, StopOK, Attachments!At, Working
<1>9. WorkInv' BY <1>2, <1>5, <1>6, <1>8, OthersWork DEF ImageInv
<1>10. Attachments!Down.at \notin {"importing", "removing", "examine", "sweep"} BY <1>1
<1>11. \A q \in Workers : draft'[q] \subseteq draft[q] BY <1>5
<1>12. \A i \in Images : owner'[i] = owner[i] \/ (owner[i] = p /\ draft'[p] = {}) BY <1>2, <1>5
<1> QED BY <1>1, <1>2, <1>7, <1>9, <1>10, <1>11, <1>12, QuietStep

\* While every process rests no collection relies on what is new.
LEMMA AgePreserves ==
  ASSUME ImagesConstants, ImageInv, Attachments!Age
  PROVE  ImageInv'
<1>1. /\ UNCHANGED <<owner, mentioned, draft, window, slips>>
      /\ \A p \in Workers : window[p].at \notin {"importing", "removing", "examine", "sweep"}
  BY DEF Attachments!Age, Attachments!At, Attachments!Resting
<1>2. /\ image' \in [Images -> Attachments!Age3] /\ marker' \in [Images -> Attachments!Age3]
      /\ \A i \in Images : (image'[i] = "none" <=> image[i] = "none") /\ (marker'[i] = "none" <=> marker[i] = "none")
  BY DEF Attachments!Age, Attachments!Older, ImageInv, Attachments!TypeOK, Attachments!Age3
<1>3. gcLock' \in [by : Workers \cup {Nobody, Dead}, old : BOOLEAN]
  <2> DEFINE old == gcLock.by # Nobody
  <2>1. old \in BOOLEAN /\ gcLock' = [gcLock EXCEPT !.old = old] BY DEF Attachments!Age
  <2> HIDE DEF old
  <2>2. gcLock \in [by : Workers \cup {Nobody, Dead}, old : BOOLEAN] BY DEF ImageInv, Attachments!TypeOK
  <2> QED BY <2>1, <2>2
<1>4. ages' \in 0..MaxAges BY DEF Attachments!Age, ImageInv, Attachments!TypeOK, ImagesConstants
<1>5. Attachments!TypeOK' BY <1>1, <1>2, <1>3, <1>4 DEF ImageInv, Attachments!TypeOK
<1>6. DraftInv' BY <1>1, <1>2, ImagesTyped DEF ImageInv, DraftInv
<1>7. ImportInv' BY <1>1 DEF ImportInv, Attachments!At
<1>8. RemoveInv' BY <1>1 DEF RemoveInv, Attachments!At
<1>9. WorkInv' BY <1>1 DEF ImageInv, WorkInv, CommitOK, StopOK, Attachments!At
<1>10. SweepInv' BY <1>1 DEF SweepInv, Examined, Attachments!At
<1> QED BY <1>5, <1>6, <1>7, <1>8, <1>9, <1>10 DEF ImageInv

-----------------------------------------------------------------------------
(* The theorems *)

LEMMA NextPreserves ==
  ASSUME ImagesConstants, ImageInv, [Attachments!Next]_(Attachments!vars)
  PROVE  ImageInv'
<1>1. CASE UNCHANGED Attachments!vars BY <1>1, StutterInv
<1>2. CASE Attachments!Age BY <1>2, AgePreserves
<1>3. ASSUME NEW p \in Workers, NEW i \in Images, Attachments!Import(p, i) PROVE ImageInv'
  BY <1>3, ImportPreserves
<1>4. ASSUME NEW p \in Workers,
             Attachments!CreatePendingMarker(p) \/ Attachments!Submit(p) \/ Attachments!Commit(p)
                 \/ Attachments!Unmark(p) \/ Attachments!EndTurn(p) \/ Attachments!Discard(p)
                 \/ Attachments!RemoveMarker(p)
      PROVE  ImageInv'
  BY <1>4, CreatePendingMarkerPreserves, SubmitPreserves, CommitPreserves, UnmarkPreserves, EndTurnPreserves,
     DiscardPreserves, RemoveMarkerPreserves
<1>5. ASSUME NEW p \in Workers,
             Attachments!Create(p) \/ Attachments!Steal(p) \/ Attachments!Release(p) \/ Attachments!Snapshot(p)
                 \/ Attachments!Examine(p) \/ Attachments!Sweep(p)
      PROVE  ImageInv'
  BY <1>5, CreatePreserves, StealPreserves, ReleasePreserves, SnapshotPreserves, ExaminePreserves, SweepPreserves
<1>6. ASSUME NEW p \in Workers, Attachments!Start(p) \/ Attachments!Close(p) \/ Attachments!Shutdown(p)
          \/ Attachments!Crash(p) PROVE ImageInv'
  BY <1>6, StartPreserves, ClosePreserves, ShutdownPreserves, CrashPreserves
<1> QED BY <1>1, <1>2, <1>3, <1>4, <1>5, <1>6 DEF Attachments!Next

-----------------------------------------------------------------------------
(* The long-term memory *)

Acts == {"remember", "revise", "move", "flag", "forget"}
Mutations == [act : Acts, id : Nat, words : Words, scope : Memory!Scopes, stated : BOOLEAN]
MemoryConstants ==
  /\ Words # {} /\ MaxMemories \in Nat /\ MaxTurns \in Nat
  /\ Batches \subseteq Seq(Mutations)

Records == [status : {"none", "active", "unsure", "expired", "superseded", "forgotten"},
            words : Words, scope : Memory!Scopes, source : Nat]
Stores == [Memory!Ids -> Records]

-----------------------------------------------------------------------------
(* Numbers *)

\* A nonempty set of numbers has a least one.
LEMMA LeastOfSome ==
  ASSUME NEW S, S \subseteq Nat, S # {}
  PROVE  \E x \in S : \A y \in S : x <= y
<1> DEFINE Below(x) == {y \in S : y <= x}
           Belows == {Below(x) : x \in S}
<1>1. Belows # {} /\ Belows \subseteq FiniteSubsetsOf(S)
  <2>1. ASSUME NEW x \in S
        PROVE  IsFiniteSet(Below(x))
    <3>1. Below(x) \in SUBSET Nat /\ x \in Nat /\ \A y \in Below(x) : y <= x
      OBVIOUS
    <3>2. QED
      BY <3>1, FS_BoundedSetOfNaturals
  <2>2. QED
    BY <2>1 DEF FiniteSubsetsOf
<1>2. PICK U \in Belows : \A V \in Belows : ~(<<V, U>> \in StrictSubsetOrdering(S))
  BY <1>1, FS_StrictSubsetOrderingWellFounded, WFMin
<1>3. PICK x \in S : U = Below(x)
  OBVIOUS
<1>4. ASSUME NEW y \in S, y < x
      PROVE  FALSE
  <2>1. x \in Nat /\ y \in Nat /\ S \subseteq Nat
    OBVIOUS
  <2>2. \A z \in Below(y) : z \in U
    <3> SUFFICES ASSUME NEW z \in S, z <= y PROVE z <= x
      BY <1>3
    <3>1. z \in Nat
      BY <2>1
    <3>2. QED
      BY <1>4, <2>1, <3>1
  <2>3. x \in U /\ x \notin Below(y)
    BY <1>3, <1>4, <2>1
  <2>4. <<Below(y), U>> \in StrictSubsetOrdering(S)
    BY <1>3, <2>2, <2>3 DEF StrictSubsetOrdering
  <2>5. QED
    BY <1>2, <2>4
<1>5. \A y \in S : x <= y
  BY <1>4
<1>6. QED
  BY <1>5

\* Induction up to a bound.
LEMMA Upwards ==
  ASSUME NEW L \in Nat, NEW S, 0 \in S, \A n \in 1 .. L : n - 1 \in S => n \in S
  PROVE  \A n \in 0 .. L : n \in S
<1> DEFINE Out == {n \in 0 .. L : n \notin S}
<1>1. SUFFICES ASSUME Out # {} PROVE FALSE
  OBVIOUS
<1>2. PICK n \in Out : \A k \in Out : n <= k
  <2>1. Out \subseteq Nat
    OBVIOUS
  <2> HIDE DEF Out
  <2>2. QED
    BY <1>1, <2>1, LeastOfSome
<1>3. n \in 1 .. L
  OBVIOUS
<1>4. n - 1 \in 0 .. L /\ ~(n <= n - 1)
  BY <1>3
<1>5. n - 1 \in S
  BY <1>2, <1>4
<1>6. QED
  BY <1>3, <1>5

-----------------------------------------------------------------------------
(* Mutations of the records *)

LEMMA NewIdFresh ==
  ASSUME MemoryConstants, NEW m \in Stores
  PROVE  Memory!NewId(m) \in Memory!Ids => m[Memory!NewId(m)].status = "none"
<1> DEFINE Free_(i) == i \in Memory!Ids => m[i].status = "none"
           S == {i \in 1 .. MaxMemories + 1 : Free_(i)}
<1>1. MaxMemories \in Nat
  BY DEF MemoryConstants
<1>2. MaxMemories + 1 \in S
  BY <1>1 DEF Memory!Ids
<1>3. PICK i \in S : \A k \in S : i <= k
  <2>1. S \subseteq Nat /\ S # {}
    BY <1>1, <1>2
  <2> HIDE DEF S
  <2>2. QED
    BY <2>1, LeastOfSome
<1>4. \A j \in 1 .. (i - 1) : m[j].status # "none"
  <2> SUFFICES ASSUME NEW j \in 1 .. (i - 1), m[j].status = "none" PROVE FALSE
    OBVIOUS
  <2>1. j \in S /\ ~(i <= j)
    BY <1>1
  <2>2. QED
    BY <1>3, <2>1
<1>5. QED
  BY <1>4 DEF Memory!NewId

LEMMA RecordTyped ==
  ASSUME NEW w \in Words, NEW s \in Memory!Scopes, NEW n \in Nat
  PROVE  Memory!Record(w, s, n) \in Records /\ Memory!Record(w, s, n).status = "active"
         /\ Memory!Record(w, s, n).words = w /\ Memory!Record(w, s, n).scope = s
BY DEF Memory!Record, Records

LEMMA SayingOf ==
  ASSUME NEW m \in Stores, NEW s, NEW w, NEW i
  PROVE  i \in Memory!Saying(m, s, w) <=> i \in Memory!Ids /\ m[i].status # "none" /\ m[i].scope = s /\ m[i].words = w
BY DEF Memory!Saying

\* One record at most says the same in a scope.
Once(m) == \A i, j \in Memory!Ids :
  m[i].status # "none" /\ m[j].status # "none" /\ m[i].words = m[j].words /\ m[i].scope = m[j].scope => i = j

\* What a mutation does to the records.
Recorded(m, new) == \A i \in Memory!Ids : m[i].status # "none" => new[i].status # "none"
Keeps(m, x, new) ==
  /\ new \in Stores /\ Recorded(m, new)
  /\ ~x.stated => \A i \in Memory!Ids : m[i].status = "forgotten" => new[i].status = "forgotten"
  /\ Once(m) => Once(new)

Alive == {"active", "unsure", "superseded"}
Spares(m, x, new) ==
  \A i \in Memory!Ids : m[i].status \in Alive /\ ~(x.act = "forget" /\ x.id = i) => new[i].status \in Alive

LEMMA RememberKeeps ==
  ASSUME MemoryConstants, NEW m \in Stores, NEW x \in Mutations, NEW source \in Nat, Memory!MayRemember(m, x)
  PROVE  Keeps(m, x, Memory!Remembered(m, x, source))
<1> DEFINE same == Memory!Saying(m, x.scope, x.words)
           r == Memory!Record(x.words, x.scope, source)
           new == Memory!Remembered(m, x, source)
<1>1. x.words \in Words /\ x.scope \in Memory!Scopes /\ x.stated \in BOOLEAN
  BY DEF Mutations
<1>2. r \in Records /\ r.status = "active" /\ r.words = x.words /\ r.scope = x.scope
  BY <1>1, RecordTyped
<1>3. ~x.stated => \A i \in same : m[i].status # "forgotten"
  BY DEF Memory!MayRemember
<1> HIDE DEF r
<1>4. CASE same = {}
  <2> DEFINE k == Memory!NewId(m)
  <2>1. new = [m EXCEPT ![k] = r]
    BY <1>4 DEF Memory!Remembered, r
  <2>2. k \in Memory!Ids => m[k].status = "none"
    BY NewIdFresh
  <2> HIDE DEF k, new
  <2>3. new \in Stores /\ \A i \in Memory!Ids : new[i] = IF i = k THEN r ELSE m[i]
    BY <1>2, <2>1 DEF Stores
  <2>4. \A i \in Memory!Ids : m[i].status # "none" => m[i].scope # x.scope \/ m[i].words # x.words
    BY <1>4, SayingOf
  <2>5. Once(m) => Once(new)
    BY <1>2, <2>3, <2>4 DEF Once
  <2>6. \A i \in Memory!Ids : m[i].status = "forgotten" => new[i].status = "forgotten"
    BY <2>2, <2>3
  <2>7. Recorded(m, new)
    BY <1>2, <2>3 DEF Recorded
  <2>8. QED
    BY <2>3, <2>5, <2>6, <2>7 DEF Keeps, new
<1>5. CASE same # {}
  <2>1. new = [i \in Memory!Ids |-> IF i \in same /\ m[i].status # "active" THEN r ELSE m[i]]
    BY <1>5 DEF Memory!Remembered, r
  <2>2. new \in Stores /\ \A i \in Memory!Ids : new[i] = IF i \in same /\ m[i].status # "active" THEN r ELSE m[i]
    BY <1>2, <2>1 DEF Stores
  <2>3. \A i \in same : m[i].status # "none" /\ m[i].scope = x.scope /\ m[i].words = x.words
    BY SayingOf
  <2> HIDE DEF same, new
  <2>4. \A i \in Memory!Ids : /\ new[i].words = m[i].words /\ new[i].scope = m[i].scope
                              /\ new[i].status # "none" => m[i].status # "none"
    BY <1>2, <2>2, <2>3
  <2>5. Once(m) => Once(new)
    BY <2>4 DEF Once
  <2>6. ~x.stated => \A i \in Memory!Ids : m[i].status = "forgotten" => new[i].status = "forgotten"
    BY <1>3, <2>2
  <2>7. Recorded(m, new)
    BY <1>2, <2>2 DEF Recorded
  <2>8. QED
    BY <2>2, <2>5, <2>6, <2>7 DEF Keeps, new
<1>6. QED
  BY <1>4, <1>5

LEMMA ReviseKeeps ==
  ASSUME MemoryConstants, NEW m \in Stores, NEW x \in Mutations, NEW source \in Nat,
         x.act = "revise", Memory!MayChange(m, x)
  PROVE  Keeps(m, x, Memory!Revised(m, x, source)) /\ Spares(m, x, Memory!Revised(m, x, source))
<1> DEFINE same == Memory!Saying(m, x.scope, x.words)
           r == Memory!Record(x.words, x.scope, source)
           new == Memory!Revised(m, x, source)
<1>1. x.words \in Words /\ x.scope \in Memory!Scopes /\ x.stated \in BOOLEAN
  BY DEF Mutations
<1>2. r \in Records /\ r.status = "active" /\ r.words = x.words /\ r.scope = x.scope
  BY <1>1, RecordTyped
<1>3. x.id \in Memory!Ids /\ m[x.id].scope = x.scope /\ m[x.id].status \in {"active", "unsure"}
  BY DEF Memory!MayChange, Memory!MayRevise, Memory!Here
<1>4. ~x.stated => \A i \in same \ {x.id} : m[i].status # "forgotten"
  BY DEF Memory!MayChange, Memory!MayRevise
<1> HIDE DEF r
<1>5. CASE m[x.id].words = x.words
  <2>1. new = [m EXCEPT ![x.id] = r]
    BY <1>5 DEF Memory!Revised, r
  <2> HIDE DEF new
  <2>2. new \in Stores /\ \A i \in Memory!Ids : new[i] = IF i = x.id THEN r ELSE m[i]
    BY <1>2, <1>3, <2>1 DEF Stores
  <2>3. \A i \in Memory!Ids : /\ new[i].words = m[i].words /\ new[i].scope = m[i].scope
                              /\ new[i].status # "none" => m[i].status # "none"
    BY <1>2, <1>3, <1>5, <2>2
  <2>4. Once(m) => Once(new)
    BY <2>3 DEF Once
  <2>5. \A i \in Memory!Ids : m[i].status = "forgotten" => new[i].status = "forgotten"
    BY <1>3, <2>2
  <2>6. Spares(m, x, new)
    BY <1>2, <2>2 DEF Spares, Alive
  <2>7. Recorded(m, new)
    BY <1>2, <2>2 DEF Recorded
  <2>8. QED
    BY <2>2, <2>4, <2>5, <2>6, <2>7 DEF Keeps, new
<1>6. CASE m[x.id].words # x.words
  <2> DEFINE next == IF same = {} THEN Memory!NewId(m) ELSE CHOOSE i \in same : TRUE
  <2>1. new = [m EXCEPT ![x.id].status = "superseded", ![next] = r]
    BY <1>6 DEF Memory!Revised, r
  <2>2. \/ next \in same
        \/ same = {} /\ (next \in Memory!Ids => m[next].status = "none")
    BY NewIdFresh
  <2>3. \A i \in Memory!Ids : i \in same <=> m[i].status # "none" /\ m[i].scope = x.scope /\ m[i].words = x.words
    BY SayingOf
  <2>4. same \subseteq Memory!Ids
    BY SayingOf
  <2> HIDE DEF next, same, new
  <2>5. next # x.id
    BY <1>3, <1>6, <2>2, <2>3
  <2> DEFINE old == [m[x.id] EXCEPT !.status = "superseded"]
  <2>6. m[x.id] \in Records
    BY <1>3 DEF Stores
  <2>7. old \in Records /\ old.status = "superseded" /\ old.words = m[x.id].words /\ old.scope = m[x.id].scope
    BY <2>6 DEF Records
  <2> HIDE DEF old
  <2>8. new \in Stores /\ \A i \in Memory!Ids : new[i] = IF i = next THEN r ELSE IF i = x.id THEN old ELSE m[i]
    <3>1. new = [[m EXCEPT ![x.id] = old] EXCEPT ![next] = r]
      BY <1>3, <2>1 DEF Stores, old
    <3>2. QED
      BY <1>2, <1>3, <2>7, <3>1 DEF Stores
  <2>9. \A i \in Memory!Ids \ {next} : /\ new[i].words = m[i].words /\ new[i].scope = m[i].scope
                                       /\ new[i].status # "none" => m[i].status # "none"
    BY <1>3, <2>7, <2>8
  <2>10. Once(m) => Once(new)
    <3> SUFFICES ASSUME Once(m), NEW i \in Memory!Ids, NEW j \in Memory!Ids,
                        new[i].status # "none", new[j].status # "none",
                        new[i].words = new[j].words, new[i].scope = new[j].scope, i # j
                 PROVE  FALSE
      BY DEF Once
    <3>1. CASE i # next /\ j # next
      BY <2>9, <3>1 DEF Once
    <3>2. ASSUME NEW a \in Memory!Ids \ {next}, next \in Memory!Ids,
                 new[a].status # "none", new[a].words = x.words, new[a].scope = x.scope
          PROVE  FALSE
      <4>1. m[a].status # "none" /\ m[a].words = x.words /\ m[a].scope = x.scope
        BY <2>9, <3>2
      <4>2. a \in same
        BY <2>3, <4>1
      <4>3. next \in same
        BY <2>2, <4>2
      <4>4. m[next].status # "none" /\ m[next].words = x.words /\ m[next].scope = x.scope
        BY <2>3, <3>2, <4>3
      <4>5. QED
        BY <3>2, <4>1, <4>4 DEF Once
    <3>3. CASE i = next
      <4>1. new[i].words = x.words /\ new[i].scope = x.scope
        BY <1>2, <2>8, <3>3
      <4>2. QED
        BY <3>2, <3>3, <4>1
    <3>4. CASE j = next
      <4>1. new[j].words = x.words /\ new[j].scope = x.scope
        BY <1>2, <2>8, <3>4
      <4>2. QED
        BY <3>2, <3>4, <4>1
    <3>5. QED
      BY <3>1, <3>3, <3>4
  <2>11. ~x.stated => \A i \in Memory!Ids : m[i].status = "forgotten" => new[i].status = "forgotten"
    <3> SUFFICES ASSUME ~x.stated, NEW i \in Memory!Ids, m[i].status = "forgotten" PROVE new[i].status = "forgotten"
      OBVIOUS
    <3>1. i # x.id
      BY <1>3
    <3>2. i # next
      BY <1>4, <2>2, <3>1
    <3>3. QED
      BY <2>8, <3>1, <3>2
  <2>12. Spares(m, x, new)
    BY <1>2, <2>7, <2>8 DEF Spares, Alive
  <2>13. Recorded(m, new)
    BY <1>2, <2>7, <2>8 DEF Recorded
  <2>14. QED
    BY <2>8, <2>10, <2>11, <2>12, <2>13 DEF Keeps, new
<1>7. QED
  BY <1>5, <1>6

LEMMA ChangeKeeps ==
  ASSUME MemoryConstants, NEW m \in Stores, NEW x \in Mutations, NEW source \in Nat,
         x.act # "remember", Memory!MayChange(m, x)
  PROVE  Keeps(m, x, Memory!Changed(m, x, source)) /\ Spares(m, x, Memory!Changed(m, x, source))
<1> DEFINE new == Memory!Changed(m, x, source)
           rec == m[x.id]
<1>1. x.id \in Memory!Ids /\ rec \in Records /\ x.scope \in Memory!Scopes
          /\ x.act \in {"revise", "move", "flag", "forget"}
  BY DEF Memory!MayChange, Mutations, Acts, Stores
<1>2. CASE x.act = "revise"
  BY <1>2, ReviseKeeps DEF Memory!Changed
<1>3. CASE x.act = "move"
  <2> DEFINE there == [rec EXCEPT !.scope = x.scope]
  <2>1. new = [m EXCEPT ![x.id] = there]
    BY <1>1, <1>3 DEF Memory!Changed, Stores
  <2>2. there \in Records /\ there.status = rec.status /\ there.words = rec.words /\ there.scope = x.scope
    BY <1>1 DEF Records
  <2>3. Memory!Saying(m, x.scope, rec.words) = {}
    BY <1>3 DEF Memory!MayChange
  <2> HIDE DEF there, new
  <2>4. new \in Stores /\ \A i \in Memory!Ids : new[i] = IF i = x.id THEN there ELSE m[i]
    BY <1>1, <2>1, <2>2 DEF Stores
  <2>5. \A i \in Memory!Ids : m[i].status # "none" => m[i].scope # x.scope \/ m[i].words # rec.words
    BY <2>3, SayingOf
  <2>6. Once(m) => Once(new)
    BY <2>2, <2>4, <2>5 DEF Once
  <2>7. \A i \in Memory!Ids : new[i].status = m[i].status
    BY <2>2, <2>4
  <2>8. QED
    BY <2>4, <2>6, <2>7 DEF Keeps, Recorded, Spares, new
<1>4. CASE x.act \in {"flag", "forget"}
  <2> DEFINE s == IF x.act = "flag" THEN (IF rec.status = "active" THEN "unsure" ELSE rec.status)
                  ELSE (IF Memory!Here(m, x.id) THEN "expired" ELSE rec.status)
             then_ == [rec EXCEPT !.status = s]
  <2>1. new = [m EXCEPT ![x.id] = then_]
    <3>1. m = [m EXCEPT ![x.id] = rec] /\ rec = [rec EXCEPT !.status = rec.status]
      BY <1>1 DEF Stores, Records
    <3>2. CASE x.act = "flag"
      BY <1>1, <3>1, <3>2 DEF Memory!Changed, Stores
    <3>3. CASE x.act = "forget"
      BY <1>1, <3>1, <3>3 DEF Memory!Changed, Stores
    <3>4. QED
      BY <1>4, <3>2, <3>3
  <2>2. /\ s \in {"none", "active", "unsure", "expired", "superseded", "forgotten"}
        /\ rec.status = "forgotten" => s = "forgotten"
        /\ s # "none" <=> rec.status # "none"
        /\ rec.status \in Alive /\ x.act # "forget" => s \in Alive
    <3>1. rec.status \in {"none", "active", "unsure", "expired", "superseded", "forgotten"}
      BY <1>1 DEF Records
    <3>2. CASE x.act = "flag"
      BY <3>1, <3>2 DEF Alive
    <3>3. CASE x.act = "forget"
      <4>1. CASE Memory!Here(m, x.id)
        <5>1. s = "expired" /\ rec.status \in {"active", "unsure"}
          BY <3>3, <4>1 DEF Memory!Here
        <5>2. QED
          BY <3>3, <5>1
      <4>2. CASE ~Memory!Here(m, x.id)
        <5>1. s = rec.status
          BY <3>3, <4>2
        <5>2. QED
          BY <3>1, <3>3, <5>1
      <4>3. QED
        BY <4>1, <4>2
    <3>4. QED
      BY <1>4, <3>2, <3>3
  <2> HIDE DEF s
  <2>3. then_ \in Records /\ then_.status = s /\ then_.words = rec.words /\ then_.scope = rec.scope
    BY <1>1, <2>2 DEF Records
  <2> HIDE DEF then_, new
  <2>4. new \in Stores /\ \A i \in Memory!Ids : new[i] = IF i = x.id THEN then_ ELSE m[i]
    BY <1>1, <2>1, <2>3 DEF Stores
  <2>5. Once(m) => Once(new)
    BY <2>2, <2>3, <2>4 DEF Once
  <2>6. \A i \in Memory!Ids : m[i].status = "forgotten" => new[i].status = "forgotten"
    BY <2>2, <2>3, <2>4
  <2>7. Spares(m, x, new)
    BY <1>4, <2>2, <2>3, <2>4 DEF Spares
  <2>8. Recorded(m, new)
    BY <2>2, <2>3, <2>4 DEF Recorded
  <2>9. QED
    BY <2>4, <2>5, <2>6, <2>7, <2>8 DEF Keeps, new
<1>5. QED
  BY <1>1, <1>2, <1>3, <1>4

\* One mutation.
LEMMA MutationKeeps ==
  ASSUME MemoryConstants, NEW m \in Stores, NEW x \in Mutations, NEW source \in Nat, Memory!Accepts(m, x)
  PROVE  /\ Keeps(m, x, Memory!Applied(m, x, source))
         /\ x.act # "remember" => Spares(m, x, Memory!Applied(m, x, source))
BY RememberKeeps, ChangeKeeps DEF Memory!Accepts, Memory!Applied

-----------------------------------------------------------------------------
(* Batches *)

Step(m, x, source) == IF Memory!Accepts(m, x) THEN Memory!Applied(m, x, source) ELSE m

\* The records after each mutation of a batch are what the definition says.
LEMMA ApplyingIs ==
  ASSUME MemoryConstants, NEW m \in Stores, NEW batch \in Seq(Mutations), NEW source \in Nat
  PROVE  LET after == Memory!Applying(m, batch, source)
         IN  /\ after \in [0 .. Len(batch) -> Stores] /\ after[0] = m
             /\ \A n \in 1 .. Len(batch) : after[n] = Step(after[n - 1], batch[n], source)
<1> DEFINE L == Len(batch)
           after == Memory!Applying(m, batch, source)
           Follows(f, n) == f[0] = m /\ \A k \in 1 .. n : f[k] = Step(f[k - 1], batch[k], source)
           Body(f) == [n \in 0 .. L |-> IF n = 0 THEN m ELSE Step(f[n - 1], batch[n], source)]
           S == {n \in 0 .. L : \E f \in [0 .. n -> Stores] : Follows(f, n)}
<1>1. L \in Nat /\ \A n \in 1 .. L : batch[n] \in Mutations
  OBVIOUS
<1>2. \A n \in 1 .. L : \A s \in Stores : Step(s, batch[n], source) \in Stores
  BY <1>1, MutationKeeps DEF Step, Keeps
<1>3. 0 \in S
  <2>1. [k \in 0 .. 0 |-> m] \in [0 .. 0 -> Stores] /\ Follows([k \in 0 .. 0 |-> m], 0)
    OBVIOUS
  <2>2. \E f \in [0 .. 0 -> Stores] : Follows(f, 0)
    BY <2>1
  <2> HIDE DEF Follows
  <2>3. QED
    BY <1>1, <2>2
<1>4. ASSUME NEW n \in 1 .. L, n - 1 \in S
      PROVE  n \in S
  <2>1. PICK f \in [0 .. n - 1 -> Stores] : Follows(f, n - 1)
    BY <1>4
  <2> DEFINE g == [k \in 0 .. n |-> IF k = n THEN Step(f[n - 1], batch[n], source) ELSE f[k]]
  <2>2. n \in Nat /\ n - 1 \in 0 .. n - 1
    BY <1>1
  <2>3. Step(f[n - 1], batch[n], source) \in Stores
    BY <1>2, <2>2
  <2>4. g \in [0 .. n -> Stores]
    BY <2>2, <2>3
  <2>5. g[0] = m /\ g[n] = Step(g[n - 1], batch[n], source)
    BY <2>1, <2>2
  <2>6. ASSUME NEW k \in 1 .. n - 1
        PROVE  g[k] = Step(g[k - 1], batch[k], source)
    <3>1. g[k] = f[k] /\ g[k - 1] = f[k - 1]
      BY <2>2
    <3>2. QED
      BY <2>1, <3>1
  <2> HIDE DEF g
  <2>7. Follows(g, n)
    <3>1. \A k \in 1 .. n : k = n \/ k \in 1 .. n - 1
      BY <2>2
    <3>2. QED
      BY <2>5, <2>6, <3>1
  <2> HIDE DEF Follows
  <2>8. QED
    BY <1>1, <2>4, <2>7
<1>5. L \in S
  <2> HIDE DEF S
  <2>1. \A n \in 0 .. L : n \in S
    BY <1>1, <1>3, <1>4, Upwards
  <2>2. QED
    BY <1>1, <2>1
<1>6. PICK f \in [0 .. L -> Stores] : Follows(f, L)
  BY <1>5
<1>7. f = Body(f)
  <2>1. \A n \in 0 .. L : f[n] = Body(f)[n]
    BY <1>1, <1>6
  <2>2. QED
    BY <2>1
<1>8. after = CHOOSE g : g = Body(g)
  BY DEF Memory!Applying, Step
<1>9. after = Body(after)
  BY <1>7, <1>8
<1> HIDE DEF after
<1>10. after[0] = m /\ \A n \in 1 .. L : after[n] = Step(after[n - 1], batch[n], source)
  BY <1>1, <1>9
<1>11. \A n \in 0 .. L : after[n] \in Stores
  <2> DEFINE T == {n \in 0 .. L : after[n] \in Stores}
  <2>1. 0 \in T
    BY <1>1, <1>10
  <2>2. \A n \in 1 .. L : n - 1 \in T => n \in T
    BY <1>1, <1>2, <1>10
  <2> HIDE DEF T
  <2>3. \A n \in 0 .. L : n \in T
    BY <1>1, <2>1, <2>2, Upwards
  <2>4. QED
    BY <2>3 DEF T
<1>12. QED
  BY <1>9, <1>10, <1>11 DEF after

\* A batch that states nothing leaves what is forgotten; records stay distinct.
LEMMA BatchKeeps ==
  ASSUME MemoryConstants, NEW m \in Stores, NEW batch \in Seq(Mutations), NEW source \in Nat
  PROVE  LET new == Memory!EachApplied(m, batch, source)
         IN  /\ new \in Stores /\ (Once(m) => Once(new)) /\ Recorded(m, new)
             /\ (\A n \in DOMAIN batch : ~batch[n].stated) =>
                  \A i \in Memory!Ids : m[i].status = "forgotten" => new[i].status = "forgotten"
<1> DEFINE L == Len(batch)
           after == Memory!Applying(m, batch, source)
           Kept(s) == \A i \in Memory!Ids : m[i].status = "forgotten" => s[i].status = "forgotten"
           Silent == \A n \in DOMAIN batch : ~batch[n].stated
           T == {n \in 0 .. L : (Once(m) => Once(after[n])) /\ Recorded(m, after[n]) /\ (Silent => Kept(after[n]))}
<1>1. /\ after \in [0 .. L -> Stores] /\ after[0] = m
      /\ \A n \in 1 .. L : after[n] = Step(after[n - 1], batch[n], source)
  BY ApplyingIs
<1>2. L \in Nat /\ DOMAIN batch = 1 .. L /\ \A n \in 1 .. L : batch[n] \in Mutations
  OBVIOUS
<1> HIDE DEF after
<1>3. 0 \in T
  BY <1>1, <1>2 DEF Recorded
<1>4. ASSUME NEW n \in 1 .. L, n - 1 \in T
      PROVE  n \in T
  <2>1. after[n - 1] \in Stores /\ batch[n] \in Mutations /\ n \in 0 .. L
    BY <1>1, <1>2
  <2>2. CASE Memory!Accepts(after[n - 1], batch[n])
    <3>1. Keeps(after[n - 1], batch[n], after[n])
      BY <1>1, <2>1, <2>2, MutationKeeps DEF Step
    <3>2. QED
      BY <1>2, <1>4, <2>1, <3>1 DEF Keeps, Recorded
  <2>3. CASE ~Memory!Accepts(after[n - 1], batch[n])
    <3>1. after[n] = after[n - 1]
      BY <1>1, <2>3 DEF Step
    <3>2. QED
      BY <1>4, <2>1, <3>1
  <2>4. QED
    BY <2>2, <2>3
<1> HIDE DEF T
<1>5. L \in T
  <2>1. \A n \in 0 .. L : n \in T
    BY <1>2, <1>3, <1>4, Upwards
  <2>2. QED
    BY <1>2, <2>1
<1>6. Memory!EachApplied(m, batch, source) = after[L]
  BY DEF Memory!EachApplied, after
<1>7. QED
  BY <1>1, <1>2, <1>5, <1>6 DEF T

-----------------------------------------------------------------------------
(* The plan of a consolidation *)

Matchings == UNION {[D -> Memory!Ids \cup {0}] : D \in SUBSET Memory!Ids}
Distinct(match) == \A i \in DOMAIN match : match[i] # i

\* A duplicate expires if nothing is done before to it or to what it repeats, or if
\* what it repeats has just been given what it said.
Reasoned(match, plan) == \A n \in DOMAIN plan : plan[n].act = "forget" =>
  /\ plan[n].id \in DOMAIN match /\ match[plan[n].id] \in Memory!Ids
  /\ \/ n > 1 /\ plan[n - 1].act = "revise" /\ plan[n - 1].id = match[plan[n].id]
     \/ \A k \in 1 .. n - 1 : plan[k].id \notin {plan[n].id, match[plan[n].id]}
PlanOK(match, plan) ==
  /\ plan \in Seq(Mutations) /\ Reasoned(match, plan)
  /\ \A n \in DOMAIN plan : ~plan[n].stated /\ plan[n].act # "remember"

Decision(match) == [act : {"duplicate", "conflict", "merge"}, c : {i \in DOMAIN match : match[i] # 0},
                    m : Memory!Ids, words : Words]

LEMMA MutationTyped ==
  ASSUME memories \in Stores, NEW a \in Acts, NEW i \in Memory!Ids, NEW w \in Words
  PROVE  /\ Memory!Mutation(a, i, w) \in Mutations /\ ~Memory!Mutation(a, i, w).stated
         /\ Memory!Mutation(a, i, w).act = a /\ Memory!Mutation(a, i, w).id = i
<1>1. memories[i].scope \in Memory!Scopes /\ i \in Nat
  BY DEF Stores, Records, Memory!Ids
<1>2. QED
  BY <1>1 DEF Memory!Mutation, Mutations

LEMMA AppendOK ==
  ASSUME NEW match, NEW plan, PlanOK(match, plan), NEW x \in Mutations, ~x.stated, x.act # "remember",
         x.act = "forget" =>
           /\ x.id \in DOMAIN match /\ match[x.id] \in Memory!Ids
           /\ \/ \E n \in DOMAIN plan : n = Len(plan) /\ plan[n].act = "revise" /\ plan[n].id = match[x.id]
              \/ ~Memory!Mentions(plan, {x.id, match[x.id]})
  PROVE  PlanOK(match, Append(plan, x))
<1> DEFINE L == Len(plan)
           new == Append(plan, x)
<1>1. plan \in Seq(Mutations) /\ L \in Nat /\ DOMAIN plan = 1 .. L
  BY DEF PlanOK
<1>2. /\ new \in Seq(Mutations) /\ DOMAIN new = 1 .. L + 1 /\ new[L + 1] = x
      /\ \A n \in 1 .. L : new[n] = plan[n]
  BY <1>1
<1> HIDE DEF new
<1>3. \A n \in 1 .. L + 1 : ~new[n].stated /\ new[n].act # "remember"
  BY <1>1, <1>2 DEF PlanOK
<1>4. ASSUME NEW n \in 1 .. L + 1, new[n].act = "forget"
      PROVE  /\ new[n].id \in DOMAIN match /\ match[new[n].id] \in Memory!Ids
             /\ \/ n > 1 /\ new[n - 1].act = "revise" /\ new[n - 1].id = match[new[n].id]
                \/ \A k \in 1 .. n - 1 : new[k].id \notin {new[n].id, match[new[n].id]}
  <2>1. CASE n \in 1 .. L
    <3>1. new[n] = plan[n] /\ (n > 1 => new[n - 1] = plan[n - 1]) /\ \A k \in 1 .. n - 1 : new[k] = plan[k]
      BY <1>1, <1>2, <2>1
    <3>2. QED
      BY <1>1, <1>4, <2>1, <3>1 DEF PlanOK, Reasoned
  <2>2. CASE n = L + 1
    <3>1. new[n] = x /\ x.act = "forget"
      BY <1>2, <1>4, <2>2
    <3>2. CASE \E k \in DOMAIN plan : k = L /\ plan[k].act = "revise" /\ plan[k].id = match[x.id]
      <4>1. L \in 1 .. L /\ n - 1 = L /\ n > 1 /\ plan[L].act = "revise" /\ plan[L].id = match[x.id]
        BY <1>1, <2>2, <3>2
      <4>2. new[n - 1] = plan[L]
        BY <1>2, <4>1
      <4>3. QED
        BY <3>1, <4>1, <4>2
    <3>3. CASE ~Memory!Mentions(plan, {x.id, match[x.id]})
      <4>1. \A k \in 1 .. L : plan[k].id \notin {x.id, match[x.id]}
        BY <1>1, <3>3 DEF Memory!Mentions
      <4>2. \A k \in 1 .. n - 1 : k \in 1 .. L /\ new[k] = plan[k]
        BY <1>1, <1>2, <2>2
      <4>3. QED
        BY <3>1, <4>1, <4>2
    <3>4. QED
      BY <3>1, <3>2, <3>3
  <2>3. QED
    BY <1>1, <2>1, <2>2
<1>5. QED
  BY <1>2, <1>3, <1>4 DEF PlanOK, Reasoned, new

LEMMA DecidedOK ==
  ASSUME memories \in Stores, NEW match \in Matchings, NEW plan, PlanOK(match, plan),
         NEW d \in Decision(match), d.m = match[d.c]
  PROVE  PlanOK(match, Memory!Decided(plan, d))
<1>1. /\ d.c \in DOMAIN match /\ d.c \in Memory!Ids /\ d.m \in Memory!Ids /\ d.words \in Words
      /\ d.act \in {"duplicate", "conflict", "merge"} /\ match[d.c] = d.m
  BY DEF Decision, Matchings
<1>2. \A i \in Memory!Ids : memories[i].words \in Words
  BY DEF Stores, Records
<1> DEFINE out == Memory!Mutation("forget", d.c, memories[d.c].words)
<1>3. out \in Mutations /\ ~out.stated /\ out.act = "forget" /\ out.id = d.c
  BY <1>1, <1>2, MutationTyped DEF Acts
<1>4. CASE d.act = "duplicate"
  <2>1. CASE Memory!Mentions(plan, {d.c, d.m})
    BY <1>4, <2>1 DEF Memory!Decided, Memory!Duplicate
  <2>2. CASE ~Memory!Mentions(plan, {d.c, d.m})
    <3>1. Memory!Decided(plan, d) = Append(plan, out)
      BY <1>4, <2>2 DEF Memory!Decided, Memory!Duplicate
    <3> HIDE DEF out
    <3>2. QED
      BY <1>1, <1>3, <2>2, <3>1, AppendOK
  <2>3. QED
    BY <2>1, <2>2
<1>5. CASE d.act = "conflict"
  <2> DEFINE older == IF memories[d.m].source = Memory!User THEN d.c ELSE IF d.m < d.c THEN d.m ELSE d.c
             x == Memory!Mutation("flag", older, memories[older].words)
  <2>1. Memory!Decided(plan, d) \in {plan, Append(plan, x)}
    BY <1>5 DEF Memory!Decided, Memory!Conflict
  <2>2. older \in Memory!Ids
    BY <1>1
  <2> HIDE DEF older
  <2>3. x \in Mutations /\ ~x.stated /\ x.act = "flag"
    BY <1>2, <2>2, MutationTyped DEF Acts
  <2> HIDE DEF x
  <2>4. PlanOK(match, Append(plan, x))
    BY <2>3, AppendOK
  <2>5. QED
    BY <2>1, <2>4
<1>6. CASE d.act = "merge"
  <2> DEFINE x == Memory!Mutation("revise", d.m, d.words)
  <2>1. Memory!Decided(plan, d) \in {plan, plan \o <<x, out>>}
    BY <1>6 DEF Memory!Decided, Memory!Merge
  <2>2. x \in Mutations /\ ~x.stated /\ x.act = "revise" /\ x.id = d.m
    BY <1>1, MutationTyped DEF Acts
  <2> HIDE DEF x, out
  <2>3. PlanOK(match, Append(plan, x))
    BY <2>2, AppendOK
  <2>4. plan \in Seq(Mutations)
    BY DEF PlanOK
  <2> DEFINE first == Append(plan, x)
  <2>5. \E n \in DOMAIN first : n = Len(first) /\ first[n].act = "revise" /\ first[n].id = match[out.id]
    <3>1. Len(first) = Len(plan) + 1 /\ Len(first) \in DOMAIN first /\ first[Len(first)] = x
      BY <2>2, <2>4
    <3>2. QED
      BY <1>1, <1>3, <2>2, <3>1
  <2>6. plan \o <<x, out>> = Append(first, out)
    BY <1>3, <2>2, <2>4
  <2> HIDE DEF first
  <2>7. PlanOK(match, Append(first, out))
    BY <1>1, <1>3, <2>3, <2>5, AppendOK DEF first
  <2>8. QED
    BY <2>1, <2>6, <2>7
<1>7. QED
  BY <1>1, <1>4, <1>5, <1>6

LEMMA PlannedOK ==
  ASSUME memories \in Stores, NEW match \in Matchings, NEW s \in Seq(Decision(match)),
         \A n \in DOMAIN s : s[n].m = match[s[n].c]
  PROVE  PlanOK(match, Memory!Planned(s))
<1> DEFINE L == Len(s)
           Body(f) == [n \in 0 .. L |-> IF n = 0 THEN <<>> ELSE Memory!Decided(f[n - 1], s[n])]
           plan == CHOOSE f : f = Body(f)
           Plans == {p \in Seq(Mutations) : PlanOK(match, p)}
           Follows(f, n) == f[0] = <<>> /\ \A k \in 1 .. n : f[k] = Memory!Decided(f[k - 1], s[k])
           S == {n \in 0 .. L : \E f \in [0 .. n -> Plans] : Follows(f, n)}
<1>1. L \in Nat /\ \A n \in 1 .. L : s[n] \in Decision(match) /\ s[n].m = match[s[n].c]
  OBVIOUS
<1>2. <<>> \in Plans
  BY DEF PlanOK, Reasoned
<1>3. \A n \in 1 .. L : \A p \in Plans : Memory!Decided(p, s[n]) \in Plans
  <2> SUFFICES ASSUME NEW n \in 1 .. L, NEW p \in Plans PROVE Memory!Decided(p, s[n]) \in Plans
    OBVIOUS
  <2>1. PlanOK(match, Memory!Decided(p, s[n]))
    BY <1>1, DecidedOK
  <2>2. QED
    BY <2>1 DEF PlanOK
<1>4. 0 \in S
  <2>1. [k \in 0 .. 0 |-> <<>>] \in [0 .. 0 -> Plans] /\ Follows([k \in 0 .. 0 |-> <<>>], 0)
    BY <1>2
  <2>2. \E f \in [0 .. 0 -> Plans] : Follows(f, 0)
    BY <2>1
  <2> HIDE DEF Follows
  <2>3. QED
    BY <1>1, <2>2
<1> HIDE DEF Plans
<1>5. ASSUME NEW n \in 1 .. L, n - 1 \in S
      PROVE  n \in S
  <2>1. PICK f \in [0 .. n - 1 -> Plans] : Follows(f, n - 1)
    BY <1>5
  <2> DEFINE g == [k \in 0 .. n |-> IF k = n THEN Memory!Decided(f[n - 1], s[n]) ELSE f[k]]
  <2>2. n \in Nat /\ n - 1 \in 0 .. n - 1
    BY <1>1
  <2>3. Memory!Decided(f[n - 1], s[n]) \in Plans
    BY <1>3, <2>2
  <2>4. g \in [0 .. n -> Plans]
    BY <2>2, <2>3
  <2>5. g[0] = <<>> /\ g[n] = Memory!Decided(g[n - 1], s[n])
    BY <2>1, <2>2
  <2>6. ASSUME NEW k \in 1 .. n - 1
        PROVE  g[k] = Memory!Decided(g[k - 1], s[k])
    <3>1. g[k] = f[k] /\ g[k - 1] = f[k - 1]
      BY <2>2
    <3>2. QED
      BY <2>1, <3>1
  <2> HIDE DEF g
  <2>7. Follows(g, n)
    <3>1. \A k \in 1 .. n : k = n \/ k \in 1 .. n - 1
      BY <2>2
    <3>2. QED
      BY <2>5, <2>6, <3>1
  <2> HIDE DEF Follows
  <2>8. QED
    BY <1>1, <2>4, <2>7
<1>6. L \in S
  <2> HIDE DEF S
  <2>1. \A n \in 0 .. L : n \in S
    BY <1>1, <1>4, <1>5, Upwards
  <2>2. QED
    BY <1>1, <2>1
<1>7. PICK f \in [0 .. L -> Plans] : Follows(f, L)
  BY <1>6
<1>8. f = Body(f)
  <2>1. \A n \in 0 .. L : f[n] = Body(f)[n]
    BY <1>1, <1>7
  <2>2. QED
    BY <2>1
<1>9. plan = Body(plan)
  BY <1>8
<1>10. Memory!Planned(s) = plan[L]
  BY DEF Memory!Planned
<1> HIDE DEF plan
<1>11. plan[0] = <<>> /\ \A n \in 1 .. L : plan[n] = Memory!Decided(plan[n - 1], s[n])
  BY <1>1, <1>9
<1>12. \A n \in 0 .. L : plan[n] \in Plans
  <2> DEFINE T == {n \in 0 .. L : plan[n] \in Plans}
  <2>1. 0 \in T
    BY <1>1, <1>2, <1>11
  <2>2. \A n \in 1 .. L : n - 1 \in T => n \in T
    BY <1>1, <1>3, <1>11
  <2> HIDE DEF T
  <2>3. \A n \in 0 .. L : n \in T
    BY <1>1, <2>1, <2>2, Upwards
  <2>4. QED
    BY <2>3 DEF T
<1>13. QED
  BY <1>1, <1>10, <1>12 DEF Plans

LEMMA SameSizes == \A S : Memory!Cardinality(S) = Cardinality(S)
BY DEF Memory!Cardinality, Cardinality

LEMMA DecisionsTyped ==
  ASSUME MemoryConstants, memories \in Stores, NEW match \in Matchings, NEW s \in Memory!Decisions(match)
  PROVE  s \in Seq(Decision(match)) /\ \A n \in DOMAIN s : s[n].m = match[s[n].c]
<1> DEFINE L == Memory!Cardinality(DOMAIN match)
           Matched == {i \in DOMAIN match : match[i] # 0}
           some == {[act |-> a, c |-> c, m |-> match[c], words |-> memories[c].words] :
                      a \in {"duplicate", "conflict"}, c \in Matched}
           merges == {[act |-> "merge", c |-> c, m |-> match[c], words |-> w] : c \in Matched, w \in Words}
           Right == {d \in Decision(match) : d.m = match[d.c]}
<1>1. DOMAIN match \subseteq Memory!Ids /\ \A i \in Matched : match[i] \in Memory!Ids /\ memories[i].words \in Words
  BY DEF Matchings, Stores, Records
<1>2. L \in Nat
  <2>1. Memory!Ids \in SUBSET Nat /\ MaxMemories \in Nat /\ \A i \in Memory!Ids : i <= MaxMemories
    BY DEF Memory!Ids, MemoryConstants
  <2>2. IsFiniteSet(Memory!Ids)
    BY <2>1, FS_BoundedSetOfNaturals
  <2>3. QED
    BY <1>1, <2>2, SameSizes, FS_Subset, FS_CardinalityType
<1>3. some \cup merges \subseteq Right
  <2>1. \A a \in {"duplicate", "conflict"}, c \in Matched :
          [act |-> a, c |-> c, m |-> match[c], words |-> memories[c].words] \in Right
    BY <1>1 DEF Decision
  <2>2. \A c \in Matched, w \in Words : [act |-> "merge", c |-> c, m |-> match[c], words |-> w] \in Right
    BY <1>1 DEF Decision
  <2>3. QED
    BY <2>1, <2>2
<1>4. s \in Memory!SeqOf(some \cup merges, L)
  BY DEF Memory!Decisions
<1> HIDE DEF some, merges, L
<1>5. PICK m \in 0 .. L : s \in [1 .. m -> some \cup merges]
  BY <1>4 DEF Memory!SeqOf
<1>6. m \in Nat /\ DOMAIN s = 1 .. m
  BY <1>2, <1>5
<1>7. \A n \in 1 .. m : s[n] \in Right
  BY <1>3, <1>5
<1> HIDE DEF Right
<1>8. s \in [1 .. m -> Right]
  BY <1>5, <1>7
<1>9. s \in Seq(Right)
  BY <1>6, <1>8
<1>10. QED
  BY <1>6, <1>7, <1>8 DEF Right

-----------------------------------------------------------------------------
(* The invariant *)

Maintenances ==
  [at : {"idle", "expire", "claim", "search", "ask", "commit"}, job : Nat, match : Matchings \cup {<<>>},
   plan : Seq(Mutations), aborted : BOOLEAN]
AtWork(w) ==
  /\ w \in Maintenances
  /\ w.at \in {"search", "ask", "commit"} => w.match \in Matchings
  /\ w.at \in {"ask", "commit"} => Distinct(w.match)
  /\ w.at = "commit" => PlanOK(w.match, w.plan)

DueIsRecorded(w) == w.at = "expire" => w.job \in Memory!Ids /\ memories[w.job].status # "none"

MemoryInv ==
  /\ memories \in Stores /\ Once(memories) /\ turns \in Nat
  /\ worker \in [Workers -> Maintenances] /\ \A p \in Workers : AtWork(worker[p]) /\ DueIsRecorded(worker[p])

StaysForgotten == \A i \in Memory!Ids : memories[i].status = "forgotten" => memories'[i].status = "forgotten"
NotByMistake == \A i \in Memory!Ids : memories[i].status = "forgotten" =>
  \/ memories'[i].status = "forgotten"
  \/ \E p \in Workers : Memory!WriteDue(p) \/ \E w \in Words : Memory!EditByUser(p, i, w)
  \/ \E p \in Workers, b \in Batches : Memory!EndTurn(p, b) /\ \E n \in DOMAIN b : b[n].stated

LEMMA RestingWorks == AtWork(Memory!Resting) /\ Memory!Resting.at = "idle"
<1>1. <<>> \in Seq(Mutations)
  OBVIOUS
<1>2. QED
  BY <1>1 DEF AtWork, Memory!Resting, Maintenances

LEMMA InitMemory ==
  ASSUME MemoryConstants, Memory!Init
  PROVE  MemoryInv
<1>1. Memory!Blank \in Records /\ Memory!Blank.status = "none"
  BY DEF Memory!Blank, Records, Memory!Scopes, MemoryConstants
<1>2. memories \in Stores /\ Once(memories)
  BY <1>1 DEF Memory!Init, Stores, Once
<1>3. \A p \in Workers : worker[p] = Memory!Resting
  BY DEF Memory!Init
<1>4. worker \in [Workers -> Maintenances]
  BY RestingWorks DEF Memory!Init, AtWork
<1>5. QED
  BY <1>2, <1>3, <1>4, RestingWorks DEF Memory!Init, MemoryInv, DueIsRecorded

LEMMA Unforgotten == ASSUME UNCHANGED memories PROVE StaysForgotten
BY DEF StaysForgotten

\* Steps of one maintenance.
LEMMA WorkerStep ==
  ASSUME MemoryInv, NEW p \in Workers, NEW w, AtWork(w), DueIsRecorded(w), worker' = [worker EXCEPT ![p] = w],
         memories' \in Stores, Once(memories'), Recorded(memories, memories'), turns' \in Nat
  PROVE  MemoryInv'
<1>1. w \in Maintenances
  BY DEF AtWork
<1>2. worker' \in [Workers -> Maintenances] /\ \A q \in Workers : worker'[q] = IF q = p THEN w ELSE worker[q]
  BY <1>1 DEF MemoryInv
<1>3. ASSUME NEW q \in Workers
      PROVE  AtWork(worker[q])' /\ DueIsRecorded(worker[q])'
  <2>1. AtWork(worker'[q]) /\ DueIsRecorded(worker'[q])
    BY <1>2 DEF MemoryInv
  <2>2. DueIsRecorded(worker[q])'
    BY <2>1 DEF DueIsRecorded, Recorded
  <2>3. QED
    BY <2>1, <2>2
<1>4. QED
  BY <1>2, <1>3 DEF MemoryInv

\* Steps of the user and of turns.
LEMMA RecordStep ==
  ASSUME MemoryInv, UNCHANGED worker, memories' \in Stores, Once(memories'), Recorded(memories, memories'),
          turns' \in Nat
  PROVE  MemoryInv'
BY DEF MemoryInv, DueIsRecorded, Recorded

LEMMA SameRecorded == ASSUME UNCHANGED memories PROVE Recorded(memories, memories')
BY DEF Recorded

LEMMA BeginTurnStep ==
  ASSUME MemoryInv, NEW p \in Workers, Memory!BeginTurn(p)
  PROVE  MemoryInv' /\ StaysForgotten
<1> DEFINE w == [worker[p] EXCEPT !.aborted = worker[p].at # "idle"]
<1>1. worker[p] \in Maintenances /\ AtWork(worker[p])
  BY DEF MemoryInv
<1>2. (worker[p].at # "idle") \in BOOLEAN
  OBVIOUS
<1>3. w \in Maintenances /\ w.at = worker[p].at /\ w.match = worker[p].match /\ w.plan = worker[p].plan
  BY <1>1, <1>2 DEF Maintenances
<1>4. worker' = [worker EXCEPT ![p] = w] /\ UNCHANGED <<memories, turns>>
  BY DEF Memory!BeginTurn
<1> HIDE DEF w
<1>5. AtWork(w)
  BY <1>1, <1>3 DEF AtWork
<1>6. w.at # "expire"
  BY <1>3 DEF Memory!BeginTurn, Memory!Free
<1>7. QED
  BY <1>4, <1>5, <1>6, WorkerStep, SameRecorded, Unforgotten DEF MemoryInv, DueIsRecorded

LEMMA EndTurnStep ==
  ASSUME MemoryConstants, MemoryInv, NEW p \in Workers, NEW b \in Batches, Memory!EndTurn(p, b)
  PROVE  MemoryInv' /\ NotByMistake
<1>1. /\ memories' = Memory!EachApplied(memories, b, turns + 1) /\ turns' = turns + 1 /\ UNCHANGED worker
      /\ b \in Seq(Mutations) /\ turns + 1 \in Nat /\ memories \in Stores /\ Once(memories)
  BY DEF Memory!EndTurn, MemoryConstants, MemoryInv
<1>2. /\ memories' \in Stores /\ Once(memories') /\ Recorded(memories, memories')
      /\ (\A n \in DOMAIN b : ~b[n].stated) =>
           \A i \in Memory!Ids : memories[i].status = "forgotten" => memories'[i].status = "forgotten"
  BY <1>1, BatchKeeps
<1>3. QED
  BY <1>1, <1>2, RecordStep DEF NotByMistake

LEMMA FailTurnStep ==
  ASSUME MemoryInv, NEW p \in Workers, Memory!FailTurn(p)
  PROVE  MemoryInv' /\ StaysForgotten
BY RecordStep, SameRecorded, Unforgotten DEF Memory!FailTurn, MemoryInv

LEMMA EditStep ==
  ASSUME MemoryConstants, MemoryInv, NEW p \in Workers, NEW i \in Memory!Ids, NEW w \in Words, Memory!EditByUser(p, i,
          w)
  PROVE  MemoryInv' /\ NotByMistake
<1> DEFINE r == Memory!Record(w, memories[i].scope, Memory!User)
<1>1. /\ memories' = [memories EXCEPT ![i] = r] /\ UNCHANGED <<worker, turns>>
      /\ Memory!Saying(memories, memories[i].scope, w) \subseteq {i}
  BY DEF Memory!EditByUser
<1>2. memories \in Stores /\ Once(memories) /\ memories[i].scope \in Memory!Scopes /\ Memory!User \in Nat
  BY DEF MemoryInv, Stores, Records, Memory!User, MemoryConstants
<1>3. r \in Records /\ r.status = "active" /\ r.words = w /\ r.scope = memories[i].scope
  BY <1>2, RecordTyped
<1> HIDE DEF r
<1>4. memories' \in Stores /\ \A j \in Memory!Ids : memories'[j] = IF j = i THEN r ELSE memories[j]
  BY <1>1, <1>2, <1>3 DEF Stores
<1>5. \A j \in Memory!Ids \ {i} : memories[j].status = "none" \/ memories[j].scope # r.scope \/ memories[j].words # w
  BY <1>1, <1>2, <1>3, SayingOf
<1>6. Once(memories')
  BY <1>2, <1>3, <1>4, <1>5 DEF Once
<1>7. NotByMistake
  BY <1>4 DEF NotByMistake
<1>8. Recorded(memories, memories')
  BY <1>3, <1>4 DEF Recorded
<1>9. QED
  BY <1>1, <1>4, <1>6, <1>7, <1>8, RecordStep DEF MemoryInv

\* Another status for a record that says something.
LEMMA RestatusTyped ==
  ASSUME NEW m \in Stores, Once(m), NEW i \in Memory!Ids, m[i].status # "none",
         NEW status \in {"active", "unsure", "expired", "superseded", "forgotten"},
         NEW new, new = [m EXCEPT ![i].status = status]
  PROVE  new \in Stores /\ Once(new) /\ Recorded(m, new)
<1> DEFINE r == [m[i] EXCEPT !.status = status]
<1>1. r \in Records /\ r.status = status /\ r.words = m[i].words /\ r.scope = m[i].scope
  BY DEF Stores, Records
<1>2. new = [m EXCEPT ![i] = r]
  BY DEF Stores
<1> HIDE DEF r
<1>3. new \in Stores /\ \A j \in Memory!Ids : new[j] = IF j = i THEN r ELSE m[j]
  BY <1>1, <1>2 DEF Stores
<1>4. Once(new) /\ Recorded(m, new)
  BY <1>1, <1>3 DEF Once, Recorded
<1>5. QED
  BY <1>3, <1>4

LEMMA ForgetStep ==
  ASSUME MemoryInv, NEW p \in Workers, NEW i \in Memory!Ids, Memory!ForgetByUser(p, i)
  PROVE  MemoryInv' /\ StaysForgotten
<1>1. /\ memories' = [memories EXCEPT ![i].status = "forgotten"] /\ UNCHANGED <<worker, turns>>
      /\ memories[i].status # "none"
  BY DEF Memory!ForgetByUser
<1>2. memories \in Stores /\ Once(memories) /\ turns \in Nat
  BY DEF MemoryInv
<1>3. memories' \in Stores /\ Once(memories') /\ Recorded(memories, memories')
  BY <1>1, <1>2, RestatusTyped
<1>4. memories'[i].status = "forgotten" /\ \A j \in Memory!Ids \ {i} : memories'[j] = memories[j]
  BY <1>1, <1>2 DEF Stores, Records
<1>5. QED
  BY <1>1, <1>2, <1>3, <1>4, RecordStep DEF StaysForgotten

LEMMA ReadDueStep ==
  ASSUME MemoryInv, NEW p \in Workers, NEW i \in Memory!Ids, Memory!ReadDue(p, i)
  PROVE  MemoryInv' /\ StaysForgotten
<1> DEFINE w == [worker[p] EXCEPT !.at = "expire", !.job = i]
<1>1. worker[p] \in Maintenances /\ i \in Nat
  BY DEF MemoryInv, Memory!Ids
<1>2. w \in Maintenances /\ w.at = "expire"
  BY <1>1 DEF Maintenances
<1>3. worker' = [worker EXCEPT ![p] = w] /\ UNCHANGED <<memories, turns>>
  BY DEF Memory!ReadDue, MemoryInv
<1> HIDE DEF w
<1>4. AtWork(w)
  BY <1>2 DEF AtWork
<1>5. w.job = i
  BY <1>1 DEF w, Maintenances
<1>6. DueIsRecorded(w)
  BY <1>5 DEF DueIsRecorded, Memory!ReadDue, Memory!Here
<1>7. QED
  BY <1>3, <1>4, <1>6, WorkerStep, SameRecorded, Unforgotten DEF MemoryInv

LEMMA RestStep ==
  ASSUME MemoryInv, NEW p \in Workers, worker' = [worker EXCEPT ![p] = Memory!Resting], UNCHANGED <<memories, turns>>
  PROVE  MemoryInv' /\ StaysForgotten
BY RestingWorks, WorkerStep, SameRecorded, Unforgotten DEF MemoryInv, DueIsRecorded

LEMMA WriteDueStep ==
  ASSUME MemoryInv, NEW p \in Workers, Memory!WriteDue(p)
  PROVE  MemoryInv'
<1> DEFINE i == worker[p].job
<1>1. worker[p].at = "expire" /\ worker' = [worker EXCEPT ![p] = Memory!Resting] /\ turns' = turns
      /\ memories' = [memories EXCEPT ![i].status = "expired"]
  BY DEF Memory!WriteDue, Memory!Stop
<1>2. i \in Memory!Ids /\ memories[i].status # "none" /\ memories \in Stores /\ Once(memories) /\ turns \in Nat
  BY <1>1 DEF MemoryInv, DueIsRecorded
<1>3. memories' \in Stores /\ Once(memories') /\ Recorded(memories, memories')
  BY <1>1, <1>2, RestatusTyped
<1>4. QED
  BY <1>1, <1>2, <1>3, RestingWorks, WorkerStep DEF DueIsRecorded

LEMMA FirstTyped ==
  ASSUME NEW S, S \subseteq Nat, S # {}
  PROVE  Memory!First(S) \in Nat
<1>1. PICK x \in S : \A y \in S : x <= y
  BY LeastOfSome
<1>2. QED
  BY <1>1 DEF Memory!First

LEMMA TickStep ==
  ASSUME MemoryConstants, MemoryInv, NEW p \in Workers, Memory!Tick(p)
  PROVE  MemoryInv' /\ StaysForgotten
<1>1. UNCHANGED <<memories, turns>> /\ worker[p] \in Maintenances
  BY DEF Memory!Tick, MemoryInv
<1>2. CASE UNCHANGED worker
  BY <1>1, <1>2, RecordStep, SameRecorded, Unforgotten DEF MemoryInv
<1>3. CASE \E S : Memory!Queued(S) # {} /\
            worker' = [worker EXCEPT ![p].at = "claim", ![p].job = Memory!First(Memory!Queued(S))]
  <2>1. PICK S : Memory!Queued(S) # {} /\ worker' = [worker EXCEPT ![p].at = "claim", ![p].job
            = Memory!First(Memory!Queued(S))]
    BY <1>3
  <2>2. Memory!First(Memory!Queued(S)) \in Nat
    <3>1. Memory!Queued(S) \subseteq Nat
      BY DEF Memory!Queued, MemoryConstants
    <3>2. QED
      BY <2>1, <3>1, FirstTyped
  <2> DEFINE w == [worker[p] EXCEPT !.at = "claim", !.job = Memory!First(Memory!Queued(S))]
  <2>3. w \in Maintenances /\ w.at = "claim"
    BY <1>1, <2>2 DEF Maintenances
  <2>4. worker' = [worker EXCEPT ![p] = w]
    BY <2>1 DEF MemoryInv
  <2> HIDE DEF w
  <2>5. AtWork(w) /\ DueIsRecorded(w)
    BY <2>3 DEF AtWork, DueIsRecorded
  <2>6. QED
    BY <1>1, <2>4, <2>5, WorkerStep, SameRecorded, Unforgotten DEF MemoryInv
<1>4. QED
  BY <1>2, <1>3 DEF Memory!Tick

LEMMA ClaimStep ==
  ASSUME MemoryInv, NEW p \in Workers, Memory!Claim(p)
  PROVE  MemoryInv' /\ StaysForgotten
<1>1. UNCHANGED <<memories, turns>> /\ worker[p] \in Maintenances
  BY DEF Memory!Claim, MemoryInv
<1> DEFINE match == [i \in Memory!Candidates(worker[p].job) |-> 0]
           w == [worker[p] EXCEPT !.at = "search", !.match = match]
<1>2. CASE Memory!Stop(p)
  BY <1>1, <1>2, RestStep DEF Memory!Stop
<1>3. CASE worker' = [worker EXCEPT ![p].at = "search", ![p].match = match]
  <2>1. match \in Matchings
    <3>1. Memory!Candidates(worker[p].job) \in SUBSET Memory!Ids
              /\ match \in [Memory!Candidates(worker[p].job) -> Memory!Ids \cup {0}]
      BY DEF Memory!Candidates
    <3>2. QED
      BY <3>1 DEF Matchings
  <2> HIDE DEF match
  <2>2. w \in Maintenances /\ w.at = "search" /\ w.match = match
    BY <1>1, <2>1 DEF Maintenances
  <2>3. worker' = [worker EXCEPT ![p] = w]
    BY <1>3 DEF MemoryInv
  <2> HIDE DEF w
  <2>4. AtWork(w) /\ DueIsRecorded(w)
    BY <2>1, <2>2 DEF AtWork, DueIsRecorded
  <2>5. QED
    BY <1>1, <2>3, <2>4, WorkerStep, SameRecorded, Unforgotten DEF MemoryInv
<1>4. QED
  BY <1>2, <1>3 DEF Memory!Claim

LEMMA SearchStep ==
  ASSUME MemoryInv, NEW p \in Workers, Memory!Search(p)
  PROVE  MemoryInv' /\ StaysForgotten
<1>1. UNCHANGED <<memories, turns>> /\ worker[p] \in Maintenances /\ worker[p].match \in Matchings
  BY DEF Memory!Search, MemoryInv, AtWork
<1>2. PICK f \in [DOMAIN worker[p].match -> Memory!Ids \cup {0}] :
        /\ \A i \in DOMAIN f : f[i] \in Memory!Matches(i)
        /\ Memory!Stop(p) \/ worker' = [worker EXCEPT ![p].at = "ask", ![p].match = f]
  BY DEF Memory!Search
<1>3. CASE Memory!Stop(p)
  BY <1>1, <1>3, RestStep DEF Memory!Stop
<1>4. CASE worker' = [worker EXCEPT ![p].at = "ask", ![p].match = f]
  <2> DEFINE w == [worker[p] EXCEPT !.at = "ask", !.match = f]
  <2>1. f \in Matchings
    BY <1>1 DEF Matchings
  <2>2. Distinct(f)
    <3>1. \A i \in DOMAIN f : i \in Memory!Ids /\ i # 0
      BY <2>1 DEF Matchings, Memory!Ids
    <3>2. QED
      BY <1>2, <3>1 DEF Distinct, Memory!Matches
  <2>3. w \in Maintenances /\ w.at = "ask" /\ w.match = f
    BY <1>1, <2>1 DEF Maintenances
  <2>4. worker' = [worker EXCEPT ![p] = w]
    BY <1>4 DEF MemoryInv
  <2> HIDE DEF w
  <2>5. AtWork(w) /\ DueIsRecorded(w)
    BY <2>1, <2>2, <2>3 DEF AtWork, DueIsRecorded
  <2>6. QED
    BY <1>1, <2>4, <2>5, WorkerStep, SameRecorded, Unforgotten DEF MemoryInv
<1>5. QED
  BY <1>2, <1>3, <1>4

LEMMA AnswerStep ==
  ASSUME MemoryConstants, MemoryInv, NEW p \in Workers, Memory!Answer(p)
  PROVE  MemoryInv' /\ StaysForgotten
<1> DEFINE match == worker[p].match
<1>1. /\ UNCHANGED <<memories, turns>> /\ worker[p] \in Maintenances /\ match \in Matchings /\ Distinct(match)
      /\ memories \in Stores
  BY DEF Memory!Answer, MemoryInv, AtWork
<1>2. PICK s \in Memory!Decisions(match) : worker' = [worker EXCEPT ![p].at = "commit", ![p].plan = Memory!Planned(s)]
  BY DEF Memory!Answer
<1> DEFINE w == [worker[p] EXCEPT !.at = "commit", !.plan = Memory!Planned(s)]
<1>3. PlanOK(match, Memory!Planned(s))
  BY <1>1, DecisionsTyped, PlannedOK
<1>4. Memory!Planned(s) \in Seq(Mutations)
  BY <1>3 DEF PlanOK
<1>5. w \in Maintenances /\ w.at = "commit" /\ w.plan = Memory!Planned(s) /\ w.match = match
  BY <1>1, <1>4 DEF Maintenances
<1>6. worker' = [worker EXCEPT ![p] = w]
  BY <1>2 DEF MemoryInv
<1> HIDE DEF w
<1>7. AtWork(w) /\ DueIsRecorded(w)
  BY <1>1, <1>3, <1>5 DEF AtWork, DueIsRecorded
<1>8. QED
  BY <1>1, <1>6, <1>7, WorkerStep, SameRecorded, Unforgotten DEF MemoryInv

LEMMA CommitStep ==
  ASSUME MemoryConstants, MemoryInv, NEW p \in Workers, Memory!Commit(p)
  PROVE  MemoryInv' /\ StaysForgotten
<1> DEFINE plan == worker[p].plan
           t == worker[p].job
<1>1. /\ worker' = [worker EXCEPT ![p] = Memory!Resting] /\ turns' = turns
      /\ memories' = Memory!EachApplied(memories, plan, t) \/ UNCHANGED memories
  BY DEF Memory!Commit, Memory!Stop
<1>2. /\ plan \in Seq(Mutations) /\ \A n \in DOMAIN plan : ~plan[n].stated
      /\ memories \in Stores /\ Once(memories) /\ t \in Nat /\ turns \in Nat
  BY DEF Memory!Commit, MemoryInv, AtWork, PlanOK, Maintenances
<1>3. CASE UNCHANGED memories
  BY <1>1, <1>3, RestStep
<1>4. CASE memories' = Memory!EachApplied(memories, plan, t)
  <2>1. /\ memories' \in Stores /\ Once(memories') /\ Recorded(memories, memories')
        /\ \A i \in Memory!Ids : memories[i].status = "forgotten" => memories'[i].status = "forgotten"
    BY <1>2, <1>4, BatchKeeps
  <2>2. QED
    BY <1>1, <1>2, <2>1, RestingWorks, WorkerStep DEF StaysForgotten, DueIsRecorded
<1>5. QED
  BY <1>1, <1>3, <1>4

LEMMA NextMemory ==
  ASSUME MemoryConstants, MemoryInv, [Memory!Next]_(Memory!vars)
  PROVE  MemoryInv' /\ NotByMistake
<1>1. ASSUME NEW p \in Workers, Memory!BeginTurn(p) \/ Memory!FailTurn(p) \/ Memory!Tick(p) \/ Memory!Claim(p)
          \/ Memory!Search(p) \/ Memory!Answer(p)
                                  \/ Memory!Commit(p) \/ Memory!Fail(p) \/ Memory!Crash(p)
      PROVE  MemoryInv' /\ StaysForgotten
  <2>1. CASE Memory!Fail(p) \/ Memory!Crash(p)
    BY <2>1, RestStep DEF Memory!Fail, Memory!Crash, Memory!Stop
  <2>2. QED
    BY <1>1, <2>1, BeginTurnStep, FailTurnStep, TickStep, ClaimStep, SearchStep, AnswerStep, CommitStep
<1>2. ASSUME NEW p \in Workers, NEW i \in Memory!Ids, Memory!ForgetByUser(p, i) \/ Memory!ReadDue(p, i)
      PROVE  MemoryInv' /\ StaysForgotten
  BY <1>2, ForgetStep, ReadDueStep
<1>3. StaysForgotten => NotByMistake
  BY DEF StaysForgotten, NotByMistake
<1>4. ASSUME NEW p \in Workers, NEW b \in Batches, Memory!EndTurn(p, b)
      PROVE  MemoryInv' /\ NotByMistake
  BY <1>4, EndTurnStep
<1>5. ASSUME NEW p \in Workers, NEW i \in Memory!Ids, NEW w \in Words, Memory!EditByUser(p, i, w)
      PROVE  MemoryInv' /\ NotByMistake
  BY <1>5, EditStep
<1>6. ASSUME NEW p \in Workers, Memory!WriteDue(p)
      PROVE  MemoryInv' /\ NotByMistake
  BY <1>6, WriteDueStep DEF NotByMistake
<1>7. ASSUME NEW t, Memory!GrowOld(t)
      PROVE  MemoryInv' /\ StaysForgotten
  BY <1>7, RecordStep, SameRecorded, Unforgotten DEF Memory!GrowOld, MemoryInv
<1>8. CASE UNCHANGED Memory!vars
  BY <1>3, <1>8, RecordStep, SameRecorded, Unforgotten DEF MemoryInv, Memory!vars
<1> QED
  BY <1>1, <1>2, <1>3, <1>4, <1>5, <1>6, <1>7, <1>8 DEF Memory!Next

-----------------------------------------------------------------------------
(* What a consolidation leaves *)

\* A nonempty set of numbers up to a bound has a greatest one.
LEMMA GreatestOfSome ==
  ASSUME NEW L \in Nat, NEW S, S \subseteq 0 .. L, S # {}
  PROVE  \E x \in S : \A y \in S : y <= x
<1> DEFINE T == {n \in 0 .. L : L - n \in S}
<1>1. T \subseteq Nat /\ T # {}
  <2>1. PICK x \in S : TRUE
    OBVIOUS
  <2>2. x \in 0 .. L /\ L - x \in 0 .. L /\ L - (L - x) = x
    OBVIOUS
  <2>3. L - x \in T
    BY <2>1, <2>2
  <2>4. T \subseteq Nat
    OBVIOUS
  <2> HIDE DEF T
  <2>5. QED
    BY <2>3, <2>4
<1>2. PICK n \in T : \A k \in T : n <= k
  <2> HIDE DEF T
  <2>1. QED
    BY <1>1, LeastOfSome
<1>3. \A y \in S : y <= L - n
  <2> SUFFICES ASSUME NEW y \in S PROVE y <= L - n
    OBVIOUS
  <2>1. y \in 0 .. L /\ L - y \in 0 .. L /\ L - (L - y) = y
    OBVIOUS
  <2>2. L - y \in T
    BY <2>1
  <2>3. QED
    BY <1>2, <2>1, <2>2
<1>4. QED
  BY <1>2, <1>3

\* A record stays alive from one place of a batch to its end if nothing after the place has it expire.
LEMMA StaysAlive ==
  ASSUME MemoryConstants, NEW m \in Stores, NEW plan \in Seq(Mutations), NEW source \in Nat,
         Memory!AllAccepted(m, plan, source), \A n \in DOMAIN plan : plan[n].act # "remember",
         NEW from \in 0 .. Len(plan), NEW i \in Memory!Ids, Memory!Applying(m, plan, source)[from][i].status \in Alive,
         \A n \in from + 1 .. Len(plan) : ~(plan[n].act = "forget" /\ plan[n].id = i)
  PROVE  Memory!EachApplied(m, plan, source)[i].status \in Alive
<1> DEFINE L == Len(plan)
           after == Memory!Applying(m, plan, source)
           T == {n \in 0 .. L : n >= from => after[n][i].status \in Alive}
<1>1. /\ after \in [0 .. L -> Stores] /\ after[0] = m
      /\ \A n \in 1 .. L : after[n] = Step(after[n - 1], plan[n], source)
  BY ApplyingIs
<1>2. L \in Nat /\ DOMAIN plan = 1 .. L /\ \A n \in 1 .. L : plan[n] \in Mutations
  OBVIOUS
<1>3. \A n \in 1 .. L : Memory!Accepts(after[n - 1], plan[n])
  BY <1>2 DEF Memory!AllAccepted
<1>4. after[from][i].status \in Alive
  OBVIOUS
<1> HIDE DEF after
<1>5. 0 \in T
  BY <1>2, <1>4
<1>6. ASSUME NEW n \in 1 .. L, n - 1 \in T
      PROVE  n \in T
  <2>1. CASE n < from
    BY <1>2, <2>1
  <2>2. CASE n = from
    BY <1>2, <1>4, <2>2
  <2>3. CASE n > from
    <3>1. after[n - 1][i].status \in Alive /\ after[n - 1] \in Stores /\ plan[n] \in Mutations
      BY <1>1, <1>2, <1>6, <2>3
    <3>2. ~(plan[n].act = "forget" /\ plan[n].id = i)
      BY <1>2, <2>3
    <3>3. after[n] = Memory!Applied(after[n - 1], plan[n], source)
      BY <1>1, <1>3 DEF Step
    <3>4. Spares(after[n - 1], plan[n], after[n])
      BY <1>2, <1>3, <3>1, <3>3, MutationKeeps
    <3>5. QED
      BY <1>2, <3>1, <3>2, <3>4 DEF Spares
  <2>4. QED
    BY <1>2, <2>1, <2>2, <2>3
<1> HIDE DEF T
<1>7. L \in T
  <2>1. \A n \in 0 .. L : n \in T
    BY <1>2, <1>5, <1>6, Upwards
  <2>2. QED
    BY <1>2, <2>1
<1>8. Memory!EachApplied(m, plan, source) = after[L]
  BY DEF Memory!EachApplied, after
<1>9. QED
  BY <1>2, <1>7, <1>8 DEF T

\* After a record has been revised it is alive.
LEMMA RevisedIsAlive ==
  ASSUME MemoryConstants, NEW m \in Stores, NEW x \in Mutations, NEW source \in Nat,
         x.act = "revise", Memory!Accepts(m, x)
  PROVE  x.id \in Memory!Ids /\ Memory!Applied(m, x, source)[x.id].status \in Alive
<1>1. x.id \in Memory!Ids /\ m[x.id].status \in Alive
  BY DEF Memory!Accepts, Memory!MayChange, Memory!MayRevise, Memory!Here, Alive
<1>2. Spares(m, x, Memory!Applied(m, x, source))
  BY MutationKeeps
<1>3. QED
  BY <1>1, <1>2 DEF Spares

Stood(i, new) == Memory!Here(new, i) \/ (new[i].status = "superseded" /\ Memory!Here(memories, i))
Followed(match, S) == \A i \in S \cap DOMAIN match : match[i] \in S \cup {0}
Chain(match, c) == {i \in Memory!Ids : \A S \in SUBSET Memory!Ids : c \in S /\ Followed(match, S) => i \in S}

\* Of the candidates that expire, the one last to expire repeats a record that stands.
LEMMA NoneIsLost ==
  ASSUME MemoryConstants, memories \in Stores, NEW match \in Matchings, Distinct(match), NEW plan, PlanOK(match, plan),
         NEW source \in Nat, Memory!AllAccepted(memories, plan, source),
         NEW new, new = Memory!EachApplied(memories, plan, source),
         NEW c0 \in DOMAIN match, Memory!Here(memories, c0), ~Stood(c0, new)
  PROVE  \E i \in Chain(match, c0) : Stood(i, new) \/ ~Memory!Here(memories, i)
<1> DEFINE L == Len(plan)
           Expires(n, i) == plan[n].act = "forget" /\ plan[n].id = i
           Lost(c) == /\ Memory!Here(memories, c) /\ ~Stood(c, new)
                      /\ \A i \in Chain(match, c) : ~Stood(i, new) /\ Memory!Here(memories, i)
           B == {n \in 1 .. L : plan[n].act = "forget" /\ Lost(plan[n].id)}
<1>1. /\ plan \in Seq(Mutations) /\ L \in Nat /\ DOMAIN plan = 1 .. L
      /\ \A n \in DOMAIN plan : plan[n] \in Mutations /\ plan[n].act # "remember"
  BY DEF PlanOK
<1>2. new \in Stores
  BY <1>1, BatchKeeps
<1>3. ASSUME NEW i \in Memory!Ids, Memory!Here(memories, i), ~Stood(i, new)
      PROVE  \E n \in 1 .. L : Expires(n, i)
  <2> SUFFICES ASSUME \A n \in 1 .. L : ~Expires(n, i) PROVE FALSE
    OBVIOUS
  <2>1. Memory!Applying(memories, plan, source)[0] = memories
    BY <1>1, ApplyingIs
  <2>2. Memory!Applying(memories, plan, source)[0][i].status \in Alive /\ 0 \in 0 .. L
    BY <1>1, <1>3, <2>1 DEF Memory!Here, Alive
  <2>3. new[i].status \in Alive
    BY <1>1, <2>2, StaysAlive
  <2>4. QED
    BY <1>3, <2>3 DEF Stood, Memory!Here, Alive
<1>4. SUFFICES ASSUME Lost(c0) PROVE FALSE
  OBVIOUS
<1>5. DOMAIN match \subseteq Memory!Ids /\ \A i \in DOMAIN match : match[i] \in Memory!Ids \cup {0} /\ match[i] # i
  BY DEF Matchings, Distinct
<1>6. B # {}
  <2>1. c0 \in Memory!Ids
    BY <1>5
  <2>2. PICK n \in 1 .. L : Expires(n, c0)
    BY <1>3, <2>1
  <2>3. QED
    BY <1>4, <2>2
<1>7. PICK n \in B : \A k \in B : k <= n
  <2>1. B \subseteq 0 .. L
    BY <1>1
  <2> HIDE DEF B
  <2>2. QED
    BY <1>1, <1>6, <2>1, GreatestOfSome
<1> DEFINE c == plan[n].id
           m == match[c]
<1>8. n \in 1 .. L /\ plan[n].act = "forget" /\ Lost(c)
  BY <1>7
<1>9. /\ c \in DOMAIN match /\ m \in Memory!Ids
      /\ \/ n > 1 /\ plan[n - 1].act = "revise" /\ plan[n - 1].id = m
         \/ \A k \in 1 .. n - 1 : plan[k].id \notin {c, m}
  BY <1>1, <1>8 DEF PlanOK, Reasoned
<1>10. c \in Memory!Ids /\ c # m /\ m # 0
  BY <1>5, <1>9 DEF Memory!Ids
<1>11. m \in Chain(match, c)
  BY <1>9, <1>10 DEF Chain, Followed
<1>12. Memory!Here(memories, m) /\ ~Stood(m, new)
  BY <1>8, <1>11
<1>13. \A k \in 1 .. L : Expires(k, m) => m \in DOMAIN match
  BY <1>1 DEF PlanOK, Reasoned
<1>14. Chain(match, m) \subseteq Chain(match, c)
  BY <1>9, <1>10 DEF Chain, Followed
<1>15. Lost(m)
  BY <1>8, <1>12, <1>14
<1>16. \A k \in 1 .. L : Expires(k, m) => k <= n /\ k # n
  BY <1>7, <1>8, <1>10, <1>15
<1>17. PICK k \in 1 .. L : Expires(k, m)
  BY <1>3, <1>9, <1>12
<1>18. k \in 1 .. n - 1 /\ plan[k].id = m
  BY <1>1, <1>8, <1>16, <1>17
<1>19. n > 1 /\ plan[n - 1].act = "revise" /\ plan[n - 1].id = m
  BY <1>9, <1>18
<1> DEFINE after == Memory!Applying(memories, plan, source)
<1>20. after[n - 1][m].status \in Alive
  <2>1. n - 1 \in 1 .. L /\ n - 2 \in 0 .. L /\ (n - 1) - 1 = n - 2
    BY <1>1, <1>8, <1>19
  <2>2. after \in [0 .. L -> Stores] /\ after[n - 1] = Step(after[(n - 1) - 1], plan[n - 1], source)
    BY <1>1, <2>1, ApplyingIs
  <2>3. Memory!Accepts(after[(n - 1) - 1], plan[n - 1])
    BY <1>1, <2>1 DEF Memory!AllAccepted
  <2> DEFINE s == after[(n - 1) - 1]
             x == plan[n - 1]
  <2>4. s \in Stores /\ x \in Mutations /\ x.act = "revise" /\ x.id = m
    BY <1>1, <1>19, <2>1, <2>2
  <2>5. after[n - 1] = Memory!Applied(s, x, source)
    BY <2>2, <2>3 DEF Step
  <2> HIDE DEF after, s, x
  <2>6. Memory!Applied(s, x, source)[x.id].status \in Alive
    BY <2>3, <2>4, RevisedIsAlive DEF s, x
  <2>7. QED
    BY <2>4, <2>5, <2>6
<1>21. \A j \in (n - 1) + 1 .. L : ~Expires(j, m)
  BY <1>1, <1>8, <1>16
<1>22. new[m].status \in Alive
  <2>1. n - 1 \in 0 .. L /\ m \in Memory!Ids
    BY <1>1, <1>8, <1>9
  <2>2. QED
    BY <1>1, <1>20, <1>21, <2>1, StaysAlive
<1>23. QED
  BY <1>12, <1>22 DEF Stood, Memory!Here, Alive

Consolidated == \A p \in Workers : Memory!Commit(p) =>
  LET match == worker[p].match
      Stands(i) == Memory!Here(memories', i) \/ (memories'[i].status = "superseded" /\ Memory!Here(memories, i))
      Closed(S) == \A i \in S \cap DOMAIN match : match[i] \in S \cup {0}
      Linked(c) == {i \in Memory!Ids : \A S \in SUBSET Memory!Ids : c \in S /\ Closed(S) => i \in S}
  IN  \A c \in DOMAIN match : (Memory!Here(memories, c) /\ ~Stands(c)) =>
        \E i \in Linked(c) : Stands(i) \/ ~Memory!Here(memories, i)

LEMMA CommitSurvives ==
  ASSUME MemoryConstants, MemoryInv
  PROVE  Consolidated
<1> SUFFICES ASSUME NEW p \in Workers, Memory!Commit(p), NEW c \in DOMAIN worker[p].match,
                    Memory!Here(memories, c), ~Stood(c, memories')
             PROVE  \E i \in Chain(worker[p].match, c) : Stood(i, memories') \/ ~Memory!Here(memories, i)
  BY DEF Consolidated, Stood, Chain, Followed
<1>1. /\ worker[p].match \in Matchings /\ Distinct(worker[p].match) /\ PlanOK(worker[p].match, worker[p].plan)
      /\ worker[p].job \in Nat /\ memories \in Stores
  BY DEF Memory!Commit, MemoryInv, AtWork, Maintenances
<1>2. CASE UNCHANGED memories
  BY <1>2 DEF Stood
<1>3. CASE /\ memories' = Memory!EachApplied(memories, worker[p].plan, worker[p].job)
           /\ Memory!AllAccepted(memories, worker[p].plan, worker[p].job)
  BY <1>1, <1>3, NoneIsLost
<1>4. QED
  BY <1>2, <1>3 DEF Memory!Commit

-----------------------------------------------------------------------------
(* The components side by side *)

LEMMA AttachmentsRun == SideBySide => Attachments!Spec
<1>1. Start => Attachments!Init
  BY DEF Start
<1>2. [Move]_all => [Attachments!Next]_(Attachments!vars)
  BY DEF Move, all, images, Attachments!vars, Attachments!disk
<1> QED
  BY <1>1, <1>2, PTL DEF SideBySide, Attachments!Spec

LEMMA MemoryRuns == SideBySide => Memory!Spec
<1>1. Start => Memory!Init
  BY DEF Start
<1>2. [Move]_all => [Memory!Next]_(Memory!vars)
  BY DEF Move, all, remembering, Memory!vars
<1> QED
  BY <1>1, <1>2, PTL DEF SideBySide, Memory!Spec

LEMMA MemoryBatches == MemoryConstants
BY MemoryAssumption DEF MemoryConstants, Mutations, Acts, Memory!Scopes

LEMMA ImagesNames == ImagesConstants
BY ImagesAssumption DEF ImagesConstants

\* The inductive invariant: staged images are their process's, and collections
\* spare them (ImageStore, runGarbageCollection).
THEOREM ImageInvariant == Attachments!Spec => []ImageInv
<1>1. Attachments!Init => ImageInv BY InitInv, ImagesNames
<1>2. ImageInv /\ [Attachments!Next]_(Attachments!vars) => ImageInv' BY NextPreserves, ImagesNames
<1> QED BY <1>1, <1>2, PTL DEF Attachments!Spec

\* Every variable of the image store has its type.
THEOREM ImageStoreTypeCorrect == Attachments!Spec => []Attachments!TypeOK
<1>1. ImageInv => Attachments!TypeOK BY DEF ImageInv
<1> QED BY <1>1, ImageInvariant, PTL

\* Whatever processes collect, crash or take the lock meanwhile, the file of an
\* image attached to a message not sent yet is there (importBuffer, remove,
\* runGarbageCollection), for any number of images and processes.
THEOREM StagedImagesAreKept == SideBySide => []StagedIsKept
<1>1. ImageInv => StagedIsKept BY DEF ImageInv, DraftInv, Attachments!StagedIsKept, StagedIsKept
<1> QED BY <1>1, ImageInvariant, AttachmentsRun, PTL

\* The inductive invariant: no two records say the same words in a scope, and what a consolidation will commit keeps
\* one of those that repeat each other (MemoryManager, processNext).
THEOREM MemoryInvariant == Memory!Spec => []MemoryInv
<1>1. Memory!Init => MemoryInv
  BY InitMemory, MemoryBatches
<1>2. MemoryInv /\ [Memory!Next]_(Memory!vars) => MemoryInv'
  BY NextMemory, MemoryBatches
<1> QED
  BY <1>1, <1>2, PTL DEF Memory!Spec

\* No two records say the same words in a scope, whatever turns, the user, consolidations and expiry do
\* (rememberMemory, reviseMemory, changeMemory, editByUser): the words of a deleted record are its own.
THEOREM WordsAreSaidOnce == SideBySide => []Once(memories)
<1>1. MemoryInv => Once(memories)
  BY DEF MemoryInv
<1> QED
  BY <1>1, MemoryInvariant, MemoryRuns, PTL

\* What the user deleted stays deleted, for every number of records, turns and processes and all that write_memory
\* may stage, unless the user edits it or states it, or a sweep of old records had read it (changeMemory,
\* rememberMemory, reviseMemory).
THEOREM DeletionsHold == SideBySide => DeletionHolds
<1>1. MemoryInv /\ [Memory!Next]_(Memory!vars) => MemoryInv' /\ NotByMistake
  BY NextMemory, MemoryBatches
<1>2. NotByMistake =>
        [\A i \in Memory!Ids : memories[i].status = "forgotten" =>
           \/ memories'[i].status = "forgotten"
           \/ \E p \in Workers : Memory!WriteDue(p) \/ \E w \in Words : Memory!EditByUser(p, i, w)
           \/ \E p \in Workers, b \in Batches : Memory!EndTurn(p, b) /\ \E n \in DOMAIN b : b[n].stated]_(Memory!vars)
  BY DEF NotByMistake
<1>3. Memory!Init => MemoryInv
  BY InitMemory, MemoryBatches
<1> QED
  BY <1>1, <1>2, <1>3, MemoryRuns, PTL DEF Memory!Spec, DeletionHolds, Memory!DeletionHolds

\* A consolidation leaves every statement in force, for every number of candidates and decisions in any order: of
\* those that expire together, the last repeats a record that stands (processNext).
THEOREM StatementsAreKept == SideBySide => StatementsSurvive
<1>1. MemoryInv => Consolidated
  BY CommitSurvives, MemoryBatches
<1>2. Consolidated =>
  [\A p \in Workers : Memory!Commit(p) =>
     LET match == worker[p].match
         Stands(i) == Memory!Here(memories', i) \/ (memories'[i].status = "superseded" /\ Memory!Here(memories, i))
         Closed(S) == \A i \in S \cap DOMAIN match : match[i] \in S \cup {0}
         Linked(c) == {i \in Memory!Ids : \A S \in SUBSET Memory!Ids : c \in S /\ Closed(S) => i \in S}
     IN  \A c \in DOMAIN match : (Memory!Here(memories, c) /\ ~Stands(c)) =>
           \E i \in Linked(c) : Stands(i) \/ ~Memory!Here(memories, i)]_(Memory!vars)
  BY DEF Consolidated
<1>3. Memory!Spec => [][Consolidated]_(Memory!vars)
  <2>1. MemoryInv /\ [Memory!Next]_(Memory!vars) => [Consolidated]_(Memory!vars)
    BY <1>1
  <2> QED
    BY <2>1, MemoryInvariant, PTL DEF Memory!Spec
<1> QED
  BY <1>2, <1>3, MemoryRuns, PTL DEF StatementsSurvive, Memory!StatementsSurvive
=============================================================================
