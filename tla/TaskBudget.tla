----------------------------- MODULE TaskBudget -----------------------------
(***************************************************************************)
(* The model requests and tokens one user turn may use, shared by the main *)
(* agent and its children (TaskBudget), under the retry loop every request *)
(* goes through (completeWithApiRetries). The budget lives in the memory   *)
(* of the process that has the thread open; every change is written to the *)
(* thread's journal, from which a process that has none for the thread     *)
(* restores it (sharedTaskBudget). A process keeps its budget when it      *)
(* leaves the thread.                                                      *)
(***************************************************************************)
EXTENDS Integers

CONSTANTS
  Processes,          \* the processes that may open the thread
  Children,           \* child agents
  MaxRequests,        \* maxModelRequests, 0 for no limit
  MaxTokens,          \* maxTaskTokens, 0 for no limit
  Sizes,              \* what a request may be estimated at
  MaxApiRetries,      \* maxProviderRetries
  MaxCapacityRetries, \* contextMaxCapacityRetries
  MaxOpens,           \* bound: times the thread is opened
  MaxFaults,          \* bound: failed writes and crashes
  None                \* no process, no budget

ASSUME BudgetAssumption ==
  /\ None \notin Processes
  /\ None \notin [requests : Nat, tokens : Int, reserved : Int]
  /\ "main" \notin Children
  /\ Sizes \subseteq Nat
  /\ MaxRequests \in Nat /\ MaxTokens \in Nat
  /\ MaxApiRetries \in Nat /\ MaxCapacityRetries \in Nat
  /\ MaxOpens \in Nat /\ MaxFaults \in Nat

VARIABLES
  holder,           \* the process that has the thread open
  budget,           \* memory of each process: its budget for the thread
  saved,            \* journal: the last runtime.task_budget event
  main,             \* the main agent runs a turn
  child,            \* each child: "none", "running" or "paused"
  call,             \* each agent's request in progress
  dispatched,       \* requests sent to the provider on this turn's budget
  billed,           \* tokens they were estimated at, or less where they used less
  overrun,          \* tokens they used beyond their estimates
  opens, faults

ghosts == <<dispatched, billed, overrun>>
vars == <<holder, budget, saved, main, child, call, ghosts, opens, faults>>

Agents == {"main"} \cup Children
Budgets == [requests : Nat, tokens : Nat, reserved : Nat]
NewBudget == [requests |-> 0, tokens |-> 0, reserved |-> 0]
NoCall == [at |-> "idle", size |-> 0, api |-> 0, capacity |-> 0]
Active(a) == IF a = "main" THEN main ELSE child[a] = "running"
Mine == budget[holder]

TypeOK ==
  /\ holder \in Processes \cup {None}
  /\ budget \in [Processes -> Budgets \cup {None}]
  /\ saved \in Budgets \cup {None}
  /\ main \in BOOLEAN
  /\ child \in [Children -> {"none", "running", "paused"}]
  /\ call \in [Agents -> [at : {"idle", "attempt", "sent"}, size : Nat, api : Nat, capacity : Nat]]
  /\ dispatched \in Nat /\ billed \in Int /\ overrun \in Nat
  /\ opens \in Nat /\ faults \in Nat

Init ==
  /\ holder = None
  /\ budget = [p \in Processes |-> None]
  /\ saved = None
  /\ main = FALSE
  /\ child = [c \in Children |-> "none"]
  /\ call = [a \in Agents |-> NoCall]
  /\ dispatched = 0 /\ billed = 0 /\ overrun = 0
  /\ opens = 0 /\ faults = 0

-----------------------------------------------------------------------------
(* The budget *)

\* Mutant: The reservations of requests in flight at the crash are forgotten.
RestoredFree(b) == [b EXCEPT !.reserved = 0]

\* A request in flight at the crash may have used all it had reserved.
Restored(b) == [requests |-> b.requests, tokens |-> b.tokens + b.reserved, reserved |-> 0]

\* sharedTaskBudget: the budget in memory, else the journal's, else a new one.
Shared(p) ==
  IF budget[p] # None THEN budget[p]
  ELSE IF saved # None THEN Restored(saved)
  ELSE NewBudget

\* The budget of a process changes and the change is written to the journal.
Write(p, b) == budget' = [budget EXCEPT ![p] = b] /\ saved' = b

\* The change is kept in memory, the write fails.
WriteFails(p, b) ==
  /\ faults < MaxFaults /\ faults' = faults + 1
  /\ budget' = [budget EXCEPT ![p] = b]
  /\ UNCHANGED saved

\* Mutant of Fits: what is reserved for requests in flight is not counted.
FitsSpent(b, size) ==
  /\ MaxRequests = 0 \/ b.requests < MaxRequests
  /\ MaxTokens = 0 \/ b.tokens + size <= MaxTokens

Fits(b, size) ==
  /\ MaxRequests = 0 \/ b.requests < MaxRequests
  /\ MaxTokens = 0 \/ b.tokens + b.reserved + size <= MaxTokens

Debited(b, size) == [b EXCEPT !.requests = @ + 1, !.reserved = @ + size]

\* The callback of reserve: the reported usage, or the whole reservation.
Settled(b, size, used) == [b EXCEPT !.reserved = @ - size, !.tokens = @ + (IF used = -1 THEN size ELSE used)]

-----------------------------------------------------------------------------
(* The thread and its agents *)

\* The lease is acquired; paused children are restored and share the budget.
Open(p) ==
  /\ holder = None /\ opens < MaxOpens
  /\ holder' = p /\ opens' = opens + 1
  /\ child' = [c \in Children |-> IF child[c] = "paused" THEN "running" ELSE child[c]]
  /\ IF \E c \in Children : child[c] = "paused"
     THEN IF budget[p] = None THEN Write(p, Shared(p)) ELSE UNCHANGED <<budget, saved>>
     ELSE UNCHANGED <<budget, saved>>
  /\ UNCHANGED <<main, call, ghosts, faults>>

\* createRuntime: a turn gets a budget of its own unless a child still works
\* on the one before.
Prompt ==
  /\ holder # None /\ ~main
  /\ main' = TRUE
  /\ IF \E c \in Children : child[c] = "running"
     THEN /\ IF Mine = None THEN Write(holder, Shared(holder)) ELSE UNCHANGED <<budget, saved>>
          /\ UNCHANGED ghosts
     ELSE /\ Write(holder, NewBudget)
          /\ dispatched' = 0 /\ billed' = 0 /\ overrun' = 0
  /\ UNCHANGED <<holder, child, call, opens, faults>>

\* The main agent starts a child, which works on the turn's budget.
Spawn(c) ==
  /\ main /\ call["main"].at = "idle" /\ child[c] = "none"
  /\ child' = [child EXCEPT ![c] = "running"]
  /\ UNCHANGED <<holder, budget, saved, main, call, ghosts, opens, faults>>

End(a) ==
  /\ Active(a) /\ call[a].at = "idle"
  /\ IF a = "main"
     THEN main' = FALSE /\ UNCHANGED child
     ELSE child' = [child EXCEPT ![a] = "none"] /\ UNCHANGED main
  /\ UNCHANGED <<holder, budget, saved, call, ghosts, opens, faults>>

\* The user leaves the thread: its children are paused and their requests
\* have ended. The budget stays in memory.
Leave ==
  /\ holder # None /\ ~main
  /\ \A a \in Agents : call[a].at = "idle"
  /\ holder' = None
  /\ child' = [c \in Children |-> IF child[c] = "running" THEN "paused" ELSE child[c]]
  /\ UNCHANGED <<budget, saved, main, call, ghosts, opens, faults>>

\* The process dies, holding the thread or not.
Crash(p) ==
  /\ faults < MaxFaults /\ faults' = faults + 1
  /\ budget' = [budget EXCEPT ![p] = None]
  /\ IF holder # p THEN UNCHANGED <<holder, main, child, call>>
     ELSE /\ holder' = None /\ main' = FALSE
          /\ child' = [c \in Children |-> IF child[c] = "running" THEN "paused" ELSE child[c]]
          /\ call' = [a \in Agents |-> NoCall]
  /\ UNCHANGED <<saved, ghosts, opens>>

-----------------------------------------------------------------------------
(* completeWithApiRetries *)

Ask(a) ==
  /\ Active(a) /\ call[a].at = "idle"
  /\ \E size \in Sizes : call' = [call EXCEPT ![a] = [NoCall EXCEPT !.at = "attempt", !.size = size]]
  /\ UNCHANGED <<holder, budget, saved, main, child, ghosts, opens, faults>>

\* The request is given up before it is sent, or while it waits for a retry:
\* it was aborted, or the budget has no room for it.
GiveUp(a) ==
  /\ call[a].at = "attempt"
  /\ call' = [call EXCEPT ![a] = NoCall]
  /\ UNCHANGED <<holder, budget, saved, main, child, ghosts, opens, faults>>

\* reserve: the debit is written before the request is sent, and stays in
\* memory when it cannot be written; the request then fails unsent.
Send(a) ==
  /\ call[a].at = "attempt" /\ Fits(Mine, call[a].size)
  /\ \/ /\ Write(holder, Debited(Mine, call[a].size)) /\ UNCHANGED faults
        /\ call' = [call EXCEPT ![a].at = "sent"]
        /\ dispatched' = dispatched + 1
        /\ billed' = billed + call[a].size
     \/ /\ WriteFails(holder, Debited(Mine, call[a].size))
        /\ call' = [call EXCEPT ![a] = NoCall]
        /\ UNCHANGED <<dispatched, billed>>
  /\ UNCHANGED <<holder, main, child, overrun, opens>>

\* A settlement that cannot be written is dropped: the journal keeps the
\* reservation. A request may use less or more than its estimate.
Settle(a, used) ==
  /\ LET b == Settled(Mine, call[a].size, used)
     IN (Write(holder, b) /\ UNCHANGED faults) \/ WriteFails(holder, b)
  /\ billed' = IF used = -1 \/ used > call[a].size THEN billed ELSE billed - call[a].size + used
  /\ overrun' = IF used > call[a].size THEN overrun + used - call[a].size ELSE overrun
  /\ UNCHANGED <<holder, main, child, dispatched, opens>>

Answer(a) ==
  /\ call[a].at = "sent"
  /\ \E used \in {-1} \cup 0 .. call[a].size + 1 : Settle(a, used)
  /\ call' = [call EXCEPT ![a] = NoCall]

\* A failed or aborted request is charged in full. It ends there, is sent
\* again, or is reset to a smaller context.
Fail(a) ==
  /\ call[a].at = "sent"
  /\ Settle(a, -1)
  /\ \/ call' = [call EXCEPT ![a] = NoCall]
     \/ /\ call[a].api < MaxApiRetries
        /\ call' = [call EXCEPT ![a].at = "attempt", ![a].api = @ + 1]
     \/ /\ call[a].capacity < MaxCapacityRetries
        /\ \E size \in Sizes :
             /\ size < call[a].size
             /\ call' = [call EXCEPT ![a].at = "attempt", ![a].capacity = @ + 1, ![a].size = size]

Next ==
  \/ \E p \in Processes : Open(p) \/ Crash(p)
  \/ Prompt \/ Leave
  \/ \E c \in Children : Spawn(c)
  \/ \E a \in Agents : End(a) \/ Ask(a) \/ GiveUp(a) \/ Send(a) \/ Answer(a) \/ Fail(a)

Spec == Init /\ [][Next]_vars

-----------------------------------------------------------------------------
(* Properties, of a thread that one process uses: one that comes back to a   *)
(* thread goes on with the budget it left, whatever others spent since.      *)

\* Nothing a turn sends is free, retries included: its requests have been debited
\* in the journal, and what a restored budget starts from covers the tokens they
\* used as far as they were estimated, those in flight at a crash included.
NothingIsFree ==
  /\ dispatched <= (IF saved = None THEN 0 ELSE saved.requests)
  /\ billed <= (IF saved = None THEN 0 ELSE saved.tokens + saved.reserved)

\* However many agents, retries, failed writes and restarts share it, a turn's
\* budget is exceeded only by what requests used beyond their estimates.
TurnWithinLimits ==
  /\ MaxRequests > 0 => dispatched <= MaxRequests
  /\ MaxTokens > 0 => billed <= MaxTokens
=============================================================================
