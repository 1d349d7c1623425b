--------------------------- MODULE SubagentMailbox ---------------------------
(***************************************************************************)
(* Reports of child agents on their way to the parent's model              *)
(* (subagents/messages.ts, observe in subagents/coordinator.ts, the         *)
(* collection at the end of an answer in app/subagent-host.ts).             *)
(*                                                                         *)
(* A report is posted to the parent's journal, where it is unread until an  *)
(* event consumes it: the delivery before a request, or the result of an    *)
(* observe_subagents call. The same events put it into the conversation, so *)
(* a restart replays what was read. A terminal child is collected once, by  *)
(* a call or when the model answers. What a report says is left out: it is  *)
(* the place it has among the reports posted. A call that posts the same    *)
(* report again finds its event and changes nothing (messages.ts:35-52).    *)
(***************************************************************************)
EXTENDS Naturals, Sequences, SequencesExt, FiniteSets, FiniteSetsExt

CONSTANTS
  Children,
  None,
  Limit,       \* reports that one delivery takes: limit = 8
  MaxReports,  \* bound: reports posted
  MaxFaults    \* bound: appends that fail, crashes

VARIABLES
  posted,   \* who posted each report
  durable,  \* what the journal adds to the conversation: reports read, children collected
  memory,   \* the conversation in memory
  child,    \* "running", "terminal" or "collected"
  parent,   \* where the parent's turn is
  asked,    \* the children that the call being made is about
  answer,   \* its result, not committed yet
  missed,   \* reports this process has in its journal and not in memory
  faults

vars == <<posted, durable, memory, child, parent, asked, answer, missed, faults>>

Report(n) == [report |-> n, from |-> posted[n]]
Result(c) == [report |-> 0, from |-> c]
Nothing == [report |-> 0, from |-> None]

Read == {durable[i].report : i \in DOMAIN durable} \ {0}
\* pending: in the order they were posted.
Pending(children) == {n \in DOMAIN posted : n \notin Read /\ posted[n] \in children}
Unsettled(children) == {c \in children : child[c] = "running"}

Init ==
  /\ posted = <<>> /\ durable = <<>> /\ memory = <<>>
  /\ child = [c \in Children |-> "running"]
  /\ parent = "idle" /\ asked = {} /\ answer = Nothing
  /\ missed = {} /\ faults = 0

Fault == faults < MaxFaults /\ faults' = faults + 1
Goto(place) == parent' = place /\ asked' = {} /\ answer' = Nothing
Keep == UNCHANGED <<posted, child>>

-----------------------------------------------------------------------------
(* Children *)

\* post: a child whose run has not been stopped; a waiting parent is woken (notifyMessage).
Post(c) ==
  /\ child[c] = "running" /\ Len(posted) < MaxReports
  /\ posted' = Append(posted, c)
  /\ UNCHANGED <<durable, memory, child, parent, asked, answer, missed, faults>>

\* The run of a child settles, by itself or because it was stopped.
Settle(c) ==
  /\ child[c] = "running"
  /\ child' = [child EXCEPT ![c] = "terminal"]
  /\ UNCHANGED <<posted, durable, memory, parent, asked, answer, missed, faults>>

-----------------------------------------------------------------------------
(* The parent's turn *)

Start ==
  /\ parent \in {"idle", "answered"} /\ Goto("boundary")
  /\ Keep /\ UNCHANGED <<durable, memory, missed, faults>>

\* The first reports of all that are pending, in the order they were posted.
Nth(S, i) == CHOOSE n \in S : Cardinality({m \in S : m < n}) = i - 1
Delivered ==
  LET unread == Pending(Children)
  IN  [i \in 1 .. IF Cardinality(unread) < Limit THEN Cardinality(unread) ELSE Limit |-> Report(Nth(unread, i))]

\* deliverToModel, collectStepInputs: one event for each; they join the conversation once
\* all of them are written.
Deliver ==
  /\ parent = "boundary"
  /\ durable' = durable \o Delivered /\ memory' = memory \o Delivered
  /\ Goto("request")
  /\ Keep /\ UNCHANGED <<missed, faults>>

\* An append fails, and the turn with it, after some of them.
DeliverPart ==
  /\ parent = "boundary" /\ Fault
  /\ \E k \in 0 .. Len(Delivered) - 1 :
       LET written == SubSeq(Delivered, 1, k)
       IN  /\ durable' = durable \o written
           /\ missed' = missed \cup {written[i].report : i \in DOMAIN written}
  /\ Goto("idle")
  /\ Keep /\ UNCHANGED memory

\* Mutant: a result that is there is taken before the reports.
FoundResultFirst(children) ==
  LET results == {c \in children : child[c] = "terminal"}
  IN  IF results # {} THEN {Result(c) : c \in results}
      ELSE IF Pending(children) # {} THEN {Report(Min(Pending(children)))}
      ELSE {Nothing}
\* The unread report or the result that a look at these children finds; the report first.
Found(children) ==
  LET results == {c \in children : child[c] = "terminal"}
  IN  IF Pending(children) # {} THEN {Report(Min(Pending(children)))}
      ELSE IF results # {} THEN {Result(c) : c \in results}
      ELSE {Nothing}

\* observe: answered at once, or after a wait for the children that still run.
Observe(children) ==
  /\ parent = "request"
  /\ \/ parent' = "result" /\ answer' \in Found(children) /\ asked' = {}
     \/ /\ Found(children) = {Nothing} /\ Unsettled(children) # {}
        /\ parent' = "waiting" /\ asked' = children /\ UNCHANGED answer
  /\ Keep /\ UNCHANGED <<durable, memory, missed, faults>>

\* waitForFirstSettlement: a report, a child that settled, or the timeout.
Wake ==
  /\ parent = "waiting"
  /\ parent' = "result" /\ answer' \in Found(asked) /\ asked' = {}
  /\ Keep /\ UNCHANGED <<durable, memory, missed, faults>>

\* commitToolResult, and commitLifecycle for the child it collects.
CommitResult ==
  /\ parent = "result"
  /\ IF answer = Nothing THEN UNCHANGED <<durable, memory>>
     ELSE durable' = Append(durable, answer) /\ memory' = Append(memory, answer)
  /\ child' = [c \in Children |-> IF answer = Result(c) THEN "collected" ELSE child[c]]
  /\ Goto("boundary")
  /\ UNCHANGED <<posted, missed, faults>>

\* The result is not written, or the wait is cancelled.
FailResult ==
  /\ parent \in {"waiting", "result"} /\ Fault /\ Goto("idle")
  /\ Keep /\ UNCHANGED <<durable, memory, missed>>

\* The model answers without a call.
Text ==
  /\ parent = "request" /\ Goto("collecting")
  /\ Keep /\ UNCHANGED <<durable, memory, missed, faults>>

\* collectReadySubagentResults: a terminal child whose reports have been read.
Collect ==
  /\ parent \in {"collecting", "collected"}
  /\ \E c \in Children :
       /\ child[c] = "terminal" /\ Found({c}) = {Result(c)}
       /\ durable' = Append(durable, Result(c)) /\ memory' = Append(memory, Result(c))
       /\ child' = [child EXCEPT ![c] = "collected"]
  /\ Goto("collected")
  /\ UNCHANGED <<posted, missed, faults>>

\* It ends: no child is terminal, or the one it looks at has a report to be read. The
\* answer stands if nothing was collected and no child is outstanding; if not, the turn
\* goes on, or pauses when the model keeps answering.
Gate ==
  /\ parent \in {"collecting", "collected"}
  /\ \/ \A c \in Children : child[c] # "terminal"
     \/ \E c \in Children : child[c] = "terminal" /\ Found({c}) # {Result(c)}
  /\ IF parent = "collecting" /\ \A c \in Children : child[c] = "collected"
     THEN Goto("answered")
     ELSE Goto("boundary") \/ (parent = "collecting" /\ Goto("idle"))
  /\ Keep /\ UNCHANGED <<durable, memory, missed, faults>>

\* The process is replaced: the conversation is replayed, its children are interrupted.
Crash ==
  /\ Fault
  /\ memory' = durable /\ missed' = {}
  /\ child' = [c \in Children |-> IF child[c] = "running" THEN "terminal" ELSE child[c]]
  /\ Goto("idle")
  /\ UNCHANGED <<posted, durable>>

Next ==
  \/ \E c \in Children : Post(c) \/ Settle(c)
  \/ \E children \in SUBSET Children : children # {} /\ Observe(children)
  \/ Start \/ Deliver \/ DeliverPart \/ Wake \/ CommitResult \/ FailResult
  \/ Text \/ Collect \/ Gate \/ Crash

Spec == Init /\ [][Next]_vars

-----------------------------------------------------------------------------
(* Properties *)

\* The model reads each report at most once, before the result of the child that sent it;
\* what counts as read is in the conversation, except reports of a delivery that failed
\* part of the way, until the process is replaced; and an answer stands only when all
\* reports have been read.
Place(entry) == {i \in DOMAIN memory : memory[i] = entry}
ReportsAreRead ==
  /\ \A n \in DOMAIN posted :
       /\ Cardinality(Place(Report(n))) = IF n \in Read \ missed THEN 1 ELSE 0
       /\ child[posted[n]] = "collected" =>
            /\ n \in Read
            /\ \A i \in Place(Report(n)), j \in Place(Result(posted[n])) : i < j
  /\ parent = "answered" => DOMAIN posted \subseteq Read
=============================================================================
