----------------------------- MODULE AgentTurn -----------------------------
(***************************************************************************)
(* One conversation's turns and the plans they propose and execute.        *)
(*                                                                         *)
(* The process keeps the session in "memory" and writes an event for every *)
(* change before or after it changes it; "durable" is what a replay of     *)
(* those events gives (Fold), and is all that is left after a crash.  The  *)
(* next process replays the events and closes the turn it finds open.      *)
(*                                                                         *)
(* A review is [plan, rev, status]: a plan is named by the turn that first *)
(* proposed it.  "tail" is how the history ends: with a user's message,    *)
(* with tool calls that have no results yet, or with an assistant's final  *)
(* message; "reply" says that the turn's last event is such a message.     *)
(***************************************************************************)
EXTENDS Integers

CONSTANTS MaxTurns, MaxRequests, MaxCrashes, Corrections

VARIABLES memory, durable, pc, turn, crashes
vars == <<memory, durable, pc, turn, crashes>>

None == [status |-> "none", plan |-> 0, rev |-> 0]
NoGraph == [status |-> "none", turn |-> 0]
Modes == {"auto", "plan", "code"}
Unfinished(graph) == graph.status \in {"active", "blocked"}
Outcomes == {"failed", "interrupted", "limit_reached"}

\* pc: where the process is; mode: what the turn works in; requests: the model requests it has used; approved: the
\* review it executes; work: what runs or ended unobserved, commands or children; ending: the reason it finishes with.
Idle == [at |-> "idle", mode |-> "code", requests |-> 0, approved |-> None, work |-> {}, ending |-> "none"]
Work == {"background_commands", "collect_subagents"}
At(where) == pc.at = where
GoTo(where) == pc' = [pc EXCEPT !.at = where]
Finish(reason) == pc' = [pc EXCEPT !.at = "finish", !.ending = reason]

-----------------------------------------------------------------------------
\* The replay.
PlanEvents == {"plan.proposed", "plan.approved", "plan.rejected", "plan.feedback", "plan.started"}

AcceptsPlan(d, e) ==
  CASE e.type = "plan.proposed" ->
         IF d.review = None THEN e.review.rev = 1
         ELSE /\ d.review.status = "awaiting"
              /\ e.review.plan = d.review.plan /\ e.review.rev = d.review.rev + 1
    [] e.type \in {"plan.approved", "plan.rejected", "plan.feedback"} -> d.review.status = "awaiting"
    [] e.type = "plan.started" -> d.review.status = "approved"

\* The marker of an interruption is there exactly when the history has no final answer.
AcceptsRecovery(d, e) ==
  /\ d.turn = e.turn
  /\ e.marker = (d.tail # "final")
  /\ e.returns = (d.executing.turn = e.turn)

Accepts(d, e) ==
  CASE e.type \in PlanEvents -> AcceptsPlan(d, e)
    [] e.type = "plan.returned" -> d.turn = e.turn /\ d.review = None /\ d.executing.turn = e.turn
    [] e.type = "mode.auto_route" -> d.turn = e.turn /\ d.mode = "auto"
    [] e.type = "completion.rejected" ->
         e.attempt = IF d.control.open = e.open THEN d.control.attempts + 1 ELSE 1
    [] e.type = "completion.resolved" -> d.control.open = e.open
    [] e.type = "turn.recovered" -> AcceptsRecovery(d, e)
    [] OTHER -> TRUE

NotExecuting == [turn |-> 0, review |-> None]
NoControl == [open |-> {}, attempts |-> 0]
Awaiting(review) == [review EXCEPT !.status = "awaiting"]

Recovered(d, e) ==
  [d EXCEPT !.turn = 0, !.failed = TRUE, !.tail = "final", !.reply = FALSE,
            !.review = IF e.returns THEN Awaiting(d.executing.review) ELSE @,
            !.executing = IF e.returns THEN NotExecuting ELSE @]

Fold(d, e) ==
  LET other == [d EXCEPT !.reply = FALSE]
  IN CASE e.type = "message.user" -> [other EXCEPT !.turn = e.turn, !.tail = "user", !.failed = FALSE]
       [] e.type = "message.synthetic" -> [other EXCEPT !.tail = "user"]
       [] e.type = "message.calls" -> [other EXCEPT !.tail = "calls"]
       [] e.type = "message.final" -> [d EXCEPT !.tail = "final", !.reply = TRUE]
       [] e.type = "tool.result" -> [other EXCEPT !.tail = "user", !.graph = e.graph]
       [] e.type = "plan.proposed" -> [other EXCEPT !.review = e.review, !.tail = IF @ = "calls" THEN "user" ELSE @]
       [] e.type = "plan.approved" -> [other EXCEPT !.review.status = "approved"]
       [] e.type = "plan.rejected" -> [other EXCEPT !.review = None, !.tail = "user"]
       [] e.type = "plan.started" ->
            [other EXCEPT !.executing = [turn |-> e.turn, review |-> d.review], !.review = None,
                          !.graph = IF e.replaces THEN NoGraph ELSE @]
       [] e.type = "plan.returned" -> [other EXCEPT !.review = Awaiting(d.executing.review), !.executing = NotExecuting]
       [] e.type = "mode.auto_route" -> [other EXCEPT !.mode = e.mode]
       [] e.type = "checkpoint" -> [d EXCEPT !.mode = e.mode]
       [] e.type = "completion.rejected" -> [other EXCEPT !.control = [open |-> e.open, attempts |-> e.attempt]]
       [] e.type = "completion.resolved" -> [other EXCEPT !.control = NoControl]
       [] e.type = "challenge" -> [other EXCEPT !.challenged = TRUE, !.tail = "user"]
       [] e.type = "turn.completed" ->
            [other EXCEPT !.turn = 0, !.failed = e.reason \in Outcomes,
                          !.challenged = @ /\ e.reason \notin {"success", "planned"}]
       [] e.type = "turn.recovered" -> Recovered(d, e)
       [] OTHER -> other

\* An event the replay would refuse is not written: "tail" remembers that it happened.
Write(d, e) == IF Accepts(d, e) THEN Fold(d, e) ELSE [d EXCEPT !.tail = "refused"]
Append(e) == durable' = Write(durable, e)

-----------------------------------------------------------------------------
\* Between turns: processPendingPlanReview, submitUserMessage and /mode.
Begin(mode, where) ==
  /\ turn < MaxTurns
  /\ turn' = turn + 1
  /\ memory' = [memory EXCEPT !.turn = turn + 1]
  /\ pc' = [Idle EXCEPT !.at = where, !.mode = mode, !.work = pc.work]
  /\ UNCHANGED crashes

Message == [type |-> "message.user", turn |-> turn + 1]

SubmitUserMessage ==
  /\ At("idle") /\ memory.review = None
  /\ Begin(memory.mode, "route")
  /\ Append(Message)

\* In Auto mode the turn that revises a plan works in Plan mode without a route.
Adjust ==
  /\ At("idle") /\ memory.review.status = "awaiting"
  /\ Begin(IF memory.mode = "auto" THEN "plan" ELSE memory.mode, "step")
  /\ durable' = Write(Write(durable, [type |-> "plan.feedback"]), Message)

Approve ==
  /\ At("idle") /\ memory.review.status = "awaiting"
  /\ Append([type |-> "plan.approved"])
  /\ memory' = [memory EXCEPT !.review.status = "approved", !.mode = "code"]
  /\ GoTo("approving")
  /\ UNCHANGED <<turn, crashes>>

SaveApproval ==
  /\ At("approving")
  /\ Append([type |-> "checkpoint", mode |-> memory.mode])
  /\ GoTo("idle")
  /\ UNCHANGED <<memory, turn, crashes>>

Reject ==
  /\ At("idle") /\ memory.review.status = "awaiting"
  /\ Append([type |-> "plan.rejected"])
  /\ memory' = [memory EXCEPT !.review = None]
  /\ UNCHANGED <<pc, turn, crashes>>

SwitchMode ==
  /\ At("idle") /\ memory.review = None /\ ~Unfinished(memory.graph) /\ "collect_subagents" \notin pc.work
  /\ \E mode \in Modes \ {memory.mode} :
       memory' = [memory EXCEPT !.mode = mode] /\ Append([type |-> "checkpoint", mode |-> mode])
  /\ UNCHANGED <<pc, turn, crashes>>

ExecuteApproved ==
  /\ At("idle") /\ memory.review.status = "approved"
  /\ Begin(memory.mode, "executing")
  /\ Append(Message)

\* Mutant of Retire: the graph the plan replaces stays in memory.
RetireReview(m) == [m EXCEPT !.review = None]

\* The plan that starts replaces a graph that is not completed.
Retire(m) == [m EXCEPT !.review = None, !.graph = IF Unfinished(@) THEN NoGraph ELSE @]

StartExecution ==
  /\ At("executing")
  /\ Append([type |-> "plan.started", turn |-> turn, replaces |-> Unfinished(memory.graph)])
  /\ memory' = Retire(memory)
  /\ pc' = [pc EXCEPT !.at = "route", !.approved = memory.review]
  /\ UNCHANGED <<turn, crashes>>

-----------------------------------------------------------------------------
\* The mode of the turn.
\* What must be observed first is observed in Code mode; otherwise the router chooses.
Routes == IF pc.work # {} THEN {"code"} ELSE {"plan", "code"}

Route ==
  /\ At("route")
  /\ IF memory.mode # "auto" THEN GoTo("step") /\ UNCHANGED <<memory, durable>>
     ELSE \E mode \in Routes :
            /\ Append([type |-> "mode.auto_route", turn |-> turn, mode |-> mode])
            /\ memory' = [memory EXCEPT !.mode = mode]
            /\ pc' = [pc EXCEPT !.at = "step", !.mode = mode]
  /\ UNCHANGED <<turn, crashes>>

AnswerDirectly ==
  /\ At("route") /\ memory.mode = "auto" /\ pc.work = {}
  /\ Append([type |-> "message.final"])
  /\ Finish("success")
  /\ UNCHANGED <<memory, turn, crashes>>

-----------------------------------------------------------------------------
\* A step: one model request and everything its response causes.
RecordAssistantResponse(tail) == Append([type |-> IF tail = "calls" THEN "message.calls" ELSE "message.final"])

Response(tail) ==
  /\ At("step") /\ pc.requests < MaxRequests
  /\ pc' = [pc EXCEPT !.at = tail, !.requests = @ + 1]
  /\ RecordAssistantResponse(tail)
  /\ UNCHANGED <<memory, turn, crashes>>

\* A turn that used all its requests pauses on the obligations its last correction named.
FinishAtRequestLimit ==
  /\ At("step") /\ pc.requests = MaxRequests
  /\ Finish(IF memory.control = NoControl THEN "limit_reached" ELSE "paused")
  /\ UNCHANGED <<memory, durable, turn, crashes>>

\* An abort, an exception, or a budget that is used up.
Fail ==
  /\ pc.at \in {"executing", "route", "step", "calls", "final", "resolved", "sealed", "asked", "proposed"}
  /\ \E reason \in {"failed", "interrupted"} : Finish(reason)
  /\ UNCHANGED <<memory, durable, turn, crashes>>

\* The effects of a batch of calls: on the graph, a question, or a finish that is refused because commands are open;
\* commands and children start and are observed.
Batch ==
  /\ At("calls")
  /\ \E graph \in {memory.graph}
                  \cup (IF ~Unfinished(memory.graph) /\ memory.graph.turn # turn THEN {[status |-> "active", turn |-> turn]} ELSE {})
                  \cup (IF Unfinished(memory.graph)
                        THEN {[memory.graph EXCEPT !.status = s] : s \in {"active", "blocked", "completed"}} ELSE {}),
        work \in SUBSET Work,
        where \in {"step", "asked"} \cup (IF "background_commands" \in pc.work THEN {"refused"} ELSE {}) :
       /\ Append([type |-> "tool.result", graph |-> graph])
       /\ memory' = [memory EXCEPT !.graph = graph]
       /\ pc' = [pc EXCEPT !.at = where, !.work = work]
  /\ UNCHANGED <<turn, crashes>>

Proposal(m) ==
  IF m.review = None THEN [status |-> "awaiting", plan |-> turn, rev |-> 1]
  ELSE [m.review EXCEPT !.status = "awaiting", !.rev = @ + 1]

\* By propose_plan, before the seal, or as the final answer of a turn in Plan mode, after it.
ProposePlan ==
  /\ memory.review.status # "approved"
  /\ Append([type |-> "plan.proposed", review |-> Proposal(memory)])
  /\ memory' = [memory EXCEPT !.review = Proposal(memory)]
  /\ \/ /\ At("calls") /\ pc.mode = "plan"
        /\ "collect_subagents" \notin pc.work /\ ~Unfinished(memory.graph)
        /\ GoTo("proposed")
     \/ At("sealed") /\ Finish("planned")
  /\ UNCHANGED <<turn, crashes>>

Obligations ==
  pc.work \cup IF pc.mode = "plan" /\ Unfinished(memory.graph) THEN {"planning_dag"} ELSE {}

Attempt(open) == IF memory.control.open = open THEN memory.control.attempts + 1 ELSE 1

\* A final answer, or a finish a tool refused, while something is open: recorded before the model is told.
RejectCompletion ==
  /\ \E open \in {Obligations, pc.work \cup {"background_commands"}} :
       /\ \/ At("final") /\ open = Obligations /\ open # {}
          \/ At("refused") /\ open = pc.work \cup {"background_commands"}
       /\ Append([type |-> "completion.rejected", open |-> open, attempt |-> Attempt(open)])
       /\ memory' = [memory EXCEPT !.control = [open |-> open, attempts |-> Attempt(open)]]
       /\ IF Attempt(open) <= Corrections THEN GoTo("corrected") ELSE Finish("paused")
  /\ UNCHANGED <<turn, crashes>>

\* Children that have finished are collected before the answer is looked at.
CollectReady ==
  /\ At("final") /\ "collect_subagents" \in pc.work
  /\ Append([type |-> "message.synthetic"])
  /\ pc' = [pc EXCEPT !.at = "step", !.work = @ \ {"collect_subagents"}]
  /\ UNCHANGED <<memory, turn, crashes>>

\* A response that was cut off: its calls are answered with the error and the model is told, or the turn fails.
RejectIncompleteOutput ==
  /\ pc.at \in {"calls", "final"}
  /\ LET answered == IF At("calls") THEN Write(durable, [type |-> "tool.result", graph |-> memory.graph]) ELSE durable
     IN durable' = Write(answered, [type |-> "message.synthetic"])
  /\ GoTo("step") \/ Finish("failed")
  /\ UNCHANGED <<memory, turn, crashes>>

\* The model is told what is open.
Correct ==
  /\ At("corrected")
  /\ Append([type |-> "message.synthetic"])
  /\ GoTo("step")
  /\ UNCHANGED <<memory, turn, crashes>>

PassGate ==
  /\ At("final") /\ Obligations = {}
  /\ IF memory.control = NoControl THEN UNCHANGED durable
     ELSE Append([type |-> "completion.resolved", open |-> memory.control.open])
  /\ memory' = [memory EXCEPT !.control = NoControl]
  /\ GoTo("resolved")
  /\ UNCHANGED <<turn, crashes>>

ChallengeDelivery ==
  /\ At("resolved") /\ pc.mode = "code" /\ ~durable.challenged
  /\ Append([type |-> "challenge"])
  /\ GoTo("step")
  /\ UNCHANGED <<memory, turn, crashes>>

\* The seal: an adjustment that is waiting sends the turn round again, otherwise it ends.
Seal ==
  /\ pc.at \in {"resolved", "asked", "proposed"}
  /\ \/ Append([type |-> "message.synthetic"]) /\ GoTo("step")
     \/ /\ Append([type |-> "turn.steering.sealed"])
        /\ CASE At("asked") -> Finish("needs_input")
             [] At("proposed") -> Finish("planned")
             [] At("resolved") /\ pc.mode = "plan" -> GoTo("sealed")
             [] OTHER -> Finish(IF memory.graph.status = "blocked" THEN "blocked" ELSE "success")
  /\ UNCHANGED <<memory, turn, crashes>>

\* The command environment is quarantined.
PauseOnFault ==
  /\ At("calls")
  /\ Finish("paused")
  /\ UNCHANGED <<memory, durable, turn, crashes>>

-----------------------------------------------------------------------------
\* finish: the plan goes back, the history is closed, the turn is completed.
\* Mutant of GoesBack: only a turn that failed returns its plan.
GoesBackIfFailed ==
  /\ pc.ending = "failed" /\ pc.approved # None
  /\ memory.review = None /\ memory.graph.turn # turn

GoesBack ==
  /\ pc.ending \in Outcomes /\ pc.approved # None
  /\ memory.review = None /\ memory.graph.turn # turn

ReturnToReview ==
  /\ At("finish") /\ GoesBack
  /\ Append([type |-> "plan.returned", turn |-> turn])
  /\ memory' = [memory EXCEPT !.review = Awaiting(pc.approved)]
  /\ pc' = [pc EXCEPT !.approved = None]
  /\ UNCHANGED <<turn, crashes>>

CloseHistory ==
  /\ At("finish") /\ ~GoesBack /\ durable.tail = "user"
  /\ Append([type |-> "message.final"])
  /\ UNCHANGED <<memory, pc, turn, crashes>>

Complete ==
  /\ At("finish") /\ ~GoesBack /\ durable.tail # "user"
  /\ Append([type |-> "turn.completed", reason |-> pc.ending])
  /\ memory' = [memory EXCEPT !.turn = 0]
  /\ pc' = [Idle EXCEPT !.work = pc.work]
  /\ UNCHANGED <<turn, crashes>>

-----------------------------------------------------------------------------
\* The process dies; the next one replays the events and closes the turn it finds open.
Crash ==
  /\ ~At("down") /\ crashes < MaxCrashes
  /\ crashes' = crashes + 1
  /\ pc' = [Idle EXCEPT !.at = "down"]
  /\ UNCHANGED <<memory, durable, turn>>

Replayed(d) == [mode |-> d.mode, turn |-> d.turn, review |-> d.review, graph |-> d.graph, control |-> d.control]

Recovery ==
  [type |-> "turn.recovered", turn |-> durable.turn,
   marker |-> ~durable.reply, returns |-> durable.executing.turn = durable.turn]

RepairInterruptedTurn ==
  LET after == IF durable.turn = 0 THEN durable ELSE Fold(durable, Recovery)
  IN /\ At("down")
     /\ durable.turn = 0 \/ Accepts(durable, Recovery)
     /\ durable' = after
     /\ memory' = Replayed(after)
     /\ \E work \in SUBSET Work : pc' = [Idle EXCEPT !.work = work]
     /\ UNCHANGED <<turn, crashes>>

\* The journal refuses the event: the conversation cannot be opened, now or later.
RefuseRecovery ==
  /\ At("down")
  /\ durable.turn # 0 /\ ~Accepts(durable, Recovery)
  /\ UNCHANGED vars

-----------------------------------------------------------------------------
Init ==
  /\ durable = [mode |-> "auto", turn |-> 0, review |-> None, graph |-> NoGraph, control |-> NoControl,
                executing |-> NotExecuting, tail |-> "user", reply |-> FALSE, challenged |-> FALSE, failed |-> FALSE]
  /\ memory = Replayed(durable)
  /\ pc = Idle
  /\ turn = 0
  /\ crashes = 0

Next ==
  \/ SubmitUserMessage \/ Adjust \/ Approve \/ SaveApproval \/ Reject \/ SwitchMode
  \/ ExecuteApproved \/ StartExecution \/ Route \/ AnswerDirectly
  \/ Response("calls") \/ Response("final") \/ FinishAtRequestLimit \/ Fail
  \/ Batch \/ ProposePlan \/ RejectIncompleteOutput \/ RejectCompletion \/ Correct \/ CollectReady \/ PassGate \/ ChallengeDelivery \/ Seal \/ PauseOnFault
  \/ ReturnToReview \/ CloseHistory \/ Complete
  \/ Crash \/ RepairInterruptedTurn \/ RefuseRecovery

Spec == Init /\ [][Next]_vars

-----------------------------------------------------------------------------
\* No event the process writes is refused, and what it believes of the plan, the graph, the obligations and the mode is
\* what the next one would replay.
MemoryIsReplayed ==
  /\ durable.tail # "refused"
  /\ pc.at \notin {"down", "approving"} => memory = Replayed(durable)

\* An approved plan whose execution failed, was interrupted or ran out of requests, or whose process died, comes back
\* for review, unless it has become a graph of tasks or the turn has proposed another plan.
PlanIsKept ==
  [][/\ durable.turn # 0 /\ durable'.turn = 0
     /\ durable'.executing.turn = durable.turn /\ durable'.failed
     => durable.turn \in {durable'.graph.turn, durable'.review.plan}]_vars

\* Every turn a crash leaves open can be closed by the process that opens the conversation.
RecoveryIsAccepted ==
  At("down") /\ durable.turn # 0 => Accepts(durable, Recovery)
=============================================================================
