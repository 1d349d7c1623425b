---------------------------- MODULE TurnSteering ----------------------------
(***************************************************************************)
(* Messages that reach a thread while its turn runs: the user's            *)
(* adjustments (enqueueTurnSteering) and the messages of other threads     *)
(* (admitPeerMessages). Three stores meet here:                            *)
(*   - the thread's journal, folded by replaySteeringEvent: the active     *)
(*     turn, its seal, the pending entries and the applied ones;           *)
(*   - the SQLite table of peer messages, written by other processes;      *)
(*   - the memory of the process that runs the turn: the agent loop, the   *)
(*     batch it has drained and not yet applied, the conversation it sends *)
(*     to the model, and the notifier that aborts a provider request.      *)
(* A drain is one synchronous block, so an adjustment of the same process  *)
(* cannot land inside it; a peer's message and a crash can. A drained      *)
(* batch is applied to memory only after an await.                         *)
(***************************************************************************)
EXTENDS Naturals, Sequences, FiniteSets, SequencesExt

CONSTANTS
  Adjustments,      \* what the user may type while a turn runs
  Peers,            \* messages other threads may send
  WithImages,       \* some of the adjustments: their images fill the turn's budget
  MaxTurnImages,    \* validateImageAttachmentCollection's limit, in such fills
  PerBoundary,      \* coordinationMessagesPerBoundary
  MaxCalls,         \* bound: tool calls of one response
  MaxTurns,         \* bound: turns the user starts
  MaxCrashes        \* bound: crashes of the process

VARIABLES
  activeTurn,       \* journal: the active turn, 0 when there is none
  sealed,           \* journal: the last turn is sealed for finalization
  pending,          \* journal: pendingSteering
  assigned,         \* journal: steeringSequence
  watermark,        \* journal: steeringWatermark
  told,             \* journal: the messages applied to the history, in order
  openCalls,        \* journal: tool calls of the last response with no result
  abandoned,        \* journal: those calls are left over from a turn that has ended
  outcome,          \* journal: how the last turn ended
  turns,            \* number of turns started
  inbox,            \* SQLite: the peer messages sent to this thread, in order
  admitted,         \* SQLite: those marked admitted
  pc,               \* memory: where the agent loop is ("dead": no process)
  boundary,         \* memory: the boundary the last drain was called from
  todo,             \* memory: peer messages still to admit at this boundary
  hand,             \* memory: the batch drained and not yet applied
  heard,            \* memory: the messages of the conversation, as in told
  forked,           \* memory: the conversation went on without one of told
  known,            \* memory: the steering watermark the loop has seen
  images,           \* memory: image fills of the turn
  routing,          \* memory: Auto mode is still choosing a route
  asks,             \* memory: the batch is a plan or question that ends the turn
  steered,          \* memory: steeringAppliedBetweenTools
  result,           \* memory: what finish was called with
  interrupted,      \* memory: the turn's AbortSignal is aborted
  notifier,         \* memory: TurnSteeringAttemptNotifier of the turn
  crashes           \* number of crashes

inboxVars == <<pending, assigned, watermark, told>>
turnVars == <<activeTurn, sealed, outcome, turns>>
peerVars == <<inbox, admitted>>
callVars == <<openCalls, abandoned>>
talkVars == <<heard, forked, known, images>>
flowVars == <<routing, asks, steered, result>>
vars == <<inboxVars, turnVars, callVars, peerVars, pc, boundary, todo, hand,
          talkVars, flowVars, interrupted, notifier, crashes>>

Messages == Adjustments \cup Peers
Sources == {"user_adjust", "peer_message"}
Boundaries == {"before_model", "maintained", "local", "interrupted", "after_model", "skipped",
               "between_tools", "before_final", "seal"}
NoBatch == [ids |-> <<>>, through |-> 0]

Ids(entries) == [i \in DOMAIN entries |-> entries[i].id]
Accepted == told \o Ids(pending)
Fills(ids) == Cardinality({m \in WithImages : m \in ToSet(ids)})
Unadmitted == ToSet(inbox) \ admitted

\* The order in which peer messages were sent.
Place(m) == CHOOSE i \in DOMAIN inbox : inbox[i] = m
Before(m, S) == {n \in S : Place(n) < Place(m)}
Earliest(S) == CHOOSE m \in S : Before(m, S) = {}

\* A drain runs without an await: meanwhile only other processes act.
Synchronous == pc \in {"admit", "acknowledge", "drain"}

\* The turn runs in memory: state.activeTurnId is set.
Running == pc \notin {"dead", "idle", "finishing"}

TypeOK ==
  /\ activeTurn \in 0 .. MaxTurns /\ turns \in 0 .. MaxTurns /\ crashes \in 0 .. MaxCrashes
  /\ sealed \in BOOLEAN
  /\ pending \in Seq([id : Messages, source : Sources, sequence : Nat])
  /\ assigned \in Nat /\ watermark \in Nat /\ known \in Nat
  /\ told \in Seq(Messages) /\ heard \in Seq(Messages)
  /\ openCalls \in 0 .. MaxCalls
  /\ outcome \in {"none", "answered", "stopped"} /\ result \in {"none", "answered", "stopped"}
  /\ inbox \in Seq(Peers) /\ todo \subseteq Peers /\ admitted \subseteq Peers
  /\ pc \in {"dead", "idle", "step", "take", "admit", "acknowledge", "drain", "apply", "ready", "request",
             "respond", "challenge", "calls", "calling", "skip", "settle", "answer", "finishing", "route", "local"}
  /\ boundary \in Boundaries
  /\ hand \in [ids : Seq(Messages), through : Nat]
  /\ images \in Nat
  /\ {abandoned, forked, routing, asks, steered, interrupted} \subseteq BOOLEAN
  /\ notifier \in [notified : Nat, consumed : Nat, attempt : {"none", "open", "aborted"}]

-----------------------------------------------------------------------------
(* TurnSteeringAttemptNotifier *)

AbortActiveAttemptIfPending(n) ==
  IF n.notified > n.consumed /\ n.attempt = "open" THEN [n EXCEPT !.attempt = "aborted"] ELSE n

Notify(n, sequence) ==
  IF sequence <= n.notified THEN n ELSE AbortActiveAttemptIfPending([n EXCEPT !.notified = sequence])

\* Mutant: The attempt is opened without a look at what is already pending.
OpenAttemptDeaf(n) == [n EXCEPT !.attempt = "open"]

OpenAttempt(n) == AbortActiveAttemptIfPending([n EXCEPT !.attempt = "open"])

Dispose(n) == [n EXCEPT !.attempt = "none"]

Consume(n, through) ==
  IF through <= n.consumed THEN n
  ELSE AbortActiveAttemptIfPending(
         [n EXCEPT !.consumed = through, !.notified = IF through > n.notified THEN through ELSE n.notified])

NewNotifier == [notified |-> 0, consumed |-> 0, attempt |-> "none"]

Init ==
  /\ activeTurn = 0 /\ turns = 0 /\ crashes = 0
  /\ sealed = FALSE /\ outcome = "none" /\ result = "none"
  /\ pending = <<>> /\ assigned = 0 /\ watermark = 0 /\ told = <<>>
  /\ openCalls = 0 /\ abandoned = FALSE
  /\ inbox = <<>> /\ admitted = {} /\ todo = {}
  /\ pc = "idle" /\ boundary = "before_model" /\ hand = NoBatch
  /\ heard = <<>> /\ forked = FALSE /\ known = 0 /\ images = 0
  /\ routing = FALSE /\ asks = FALSE /\ steered = FALSE
  /\ interrupted = FALSE
  /\ notifier = NewNotifier

-----------------------------------------------------------------------------
(* The user and the other threads *)

Goto(place) == pc' = place

\* submitAdjustment and enqueueTurnSteering: refused once the turn is over,
\* aborted or sealed, or when the images of what is queued exceed the budget.
Submit(m) ==
  /\ Running /\ ~Synchronous /\ ~interrupted
  /\ activeTurn # 0 /\ ~sealed
  /\ m \notin ToSet(Accepted)
  /\ Fills(Append(Ids(pending), m)) <= MaxTurnImages
  /\ pending' = Append(pending, [id |-> m, source |-> "user_adjust", sequence |-> assigned + 1])
  /\ assigned' = assigned + 1
  /\ notifier' = Notify(notifier, assigned + 1)
  /\ UNCHANGED <<watermark, told, turnVars, callVars, peerVars, pc, boundary, todo, hand,
                 talkVars, flowVars, interrupted, crashes>>

\* send_thread_message of another thread: it neither wakes nor interrupts.
Send(m) ==
  /\ m \notin ToSet(inbox)
  /\ inbox' = Append(inbox, m)
  /\ UNCHANGED <<inboxVars, turnVars, callVars, admitted, pc, boundary, todo, hand,
                 talkVars, flowVars, interrupted, notifier, crashes>>

\* Ctrl+C: the turn's signal, which outranks a steering abort.
Interrupt ==
  /\ Running /\ ~Synchronous /\ ~interrupted
  /\ interrupted' = TRUE
  /\ UNCHANGED <<inboxVars, turnVars, callVars, peerVars, pc, boundary, todo, hand,
                 talkVars, flowVars, notifier, crashes>>

\* executePromptOwned, openTurn and recordTurnStart: a new notifier learns of
\* what earlier turns left pending and of the watermark the memory has seen.
StartTurn(auto) ==
  /\ pc = "idle" /\ activeTurn = 0 /\ turns < MaxTurns
  /\ turns' = turns + 1 /\ activeTurn' = turns + 1
  /\ sealed' = FALSE
  /\ notifier' = LET n == IF pending = <<>> THEN NewNotifier
                          ELSE Notify(NewNotifier, Last(pending).sequence)
                 IN Consume(n, known)
  /\ forked' = (forked \/ heard # told)
  /\ images' = 0 /\ interrupted' = FALSE
  /\ routing' = auto /\ asks' = FALSE /\ steered' = FALSE /\ result' = "none"
  /\ Goto(IF auto THEN "route" ELSE "step")
  /\ UNCHANGED <<inboxVars, callVars, outcome, peerVars, boundary, todo, hand, heard, known, crashes>>

-----------------------------------------------------------------------------
(* takeAndApplySteering *)

TakeAt(b) == pc' = "take" /\ boundary' = b
NextStep == pc' = "step" /\ UNCHANGED boundary

\* Mutant: Peer messages are admitted before the final answer only.
AdmitsAtTheEnd ==
  /\ boundary = "seal"
  /\ pending = <<>> /\ ~sealed
  /\ Unadmitted # {}

\* Peer messages are admitted at every boundary but the ones right after a
\* model request, and only when nothing is pending.
Admits ==
  /\ boundary \notin {"after_model", "interrupted", "maintained", "local"}
  /\ pending = <<>> /\ ~sealed
  /\ Unadmitted # {}

BeginAdmission ==
  /\ pc = "take" /\ Admits
  /\ todo' = {m \in Unadmitted : Cardinality(Before(m, Unadmitted)) < PerBoundary}
  /\ Goto("admit")
  /\ UNCHANGED <<inboxVars, turnVars, callVars, peerVars, boundary, hand, talkVars, flowVars,
                 interrupted, notifier, crashes>>

\* Mutant: A message is admitted without a look for its event in the journal.
AdmitPeerAgain ==
  /\ pc = "admit"
  /\ pending' = Append(pending, [id |-> Earliest(todo), source |-> "peer_message", sequence |-> assigned + 1])
  /\ assigned' = assigned + 1
  /\ Goto("acknowledge")
  /\ UNCHANGED <<watermark, told, turnVars, callVars, peerVars, boundary, todo, hand, talkVars,
                 flowVars, interrupted, notifier, crashes>>

\* The event ID of an admission is the message's: a message the journal
\* already holds is not queued again.
AdmitPeer ==
  /\ pc = "admit"
  /\ IF Earliest(todo) \in ToSet(Accepted)
     THEN UNCHANGED <<pending, assigned>>
     ELSE /\ pending' = Append(pending, [id |-> Earliest(todo), source |-> "peer_message", sequence |-> assigned + 1])
          /\ assigned' = assigned + 1
  /\ Goto("acknowledge")
  /\ UNCHANGED <<watermark, told, turnVars, callVars, peerVars, boundary, todo, hand, talkVars,
                 flowVars, interrupted, notifier, crashes>>

Acknowledge ==
  /\ pc = "acknowledge"
  /\ admitted' = admitted \cup {Earliest(todo)}
  /\ todo' = todo \ {Earliest(todo)}
  /\ Goto(IF todo' = {} THEN "drain" ELSE "admit")
  /\ UNCHANGED <<inboxVars, turnVars, callVars, inbox, boundary, hand, talkVars, flowVars,
                 interrupted, notifier, crashes>>

Draining == pc = "drain" \/ (pc = "take" /\ ~Admits)

\* The first run of entries of one source.
Prefix == SelectInSeq(pending, LAMBDA e : e.source # pending[1].source)
FirstRun == IF Prefix = 0 THEN Len(pending) ELSE Prefix - 1

DrainBatch ==
  /\ Draining /\ pending # <<>>
  /\ LET entries == SubSeq(pending, 1, FirstRun)
     IN /\ hand' = [ids |-> Ids(entries), through |-> Last(entries).sequence]
        /\ told' = told \o Ids(entries)
        /\ watermark' = Last(entries).sequence
  /\ pending' = SubSeq(pending, FirstRun + 1, Len(pending))
  /\ Goto("apply")
  /\ UNCHANGED <<assigned, turnVars, callVars, peerVars, boundary, todo, talkVars, flowVars,
                 interrupted, notifier, crashes>>

\* What the loop does after a boundary that delivered a batch, and after one
\* that had nothing.
AfterBatch ==
  CASE boundary = "before_model" -> Goto("ready") /\ UNCHANGED boundary
    [] boundary = "skipped" -> Goto("settle") /\ UNCHANGED boundary
    [] OTHER -> NextStep

AfterNothing ==
  CASE boundary = "before_model" -> Goto("ready") /\ UNCHANGED boundary
    [] boundary \in {"interrupted", "maintained"} -> NextStep
    [] boundary = "after_model" -> Goto("respond") /\ UNCHANGED boundary
    [] boundary = "local" -> Goto("local") /\ UNCHANGED boundary
    [] boundary = "skipped" -> Goto("settle") /\ UNCHANGED boundary
    [] boundary = "between_tools" -> IF asks THEN TakeAt("seal") ELSE NextStep
    [] boundary = "before_final" -> Goto("challenge") /\ UNCHANGED boundary
    [] boundary = "seal" -> Goto("answer") /\ UNCHANGED boundary

\* sealTurnSteering closes admission when there is nothing to deliver.
DrainNothing ==
  /\ Draining /\ pending = <<>>
  /\ sealed' = (sealed \/ boundary = "seal")
  /\ AfterNothing
  /\ UNCHANGED <<inboxVars, activeTurn, outcome, turns, callVars, peerVars, todo, hand, talkVars,
                 flowVars, interrupted, notifier, crashes>>

Apply ==
  /\ pc = "apply"
  /\ images + Fills(hand.ids) <= MaxTurnImages
  /\ heard' = heard \o hand.ids
  /\ images' = images + Fills(hand.ids)
  /\ known' = hand.through
  /\ notifier' = Consume(notifier, hand.through)
  /\ hand' = NoBatch
  /\ AfterBatch
  /\ UNCHANGED <<inboxVars, turnVars, callVars, peerVars, todo, forked, flowVars, interrupted, crashes>>

\* finish is called: the turn is over in memory, not yet in the journal.
FinishWith(reason) == result' = reason /\ Goto("finishing")

\* The images of all adjustments applied in one turn share its budget, which
\* Submit checks against those still queued only: the drain is already durable
\* when the check throws, and the turn fails.
ApplyFails ==
  /\ pc = "apply"
  /\ images + Fills(hand.ids) > MaxTurnImages
  /\ hand' = NoBatch
  /\ FinishWith("stopped")
  /\ UNCHANGED <<inboxVars, turnVars, callVars, peerVars, boundary, todo, talkVars, routing, asks,
                 steered, interrupted, notifier, crashes>>

-----------------------------------------------------------------------------
(* The agent loop: one model request and what its response causes *)

loopFrame == <<inboxVars, turnVars, peerVars, todo, hand, talkVars, interrupted, crashes>>

\* The top of the loop. Only the steps look at the turn's signal; the router
\* sees it in its request.
BeginStep ==
  /\ pc = "route" \/ (pc = "step" /\ (routing \/ ~interrupted))
  /\ TakeAt("before_model")
  /\ UNCHANGED <<loopFrame, callVars, flowVars, notifier>>

\* An aborted turn, a spent request limit, or a failure to prepare the request.
StopAtStep ==
  /\ (pc = "step" /\ ~routing) \/ pc \in {"ready", "route"}
  /\ FinishWith("stopped")
  /\ UNCHANGED <<loopFrame, callVars, boundary, routing, asks, steered, notifier>>

\* Automatic compaction of a step's request, or before the route is chosen.
\* It is no provider attempt: what arrives meanwhile is applied after the
\* summary, and the step begins again.
MaintainContext ==
  /\ pc = "route" \/ (pc = "ready" /\ ~routing)
  /\ TakeAt("maintained")
  /\ UNCHANGED <<loopFrame, callVars, flowVars, notifier>>

RequestModel ==
  /\ pc \in {"ready", "local"}
  /\ notifier' = OpenAttempt(notifier)
  /\ Goto("request")
  /\ UNCHANGED <<loopFrame, callVars, boundary, flowVars>>

\* Auto mode asks its local decider first in a turn without images, and holds
\* no provider attempt meanwhile. It settles a mode, or leaves it to the router.
DecideLocally ==
  /\ pc = "ready" /\ routing /\ images = 0
  /\ TakeAt("local")
  /\ UNCHANGED <<loopFrame, callVars, flowVars, notifier>>

RouteLocally ==
  /\ pc = "local"
  /\ NextStep /\ routing' = FALSE
  /\ UNCHANGED <<loopFrame, callVars, asks, steered, result, notifier>>

\* runProviderAttempt: a turn abort outranks a steering abort, and a steering
\* abort outranks the answer or the error that raced with it.
RequestEnds ==
  /\ pc = "request"
  /\ notifier' = Dispose(notifier)
  /\ \/ /\ ~interrupted /\ notifier.attempt = "aborted"
        /\ TakeAt("interrupted") /\ UNCHANGED flowVars
     \/ /\ ~interrupted /\ notifier.attempt = "open"
        /\ TakeAt("after_model") /\ UNCHANGED flowVars
     \/ /\ interrupted \/ notifier.attempt = "open"
        /\ FinishWith("stopped") /\ UNCHANGED <<boundary, routing, asks, steered>>
  /\ UNCHANGED <<loopFrame, callVars>>

\* A route of Auto mode: a direct answer is sealed, a mode starts the steps.
Route ==
  /\ pc = "respond" /\ routing
  /\ \/ TakeAt("seal") /\ UNCHANGED routing
     \/ NextStep /\ routing' = FALSE
  /\ UNCHANGED <<loopFrame, callVars, asks, steered, result, notifier>>

\* A text response: handleTextResponse sends it back over open obligations,
\* pauses the turn, or takes it for the final answer (a plan is sealed at once).
TextResponse ==
  /\ pc = "respond" /\ ~routing
  /\ asks' = FALSE
  /\ \/ NextStep /\ UNCHANGED result
     \/ TakeAt("before_final") /\ UNCHANGED result
     \/ TakeAt("seal") /\ UNCHANGED result
     \/ FinishWith("stopped") /\ UNCHANGED boundary
  /\ UNCHANGED <<loopFrame, callVars, routing, steered, notifier>>

\* The delivery challenge sends a final answer back once more.
Challenge ==
  /\ pc = "challenge"
  /\ NextStep \/ TakeAt("seal")
  /\ UNCHANGED <<loopFrame, callVars, flowVars, notifier>>

Answer ==
  /\ pc = "answer"
  /\ FinishWith("answered")
  /\ UNCHANGED <<loopFrame, callVars, boundary, routing, asks, steered, notifier>>

\* Tool calls; a plan proposal or a question counts only as a single call.
ToolResponse ==
  /\ pc = "respond" /\ ~routing
  /\ openCalls' \in 1 .. MaxCalls /\ abandoned' = FALSE
  /\ asks' \in BOOLEAN /\ (asks' => openCalls' = 1)
  /\ steered' = FALSE
  /\ Goto("calls")
  /\ UNCHANGED <<loopFrame, boundary, routing, result, notifier>>

\* executeToolCalls looks for pending messages before every call.
SkipCalls ==
  /\ pc = "calls" /\ openCalls > 0 /\ pending # <<>>
  /\ steered' = TRUE
  /\ Goto("skip")
  /\ UNCHANGED <<loopFrame, callVars, boundary, routing, asks, result, notifier>>

\* skipCallsForSteering closes every remaining call, then drains.
CloseSkippedCall ==
  /\ pc = "skip" /\ openCalls > 0
  /\ openCalls' = openCalls - 1
  /\ UNCHANGED <<loopFrame, abandoned, pc, boundary, flowVars, notifier>>

\* Mutant: The boundary comes before the skipped calls are closed.
TakeBeforeClosing ==
  /\ pc = "skip"
  /\ TakeAt("skipped")
  /\ UNCHANGED <<loopFrame, callVars, flowVars, notifier>>

TakeAfterSkipping ==
  /\ pc = "skip" /\ openCalls = 0
  /\ TakeAt("skipped")
  /\ UNCHANGED <<loopFrame, callVars, flowVars, notifier>>

\* A waiting tool (poll_command, ask_user) holds a steering attempt.
BeginCall(waits) ==
  /\ pc = "calls" /\ openCalls > 0 /\ pending = <<>>
  /\ notifier' = IF waits THEN OpenAttempt(notifier) ELSE notifier
  /\ Goto("calling")
  /\ UNCHANGED <<loopFrame, callVars, boundary, flowVars>>

\* The result is journaled; onToolCompleted then saves a checkpoint, which
\* throws when the memory's history and the journal's have forked.
EndCall ==
  /\ pc = "calling"
  /\ openCalls' = openCalls - 1
  /\ asks' \in {asks, FALSE}
  /\ notifier' = Dispose(notifier)
  /\ IF forked THEN FinishWith("stopped") ELSE Goto("calls") /\ UNCHANGED result
  /\ UNCHANGED <<loopFrame, abandoned, boundary, routing, steered>>

BatchEnds ==
  /\ pc = "calls" /\ openCalls = 0
  /\ Goto("settle")
  /\ UNCHANGED <<loopFrame, callVars, boundary, flowVars, notifier>>

\* settleToolBatch: an environment fault pauses the turn, an applied message
\* restarts the step, and otherwise the batch is a boundary of its own.
SettleToolBatch ==
  /\ pc = "settle"
  /\ \/ FinishWith("stopped") /\ UNCHANGED boundary
     \/ steered /\ NextStep /\ UNCHANGED result
     \/ ~steered /\ TakeAt("between_tools") /\ UNCHANGED result
  /\ UNCHANGED <<loopFrame, callVars, routing, asks, steered, notifier>>

\* finish appends turn.completed, even over calls that have no result; where the conversation does not end with an
\* assistant text it appends one, which forks a history that missed a message.
TurnCompleted ==
  /\ pc = "finishing"
  /\ activeTurn' = 0 /\ outcome' = result
  /\ abandoned' = (openCalls > 0)
  /\ forked' = (forked \/ (heard # told /\ (routing \/ asks \/ boundary \notin {"before_final", "seal"})))
  /\ Goto("idle")
  /\ UNCHANGED <<inboxVars, sealed, turns, openCalls, peerVars, boundary, todo, hand, heard, known,
                 images, flowVars, interrupted, notifier, crashes>>

-----------------------------------------------------------------------------
Crash ==
  /\ pc # "dead" /\ crashes < MaxCrashes
  /\ crashes' = crashes + 1
  /\ Goto("dead")
  /\ boundary' = "before_model" /\ todo' = {} /\ hand' = NoBatch
  /\ heard' = <<>> /\ forked' = FALSE /\ known' = 0 /\ images' = 0
  /\ routing' = FALSE /\ asks' = FALSE /\ steered' = FALSE /\ result' = "none"
  /\ interrupted' = FALSE /\ notifier' = NewNotifier
  /\ UNCHANGED <<inboxVars, turnVars, callVars, peerVars>>

\* Mutant: The journal's applied messages are left out of the restored conversation.
RestartForgets ==
  /\ pc = "dead"
  /\ heard' = <<>> /\ known' = watermark
  /\ IF activeTurn = 0 THEN UNCHANGED <<activeTurn, callVars, outcome>>
     ELSE activeTurn' = 0 /\ openCalls' = 0 /\ abandoned' = FALSE /\ outcome' = "stopped"
  /\ Goto("idle")
  /\ UNCHANGED <<inboxVars, sealed, turns, peerVars, boundary, todo, hand, forked, images,
                 flowVars, interrupted, notifier, crashes>>

\* The thread is opened again: the state is folded from the journal, and
\* repairInterruptedTurn closes an active turn and its open tool calls.
Restart ==
  /\ pc = "dead"
  /\ heard' = told /\ known' = watermark
  /\ IF activeTurn = 0 THEN UNCHANGED <<activeTurn, callVars, outcome>>
     ELSE activeTurn' = 0 /\ openCalls' = 0 /\ abandoned' = FALSE /\ outcome' = "stopped"
  /\ Goto("idle")
  /\ UNCHANGED <<inboxVars, sealed, turns, peerVars, boundary, todo, hand, forked, images,
                 flowVars, interrupted, notifier, crashes>>

Drain == BeginAdmission \/ AdmitPeer \/ Acknowledge \/ DrainBatch \/ DrainNothing \/ Apply \/ ApplyFails

Step ==
  \/ BeginStep \/ StopAtStep \/ MaintainContext \/ RequestModel \/ DecideLocally \/ RouteLocally \/ RequestEnds
  \/ Route \/ TextResponse \/ Challenge \/ Answer
  \/ ToolResponse \/ SkipCalls \/ CloseSkippedCall \/ TakeAfterSkipping
  \/ (\E waits \in BOOLEAN : BeginCall(waits)) \/ EndCall \/ BatchEnds \/ SettleToolBatch
  \/ TurnCompleted

Next ==
  \/ Drain \/ Step
  \/ \E m \in Adjustments : Submit(m)
  \/ \E m \in Peers : Send(m)
  \/ \E auto \in BOOLEAN : StartTurn(auto)
  \/ Interrupt
  \/ Crash \/ Restart

\* The loop of a live process goes on: requests and tools have timeouts.
\* Nothing obliges the user to start a turn, or a dead process to come back.
Spec == Init /\ [][Next]_vars /\ WF_vars(Drain \/ Step)

-----------------------------------------------------------------------------
(* Properties *)

\* An adjustment in the journal never waits behind a provider request or a
\* waiting tool: whatever order enqueue, drain, consume, retries and restarts
\* came in, an attempt that runs un-aborted has no adjustment left to apply.
NoDeafAttempt ==
  notifier.attempt = "open" => \A i \in DOMAIN pending : pending[i].source # "user_adjust"

\* The conversation the model is sent agrees with the journal's history: the
\* only messages it may lack are those of the batch drained and about to be
\* applied, unless the images of the applied ones exceed the limit of a turn.
ConversationKeepsUp ==
  pc # "dead" /\ Fills(told) <= MaxTurnImages => heard \o hand.ids = told

\* A message joins the history only between complete exchanges: no tool call
\* of the model is left without a result before it, unless an earlier turn
\* ended over it, as only a turn does whose conversation in memory had left
\* the journal's behind.
ProtocolClosed ==
  [][/\ told' # told => openCalls = 0 \/ abandoned
     /\ abandoned' /\ ~abandoned => forked]_vars

\* Exactly-once, in-order delivery: see SteeringInbox.
Inbox == INSTANCE SteeringInbox WITH
  Writing <- Messages,
  accepted <- Accepted,
  delivered <- told,
  turn <- IF activeTurn = 0 THEN "none" ELSE IF sealed THEN "closed" ELSE "running"
DeliversInOrder == Inbox!Spec

\* A peer's message that arrives while the turn runs reaches the history, unless
\* the turn ends first (admitPeerMessages).
PeerMessageIsDelivered ==
  \A m \in Peers : (m \in ToSet(inbox) /\ activeTurn # 0) ~> (m \in ToSet(told) \/ activeTurn = 0 \/ pc = "dead")

\* No checkpoint meets a history that is not a prefix of the journal's.
CheckpointAgrees == ~forked
=============================================================================
