----------------------- MODULE CompactionTransaction -----------------------
(***************************************************************************)
(* Context maintenance of one thread: the compaction transaction           *)
(* (runCompactionTransaction), automatic before a request to the model or   *)
(* manual, with the deterministic recovery behind it.                      *)
(*                                                                         *)
(* The transaction lives in the journal. Every step is one event, accepted *)
(* by the fold of the journal (foldCompactionControl and its neighbours,   *)
(* run by appendEvent before it writes) and then folded into memory by the *)
(* same code: one action per event, since the process may die after each.  *)
(* The fold compares digests of the facts the summary was made for, so     *)
(* what memory and journal know must agree. Facts change while a request   *)
(* is under way (a child works) or while the loop prepares one; the rest   *)
(* runs without a wait. Whether something fits a window, and whether a     *)
(* summary is worth its size, depends on text: either way is possible.     *)
(***************************************************************************)
EXTENDS Naturals, FiniteSets

CONSTANTS
  Retain,      \* compactionRetainRecentExchanges
  MaxAttempts, \* modelContentRetries + 1
  MaxHistory,  \* bound: exchanges of the history
  MaxFacts,    \* bound: changes of the facts
  MaxCrashes   \* bound: crashes of the process

VARIABLES
  history,    \* journal: complete exchanges
  facts,      \* journal: version of the facts a summary must agree with
  queued,     \* journal: an adjustment waits (pendingSteering)
  known,      \* memory: pendingSteering
  compacted,  \* journal: compactedMessageCount
  summary,    \* journal: workingSummary is a model's
  referenced, \* journal: all tool outputs of the history are references
  reset,      \* journal: the reset of this user request is used (serverReset)
  rebased,    \* journal: its rebase is used
  checked,    \* journal: the last maintenance decision
  tx,         \* journal: compactionControl.transaction
  stage, run, \* memory: where the process is, and the TransactionRun
  crashes

journal == <<history, facts, queued, compacted, summary, referenced, reset, rebased, checked, tx>>
shape == <<history, facts, queued, known, summary, referenced, reset, rebased>>
vars == <<journal, known, stage, run, crashes>>

NoDigest == <<>>
Digest(pending) == <<history, facts, pending>>
Bodies == {"none", "formal", "body", "empty"}
Steps == {"dead", "idle", "retry", "preparing", "preflight", "gate", "boundary", "open", "collect", "attempt",
          "asking", "accept", "commit", "recover", "finish", "paused", "refused"}
NoTransaction ==
  [pending |-> FALSE, manual |-> FALSE, start |-> 0, end |-> 0, attempts |-> 0, answered |-> 0,
   candidate |-> "none", body |-> FALSE, feedback |-> FALSE, semantic |-> FALSE, snapshot |-> NoDigest]
NoRun ==
  [manual |-> FALSE, requests |-> 0, committed |-> FALSE, end |-> 0, snapshot |-> NoDigest, stop |-> FALSE,
   key |-> <<0, FALSE, 0>>]
NoCheck == [history |-> 0, key |-> <<0, FALSE, 0>>, paused |-> FALSE]

TypeOK ==
  /\ history \in 0..MaxHistory /\ facts \in 0..MaxFacts /\ crashes \in 0..MaxCrashes
  /\ queued \in BOOLEAN /\ known \in BOOLEAN /\ referenced \in BOOLEAN /\ reset \in BOOLEAN /\ rebased \in BOOLEAN
  /\ compacted \in 0..history /\ summary \in BOOLEAN
  /\ tx.pending \in BOOLEAN
  /\ tx.start <= tx.end /\ tx.end <= history /\ tx.candidate \in Bodies
  /\ tx.answered <= tx.attempts /\ tx.attempts <= MaxAttempts
  /\ stage \in Steps

Init ==
  /\ history = 0 /\ facts = 0 /\ queued = FALSE /\ known = FALSE
  /\ compacted = 0 /\ summary = FALSE /\ referenced = FALSE /\ reset = FALSE /\ rebased = FALSE
  /\ checked = NoCheck /\ tx = NoTransaction
  /\ stage = "idle" /\ run = NoRun /\ crashes = 0

Pending == tx.pending
Goto(step) == stage' = step
\* contextRequestKey: what changes of the envelope of the next request.
Key == <<compacted, referenced, facts>>

-----------------------------------------------------------------------------
(* The journal's fold *)

\* An event that the fold refuses throws, and the turn fails.
Emit(accepted, new, next) ==
  IF accepted THEN tx' = new /\ Goto(next) ELSE UNCHANGED tx /\ Goto("refused")

\* A transaction that is committed or superseded is of no more use.
Superseded == NoTransaction

\* foldCompactionControl, "context.compaction.started".
Startable(new) ==
  /\ ~Pending /\ new.start = compacted /\ new.end > new.start /\ new.end <= history
  /\ new.snapshot = Digest(queued)

\* replayCompactionCommit. "accepted" has cleared the feedback.
Committable(digest) ==
  /\ Pending /\ tx.start = compacted
  /\ tx.candidate # "none" /\ ~tx.feedback /\ tx.semantic
  /\ digest = tx.snapshot /\ Digest(queued) = tx.snapshot

\* foldPressureRecovery: its facts hash is the journal's as well.
Evictable(end, rebase) ==
  /\ end >= compacted /\ queued = known
  /\ IF rebase THEN end = history /\ end > compacted /\ ~rebased ELSE end < history

-----------------------------------------------------------------------------
(* The agent loop around it *)

Quiet == UNCHANGED <<compacted, checked, tx, run, crashes>>

\* Children, commands and tools change the facts while the loop waits.
ChangeFacts ==
  /\ stage \in {"idle", "preparing", "asking"} /\ ~run.manual /\ facts < MaxFacts
  /\ facts' = facts + 1
  /\ UNCHANGED <<history, queued, known, summary, referenced, reset, rebased, stage>> /\ Quiet

\* An exchange with the model; its tool outputs are whole.
Exchange ==
  /\ stage = "idle" /\ history < MaxHistory - (IF queued THEN 1 ELSE 0)
  /\ history' = history + 1 /\ referenced' = FALSE
  /\ UNCHANGED <<facts, queued, known, summary, reset, rebased, stage>> /\ Quiet

\* submitAdjustment: refused while a compaction has been announced.
Queue ==
  /\ stage \in {"idle", "preparing"} /\ ~queued /\ history < MaxHistory
  /\ queued' = TRUE
  /\ UNCHANGED <<history, facts, known, summary, referenced, reset, rebased, stage>> /\ Quiet

\* A step of the loop drains the queue, then waits for memories and retrieval.
\* A new requirement of the user allows another reset and rebase.
BeginStep ==
  /\ stage \in {"idle", "retry"}
  /\ IF queued THEN /\ history' = history + 1 /\ queued' = FALSE /\ known' = FALSE
                    /\ reset' = FALSE /\ rebased' = FALSE
     ELSE UNCHANGED <<history, queued, known, reset, rebased>>
  /\ Goto("preparing")
  /\ UNCHANGED <<facts, summary, referenced>> /\ Quiet

Maintain ==
  /\ stage = "preparing"
  /\ run' = [NoRun EXCEPT !.key = Key] /\ Goto("preflight")
  /\ UNCHANGED <<journal, known, crashes>>

\* runManualCompaction, between turns: an interrupted attempt must not impose its
\* boundary, and tool outputs are referenced first.
Compact ==
  /\ stage = "idle" /\ compacted < history /\ queued = known
  /\ run' = [NoRun EXCEPT !.manual = TRUE, !.key = Key]
  /\ referenced' \in {referenced, TRUE}
  /\ tx' = Superseded /\ Goto("boundary")
  /\ UNCHANGED <<history, facts, queued, known, summary, reset, rebased, compacted, checked, crashes>>

\* The step goes on: after maintenance that did something it begins again.
LetThrough ==
  Goto(IF run.manual THEN "idle" ELSE IF run.committed \/ run.requests > 0 THEN "retry" ELSE "idle")
Settle == LetThrough /\ run' = NoRun
EndTurn ==
  /\ stage \in {"paused", "refused"}
  /\ Goto("idle") /\ run' = NoRun
  /\ UNCHANGED <<journal, known, crashes>>

-----------------------------------------------------------------------------
(* preflight *)

\* A manual transaction that was interrupted does not bind automatic maintenance.
DropManual ==
  /\ stage = "preflight" /\ Pending /\ tx.manual
  /\ Emit(TRUE, Superseded, "preflight")
  /\ UNCHANGED <<shape, compacted, checked, run, crashes>>

\* The same history and request as at the last decision.
Unchanged ==
  checked.history = history /\ checked.key = run.key /\ history > 0 /\ ~Pending
SkipUnchanged ==
  /\ stage = "preflight" /\ ~(Pending /\ tx.manual) /\ Unchanged
  /\ \/ Settle
     \/ checked.paused /\ Goto("paused") /\ run' = NoRun
     \/ ~checked.paused /\ Goto("recover") /\ UNCHANGED run
  /\ UNCHANGED <<journal, known, crashes>>

\* referenceToolOutputs, if that makes the request smaller.
Reference ==
  /\ stage = "preflight" /\ ~(Pending /\ tx.manual) /\ ~Unchanged
  /\ compacted < history /\ ~referenced
  /\ IF Evictable(compacted, FALSE)
     THEN referenced' = TRUE /\ run' = [run EXCEPT !.committed = TRUE] /\ Goto("gate")
     ELSE Goto("refused") /\ UNCHANGED <<referenced, run>>
  /\ UNCHANGED <<history, facts, queued, known, summary, reset, rebased, compacted, checked, tx, crashes>>
ReferenceNothing ==
  /\ stage = "preflight" /\ ~(Pending /\ tx.manual) /\ ~Unchanged
  /\ Goto("gate")
  /\ UNCHANGED <<journal, known, run, crashes>>

\* Too little growth or pressure, or the target is reached; a pending
\* transaction goes on; facts that must be reconciled forbid a summary.
Gate ==
  /\ stage = "gate"
  /\ \/ ~Pending /\ (IF run.committed THEN Goto("finish") /\ UNCHANGED run ELSE Settle)
     \/ Goto("recover") /\ reset /\ UNCHANGED run
     \/ Goto("boundary") /\ UNCHANGED run
  /\ UNCHANGED <<journal, known, crashes>>

-----------------------------------------------------------------------------
(* The transaction *)

\* selectSummaryBoundary: everything, the pending boundary, or an old prefix
\* that leaves the recent exchanges alone.
Boundaries ==
  IF run.manual THEN {history} ELSE IF Pending THEN {tx.end} ELSE {e \in 1..history : e > compacted /\ e + Retain <= history}
SelectBoundary ==
  /\ stage = "boundary"
  /\ \/ \E end \in Boundaries : run' = [run EXCEPT !.end = end] /\ Goto("open")
     \/ Goto("recover") /\ UNCHANGED run
  /\ UNCHANGED <<journal, known, crashes>>

Start ==
  /\ stage = "open" /\ ~Pending
  /\ LET new == [NoTransaction EXCEPT !.pending = TRUE, !.manual = run.manual, !.start = compacted,
                   !.end = run.end, !.snapshot = Digest(known)]
     IN  Emit(Startable(new), new, "open")
  /\ UNCHANGED <<shape, compacted, checked, run, crashes>>

NoBudget ==
  /\ stage = "open" /\ ~Pending /\ ~run.manual
  /\ Goto("recover")
  /\ UNCHANGED <<journal, known, run, crashes>>

\* Mutant: an attempt without an answer is taken for one that failed.
ResumeAsksAgain ==
  /\ stage = "open" /\ Pending
  /\ IF tx.start # compacted THEN Goto("recover") /\ UNCHANGED <<tx, run>>
     ELSE /\ run' = [run EXCEPT !.snapshot = Digest(known)]
          /\ IF tx.snapshot = Digest(known) THEN UNCHANGED tx /\ Goto("collect")
             ELSE Emit(Digest(known) = Digest(queued),
                       [tx EXCEPT !.snapshot = Digest(known), !.feedback = TRUE], "collect")
  /\ UNCHANGED <<shape, compacted, checked, crashes>>

\* openTransaction, collectSummary: a request whose answer was lost is never
\* sent again; changed facts are recorded.
Resume ==
  /\ stage = "open" /\ Pending
  /\ IF (tx.attempts > 0 /\ tx.candidate = "none") \/ tx.start # compacted
     THEN Goto("recover") /\ UNCHANGED <<tx, run>>
     ELSE /\ run' = [run EXCEPT !.snapshot = Digest(known), !.stop = tx.attempts > tx.answered]
          /\ IF tx.snapshot = Digest(known) THEN UNCHANGED tx /\ Goto("collect")
             ELSE Emit(Digest(known) = Digest(queued),
                       [tx EXCEPT !.snapshot = Digest(known), !.feedback = TRUE], "collect")
  /\ UNCHANGED <<shape, compacted, checked, crashes>>

\* validateCandidate: "prepared", or "rejected" with the correction to make.
Validate ==
  /\ stage = "collect" /\ tx.candidate # "none" /\ ~run.stop
  /\ IF tx.candidate = "formal"
     THEN Emit(Pending, [tx EXCEPT !.semantic = TRUE], "accept")
     ELSE Emit(Pending, [tx EXCEPT !.feedback = TRUE], "attempt")
  /\ UNCHANGED <<shape, compacted, checked, run, crashes>>

Spent == run.stop \/ tx.attempts >= MaxAttempts \/ (run.manual /\ run.requests >= 2)
Asks == stage = "attempt" \/ (stage = "collect" /\ (tx.candidate = "none" \/ run.stop))

\* The last body is used as it is, in automatic maintenance only.
Salvage ==
  /\ Asks /\ Spent
  /\ IF run.manual \/ ~tx.body THEN Goto("recover") /\ UNCHANGED tx
     ELSE Emit(Pending, [tx EXCEPT !.semantic = TRUE], "accept")
  /\ UNCHANGED <<shape, compacted, checked, run, crashes>>

\* The shared budget is used up, or the request itself does not fit.
CannotAsk ==
  /\ Asks /\ ~Spent
  /\ Goto("recover")
  /\ UNCHANGED <<journal, known, run, crashes>>

\* "attempt" is in the journal before the request is sent.
Ask ==
  /\ Asks /\ ~Spent
  /\ Emit(Pending, [tx EXCEPT !.attempts = @ + 1], "asking")
  /\ run' = [run EXCEPT !.requests = @ + 1]
  /\ UNCHANGED <<shape, compacted, checked, crashes>>

\* Mutant: the facts are not compared when the answer is there.
AnswerIgnoresFacts ==
  /\ stage = "asking"
  /\ IF ~Pending THEN Goto("finish") /\ UNCHANGED tx
     ELSE \E content \in Bodies \ {"none"} :
            Emit(TRUE, [tx EXCEPT !.candidate = content, !.answered = tx.attempts, !.feedback = FALSE,
                          !.body = @ \/ content # "empty"], "collect")
  /\ UNCHANGED <<shape, compacted, checked, run, crashes>>

\* The answer: discarded when a reset has superseded the transaction or the
\* facts have changed. Steering was applied before it is looked at.
Answer ==
  /\ stage = "asking"
  /\ LET gone == ~Pending
         stale == tx.snapshot # Digest(known)
     IN  IF gone THEN Goto("finish") /\ UNCHANGED tx
         ELSE IF stale THEN Goto("recover") /\ UNCHANGED tx
         ELSE \E content \in Bodies \ {"none"} :
                Emit(TRUE, [tx EXCEPT !.candidate = content, !.answered = tx.attempts, !.feedback = FALSE,
                              !.body = @ \/ content # "empty"], "collect")
  /\ UNCHANGED <<shape, compacted, checked, run, crashes>>

\* The provider refuses the size of the request: requirements-only reset, and the
\* same request again, reduced.
ResetInRequest ==
  /\ stage = "asking" /\ ~run.manual /\ ~reset
  /\ reset' = TRUE /\ compacted' = history /\ summary' = FALSE
  /\ tx' = Superseded /\ checked' = NoCheck
  /\ UNCHANGED <<history, facts, queued, known, referenced, rebased, stage, run, crashes>>

\* The transport fails, however often it was tried: the last body will do.
TransportFails ==
  /\ stage = "asking"
  /\ IF ~Pending THEN Goto("finish") /\ UNCHANGED <<tx, run>>
     ELSE /\ Emit(TRUE, [tx EXCEPT !.feedback = TRUE], "collect")
          /\ run' = [run EXCEPT !.stop = TRUE]
  /\ UNCHANGED <<shape, compacted, checked, crashes>>

CapacityFails ==
  /\ stage = "asking"
  /\ Goto("recover")
  /\ UNCHANGED <<journal, known, run, crashes>>

\* Aborted, or an error that must stay visible: the turn ends. Manual
\* compaction abandons its transaction.
Abort ==
  /\ stage = "asking"
  /\ Goto("idle") /\ run' = NoRun
  /\ tx' = IF run.manual THEN Superseded ELSE tx
  /\ UNCHANGED <<shape, compacted, checked, crashes>>

-----------------------------------------------------------------------------
(* commitSummary *)

\* Too large or without benefit.
Decline ==
  /\ stage = "accept"
  /\ \/ run.manual /\ Emit(Pending, Superseded, "finish")
     \/ Emit(Pending, [tx EXCEPT !.feedback = TRUE], "recover")
  /\ UNCHANGED <<shape, compacted, checked, run, crashes>>

Accept ==
  /\ stage = "accept"
  /\ Emit(Pending /\ tx.semantic, [tx EXCEPT !.feedback = FALSE], "commit")
  /\ UNCHANGED <<shape, compacted, checked, run, crashes>>

Commit ==
  /\ stage = "commit"
  /\ IF Committable(run.snapshot)
     THEN /\ compacted' = tx.end /\ summary' = TRUE
          /\ tx' = NoTransaction
          /\ run' = [run EXCEPT !.committed = TRUE] /\ Goto("finish")
     ELSE Goto("refused") /\ UNCHANGED <<compacted, summary, tx, run>>
  /\ UNCHANGED <<history, facts, queued, known, referenced, reset, rebased, checked, crashes>>

-----------------------------------------------------------------------------
(* recover and finish *)

\* Manual compaction reports the failure.
RecoverManual ==
  /\ stage = "recover" /\ run.manual
  /\ tx' = Superseded /\ Goto("idle") /\ run' = NoRun
  /\ UNCHANGED <<shape, compacted, checked, crashes>>

\* recoverContextPressure: old history goes without a summary, or all of it once.
Evict ==
  /\ stage = "recover" /\ ~run.manual
  /\ \E end \in compacted..history, rebase \in BOOLEAN :
       /\ IF rebase THEN ~rebased /\ end = history /\ compacted < history
          ELSE end < history /\ (end = compacted => ~referenced \/ summary)
       /\ IF Evictable(end, rebase)
          THEN /\ compacted' = end /\ summary' = FALSE /\ referenced' = TRUE
               /\ rebased' = (rebased \/ rebase)
               /\ tx' = Superseded /\ run' = [run EXCEPT !.committed = TRUE] /\ Goto("finish")
          ELSE Goto("refused") /\ UNCHANGED <<compacted, summary, referenced, rebased, tx, run>>
  /\ UNCHANGED <<history, facts, queued, known, reset, checked, crashes>>

\* A missed target does not stop a request that fits.
AbandonAndGoOn ==
  /\ stage = "recover" /\ ~run.manual
  /\ tx' = Superseded /\ Goto("finish")
  /\ UNCHANGED <<shape, compacted, checked, run, crashes>>

Reset ==
  /\ stage = "recover" /\ ~run.manual /\ ~reset
  /\ reset' = TRUE /\ compacted' = history /\ summary' = FALSE
  /\ tx' = Superseded /\ checked' = NoCheck
  /\ run' = [run EXCEPT !.committed = TRUE]
  /\ \E fits \in BOOLEAN : IF fits THEN Goto("finish") ELSE Goto("recover")
  /\ UNCHANGED <<history, facts, queued, known, referenced, rebased, crashes>>

Pause ==
  /\ stage = "recover" /\ ~run.manual /\ reset
  /\ checked' = [history |-> history, key |-> run.key, paused |-> TRUE]
  /\ Goto("paused") /\ run' = NoRun
  /\ UNCHANGED <<shape, compacted, tx, crashes>>

\* Mutant: the decision is not recorded.
FinishForgets ==
  /\ stage = "finish"
  /\ Settle
  /\ UNCHANGED <<journal, known, crashes>>

\* "context.maintenance.checked"
Finish ==
  /\ stage = "finish"
  /\ checked' = [history |-> history, key |-> run.key, paused |-> FALSE]
  /\ Settle
  /\ UNCHANGED <<shape, compacted, tx, crashes>>

-----------------------------------------------------------------------------
Crash ==
  /\ stage # "dead" /\ crashes < MaxCrashes
  /\ crashes' = crashes + 1 /\ Goto("dead") /\ run' = NoRun
  /\ UNCHANGED <<journal, known>>

\* The thread is recovered from its journal.
Restart ==
  /\ stage = "dead"
  /\ Goto("idle") /\ known' = queued
  /\ UNCHANGED <<journal, run, crashes>>

Work ==
  \/ Maintain \/ DropManual \/ SkipUnchanged \/ Reference \/ ReferenceNothing \/ Gate
  \/ SelectBoundary \/ Start \/ NoBudget \/ Resume \/ Validate \/ Salvage \/ CannotAsk \/ Ask
  \/ Answer \/ ResetInRequest \/ TransportFails \/ CapacityFails \/ Abort
  \/ Decline \/ Accept \/ Commit \/ RecoverManual \/ Evict \/ AbandonAndGoOn \/ Reset \/ Pause \/ Finish
  \/ (stage = "retry" /\ BeginStep)

Next ==
  \/ Work \/ BeginStep \/ Compact \/ EndTurn
  \/ ChangeFacts \/ Exchange \/ Queue \/ Crash \/ Restart

\* Requests have timeouts, and the rest does not wait.
Spec == Init /\ [][Next]_vars /\ WF_vars(Work)

-----------------------------------------------------------------------------
\* The journal takes every event that maintenance derives from memory, so no turn
\* fails on its own bookkeeping, with two exceptions: an adjustment was queued since
\* the last drain, or facts changed during a request that failed.
JournalAcceptsEvents ==
  stage = "refused" => queued # known \/ (run.stop /\ tx.snapshot # Digest(known))

\* What the comment at src/src/runtime/context-maintenance.ts:290 says: an
\* adjustment queued just before maintenance waits until the summary is there.
AdjustmentIsNoObstacle == stage = "refused" => queued = known

\* A request whose answer is not known (the process died, or the transport failed)
\* is never sent again for the same transaction, by whichever process resumes it.
NeverAskedAgain ==
  [][run'.requests > run.requests => tx.attempts = tx.answered]_vars

\* A step of the loop gets through maintenance: rounds of it that change nothing
\* are not repeated (the recorded decision, the hysteresis), so it ends in a
\* request, a pause, an error or a crash.
StepGoesOn == stage = "preparing" ~> stage \in {"idle", "paused", "refused", "dead"}

=============================================================================
