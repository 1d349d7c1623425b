--------------------------- MODULE CommandRuntime ---------------------------
(***************************************************************************)
(* Commands from request to result (CommandRuntime, CommandProcessRun,     *)
(* ExecutionJournal) on POSIX, in the processes that share a workspace.    *)
(* Each command holds a lease file from its preparation until its outcome  *)
(* and its cleanup are known; an unfinished lease and the quarantine       *)
(* marker stop further commands, in this process and in the others, until  *)
(* SandboxRecovery removes what it can prove harmless. A command runs in a *)
(* worker process that reports on a pipe: a sandboxed job, a sandboxed     *)
(* service, or the target itself on the host.                              *)
(*                                                                         *)
(* "running" and "ran" are the truth about the target, which the program   *)
(* never sees; every other field is what it knows.                         *)
(***************************************************************************)
EXTENDS Naturals, FiniteSets

CONSTANTS
  Commands,
  Processes, \* processes of the program with this workspace open
  MaxFaults, \* bound: crashes, failed steps, lost reports
  MaxTurns,  \* bound: turns of each process
  MaxBusy    \* bound: commands under way at once

VARIABLES
  cmd,       \* the commands
  leases,    \* lease files in the command-leases directory
  marker,    \* the quarantine file exists
  recovery,  \* recovery.lock exists: a recovery died
  reason,    \* quarantineReason of each process
  up,        \* the processes that run
  turn,      \* the turn of each process's conversation: "idle" or "running"
  turns, faults

disk == <<leases, marker, recovery>>
vars == <<cmd, disk, reason, up, turn, turns, faults>>

Kinds == {"job", "service", "host"}
Outcomes == {"exited", "timed_out", "canceled", "spawn_failed", "unknown"}
Controls == Outcomes \cup {"sent", "started", "spawn_error"}
Stages == {"none", "deciding", "preparing", "prepared", "supervised",
           "cleaned", "recorded", "closed", "lost"}

NewCommand ==
  [ stage |-> "none", home |-> CHOOSE p \in Processes : TRUE, kind |-> "host",
    handle |-> "foreground",  \* or "pending", "open", "seen": a background command
    attached |-> FALSE,       \* the turn that asked for it can still abort it
    aborted |-> FALSE,        \* its abort signal
    worker |-> "none", running |-> FALSE, ran |-> FALSE,
    events |-> {},            \* its lifecycle journal
    finished |-> "no",        \* the status of the journalled outcome
    phase |-> "none",         \* the deadline that passed
    stop |-> "no",            \* "waiting" and "asked" are cooperative stops
    term |-> "none",          \* the result of a forced stop
    error |-> FALSE, confirmed |-> FALSE, protocol |-> FALSE,
    report |-> "none" ]       \* lifecycle.execution of the result

TypeOK ==
  /\ DOMAIN cmd = Commands
  /\ \A c \in Commands :
       /\ cmd[c].stage \in Stages
       /\ cmd[c].home \in Processes
       /\ cmd[c].kind \in Kinds
       /\ cmd[c].handle \in {"foreground", "pending", "open", "seen"}
       /\ cmd[c].worker \in {"none", "booting", "executing", "exiting", "gone"}
       /\ cmd[c].events \subseteq Controls
       /\ cmd[c].finished \in {"no", "spawn_failed", "other"}
       /\ cmd[c].phase \in {"none", "initialization", "command", "cleanup"}
       /\ cmd[c].stop \in {"no", "waiting", "asked", "forced"}
       /\ cmd[c].term \in {"none", "confirmed", "unconfirmed"}
       /\ cmd[c].report \in {"none", "not_started", "exited", "unknown"}
  /\ leases \subseteq Commands
  /\ marker \in BOOLEAN /\ recovery \in BOOLEAN
  /\ reason \in [Processes -> BOOLEAN] /\ up \subseteq Processes
  /\ turn \in [Processes -> {"idle", "running"}]
  /\ turns \in [Processes -> 0..MaxTurns] /\ faults \in 0..MaxFaults

Init ==
  /\ cmd = [c \in Commands |-> NewCommand]
  /\ leases = {} /\ marker = FALSE /\ recovery = FALSE
  /\ reason = [p \in Processes |-> FALSE]
  /\ up = Processes
  /\ turn = [p \in Processes |-> "idle"]
  /\ turns = [p \in Processes |-> 0] /\ faults = 0

Native(c) == cmd[c].kind # "host"
Home(c) == cmd[c].home
At(c, stage) == cmd[c].stage = stage
Fault == faults < MaxFaults /\ faults' = faults + 1
Quarantine(p) == marker' = TRUE /\ reason' = [reason EXCEPT ![p] = TRUE]

-----------------------------------------------------------------------------
(* The environment check *)

\* deterministicNotStartedEvidence: the system refused to create the target.
NotStarted(e, finished) ==
  /\ {"sent", "spawn_error"} \subseteq e /\ finished = "spawn_failed"
  /\ e \cap {"started", "exited", "timed_out", "canceled"} = {}
Evident == {c \in leases : NotStarted(cmd[c].events, cmd[c].finished)}

\* reconcileDeterministicSpawnFailures, before every check. The marker of a
\* quarantine is only removed for failures that Windows reports.
Reconcile(p) ==
  /\ leases' = leases \ Evident
  /\ reason' = IF Evident # {} /\ leases' = {} /\ ~marker
               THEN [reason EXCEPT ![p] = FALSE] ELSE reason

\* Leases this process has no memory of.
Foreign(p, held) == {c \in held : Home(c) # p \/ At(c, "lost")}

\* assertEnvironmentSafe throws.
Unsafe(p, held, why) ==
  why[p] \/ marker \/ recovery \/ Foreign(p, held) # {}

-----------------------------------------------------------------------------
(* From the request to the launch *)

\* environmentFault: the health projection reconciles as well.
Inspect(p) ==
  /\ p \in up /\ Evident # {}
  /\ \A d \in Commands : Home(d) = p => ~At(d, "recorded")
  /\ Reconcile(p)
  /\ UNCHANGED <<cmd, marker, recovery, up, turn, turns, faults>>

\* executeCommand or start, within a turn; the environment is checked here and
\* never again.
Request(c, p) ==
  /\ p \in up /\ turn[p] = "running" /\ At(c, "none")
  /\ Cardinality({d \in Commands : cmd[d].stage \notin {"none", "closed", "lost"}}) < MaxBusy
  /\ \A d \in Commands : Home(d) = p => ~At(d, "recorded")
  /\ Reconcile(p)
  /\ \E kind \in Kinds, handle \in {"foreground", "pending"} :
       cmd' = [cmd EXCEPT ![c] = [cmd[c] EXCEPT !.home = p, !.kind = kind,
                 !.attached = TRUE, !.handle = handle, !.confirmed = (kind = "host"),
                 !.stage = IF Unsafe(p, leases', reason') THEN "closed" ELSE "deciding"]]
  /\ UNCHANGED <<marker, recovery, up, turn, turns, faults>>

\* A command that is over, or whose process died: only its journal, of use while
\* its lease exists, and what still runs of it outlive it.
Forgotten(r) ==
  [r EXCEPT !.kind = "host", !.phase = "none", !.stop = "no", !.term = "none",
            !.error = FALSE, !.confirmed = FALSE, !.protocol = FALSE,
            !.attached = FALSE, !.aborted = FALSE]
Unjournalled(r) == [r EXCEPT !.events = {}, !.finished = "no"]
Close(c, report) ==
  LET r == [Forgotten(cmd[c]) EXCEPT !.stage = "closed", !.report = report,
                                     !.handle = IF @ = "open" THEN @ ELSE "seen"]
  IN  IF c \in leases' THEN r ELSE Unjournalled(r)
Proceed(c, stage) ==
  /\ cmd' = [cmd EXCEPT ![c].stage = stage]
  /\ UNCHANGED <<disk, reason, up, turn, turns, faults>>

\* The approval is refused or unavailable, or what it covered changed meanwhile.
Deny(c) ==
  /\ At(c, "deciding")
  /\ UNCHANGED <<disk, reason, up, turn, turns, faults>>
  /\ cmd' = [cmd EXCEPT ![c] = Close(c, "not_started")]

\* The command is approved, and its material the same as before; then the change
\* tracking, the lease and its journal begin.
Approve(c) ==
  /\ At(c, "deciding") /\ ~cmd[c].aborted
  /\ cmd' = [cmd EXCEPT ![c].stage = "preparing"]
  /\ leases' = leases \cup {c}
  /\ UNCHANGED <<marker, recovery, reason, up, turn, turns, faults>>

Prepare(c) == At(c, "preparing") /\ ~cmd[c].aborted /\ Proceed(c, "prepared")

\* prepare throws; it may not know what it left behind.
PrepareFails(c) ==
  /\ At(c, "preparing")
  /\ \/ leases' = leases \ {c} /\ UNCHANGED <<marker, reason>>
     \/ Quarantine(Home(c)) /\ UNCHANGED leases
  /\ IF cmd[c].aborted THEN UNCHANGED faults ELSE Fault
  /\ UNCHANGED <<recovery, up, turn, turns>>
  /\ cmd' = [cmd EXCEPT ![c] = Close(c, "not_started")]

\* The signal fired before the launch.
CancelPrepared(c) ==
  /\ At(c, "prepared") /\ cmd[c].aborted
  /\ \/ leases' = leases \ {c} /\ UNCHANGED <<marker, reason, faults>>
     \/ Fault /\ Quarantine(Home(c)) /\ UNCHANGED leases
  /\ UNCHANGED <<recovery, up, turn, turns>>
  /\ cmd' = [cmd EXCEPT ![c] = Close(c, "not_started")]

\* announceStarted: the handle of a background command.
Announced(r) == [r EXCEPT !.handle = IF @ = "pending" THEN "open" ELSE @]

\* CommandProcessRun.launch: on the host, the worker is the target.
Launch(c) ==
  /\ At(c, "prepared") /\ ~cmd[c].aborted
  /\ cmd' = [cmd EXCEPT ![c] =
       IF Native(c) THEN [cmd[c] EXCEPT !.stage = "supervised", !.worker = "booting"]
       ELSE Announced([cmd[c] EXCEPT !.stage = "supervised", !.worker = "executing",
                                !.running = TRUE, !.ran = TRUE])]
  /\ UNCHANGED <<disk, reason, up, turn, turns, faults>>

-----------------------------------------------------------------------------
(* The worker *)

\* What the worker reports is journalled by the process that supervises it.
Supervised(c) == At(c, "supervised")
Working(c, at) == Supervised(c) /\ cmd[c].worker = at
Told(r, news) == [r EXCEPT !.events = @ \cup news]
Worker(c, r) ==
  /\ cmd' = [cmd EXCEPT ![c] = r]
  /\ UNCHANGED <<disk, reason, up, turn, turns, faults>>

\* "ready" and "execution_request_sent".
Send(c) ==
  /\ Working(c, "booting")
  /\ Worker(c, Announced(Told([cmd[c] EXCEPT !.worker = "executing"], {"sent"})))

InitializationFails(c) ==
  /\ Working(c, "booting")
  /\ Worker(c, [cmd[c] EXCEPT !.worker = "gone"])

\* "target_started" is reported with the first output, or at the end.
StartTarget(c) ==
  /\ Native(c) /\ Working(c, "executing") /\ ~cmd[c].ran
  /\ \E news \in {{}, {"started"}} :
       Worker(c, Told([cmd[c] EXCEPT !.running = TRUE, !.ran = TRUE], news))

\* Only a service's worker recognises a refused target on POSIX.
RefuseTarget(c) ==
  /\ cmd[c].kind = "service" /\ Working(c, "executing") /\ ~cmd[c].ran
  /\ Worker(c, Told([cmd[c] EXCEPT !.worker = "exiting"], {"spawn_error", "spawn_failed"}))

\* A service's worker asked to stop has its target canceled.
EndTarget(c) ==
  /\ Native(c) /\ Working(c, "executing") /\ cmd[c].running
  /\ \E outcome \in {"exited", "timed_out"} \cup
                    {o \in {"canceled"} : cmd[c].kind = "service" /\ cmd[c].stop = "asked"} :
       Worker(c, Told([cmd[c] EXCEPT !.worker = "exiting", !.running = FALSE],
                      {"started", outcome}))

\* The sandbox service is lost: nothing is known of the target.
LoseTarget(c) ==
  /\ Native(c) /\ Working(c, "executing")
  /\ cmd' = [cmd EXCEPT ![c] =
       Told([cmd[c] EXCEPT !.worker = "exiting", !.error = TRUE], {"unknown"})]
  /\ Fault
  /\ UNCHANGED <<disk, reason, up, turn, turns>>

\* A target on the host ends with its process.
ExitWorker(c) ==
  /\ IF Native(c) THEN Working(c, "exiting") ELSE Working(c, "executing")
  /\ Worker(c, [cmd[c] EXCEPT !.worker = "gone", !.running = @ /\ Native(c)])

\* SIGTERM: a service's worker handles it, a job's does not.
TerminateJob(c) ==
  /\ cmd[c].kind = "job" /\ cmd[c].stop = "asked"
  /\ Supervised(c) /\ cmd[c].worker # "gone"
  /\ Worker(c, [cmd[c] EXCEPT !.worker = "gone"])

\* The worker of a sandboxed command dies on its own.
WorkerDies(c) ==
  /\ Native(c) /\ Supervised(c) /\ cmd[c].worker # "gone"
  /\ cmd' = [cmd EXCEPT ![c].worker = "gone"]
  /\ Fault
  /\ UNCHANGED <<disk, reason, up, turn, turns>>

\* Without its process a worker goes on: its target starts, and ends some day.
StartOrphan(c) ==
  /\ At(c, "lost") /\ cmd[c].worker \in {"booting", "executing"} /\ ~cmd[c].ran
  /\ Worker(c, [cmd[c] EXCEPT !.running = TRUE, !.ran = TRUE])
EndOrphan(c) ==
  /\ cmd[c].running /\ (At(c, "lost") \/ cmd[c].worker = "gone")
  /\ Worker(c, [cmd[c] EXCEPT !.running = FALSE])

-----------------------------------------------------------------------------
(* Supervision *)

\* requestTermination. A sandbox that keeps the command's deadline itself gets
\* one cleanup window before anything is sent to it.
Stop(r) ==
  LET cooperative(how) == IF r.stop = "no" THEN how ELSE r.stop
  IN  [r EXCEPT !.stop =
         IF r.kind = "host" THEN "forced"
         ELSE IF ~r.aborted /\ r.phase = "command" THEN cooperative("waiting")
         ELSE IF ~r.protocol THEN cooperative("asked")
         ELSE "forced"]

\* The abort signal of a command fires; its run listens to it.
Aborted(r) ==
  IF r.aborted \/ r.stage \in {"none", "closed", "lost"} THEN r
  ELSE IF r.stage # "supervised" THEN [r EXCEPT !.aborted = TRUE]
  ELSE IF r.worker = "gone" THEN [r EXCEPT !.aborted = TRUE, !.stop = "forced"]
  ELSE Stop([r EXCEPT !.aborted = TRUE])

\* The deadline of initialization, of the command or of its cleanup passes.
PassDeadline(c) ==
  /\ Supervised(c) /\ cmd[c].worker # "gone"
  /\ cmd[c].stop = "no" \/ (cmd[c].worker = "exiting" /\ cmd[c].stop # "forced" /\ cmd[c].phase # "cleanup")
  /\ LET phase == CASE cmd[c].worker = "booting" -> "initialization"
                    [] cmd[c].worker = "executing" -> "command"
                    [] OTHER -> "cleanup"
     IN  Worker(c, Stop([cmd[c] EXCEPT !.phase = phase, !.error = @ \/ phase = "cleanup"]))

\* A report cannot be read: what the worker did is not known.
GarbleReport(c) ==
  /\ Supervised(c) /\ Native(c)
  /\ \/ /\ cmd[c].worker = "booting"
        /\ cmd' = [cmd EXCEPT ![c] = Stop([cmd[c] EXCEPT !.protocol = TRUE, !.worker = "executing"])]
     \/ /\ cmd[c].worker = "executing" /\ cmd[c].running
        /\ cmd' = [cmd EXCEPT ![c] =
             Stop([cmd[c] EXCEPT !.protocol = TRUE, !.worker = "exiting", !.running = FALSE])]
  /\ Fault
  /\ UNCHANGED <<disk, reason, up, turn, turns>>

\* The cooperative stop takes too long.
ForceStop(c) ==
  /\ Supervised(c) /\ cmd[c].worker # "gone" /\ cmd[c].stop \in {"waiting", "asked"}
  /\ Worker(c, [cmd[c] EXCEPT !.stop = "forced"])

\* terminatePosixProcessTree: a process group that is gone already, or that
\* survives, leaves the termination unconfirmed.
Kill(c) ==
  /\ Supervised(c) /\ cmd[c].stop = "forced" /\ cmd[c].term = "none"
  /\ LET empty == cmd[c].worker = "gone" /\ ~cmd[c].running
     IN  \/ /\ cmd' = [cmd EXCEPT ![c] = [cmd[c] EXCEPT !.worker = "gone", !.running = FALSE,
                         !.term = IF empty THEN "unconfirmed" ELSE "confirmed"]]
            /\ UNCHANGED faults
         \/ /\ ~empty /\ Fault
            /\ cmd' = [cmd EXCEPT ![c] = [cmd[c] EXCEPT !.worker = "gone", !.term = "unconfirmed"]]
  /\ UNCHANGED <<disk, reason, up, turn, turns>>

\* What allows the backend to remove what the command left: a terminal report of
\* the sandbox, a target refused or never asked for, or an empty process tree.
MayCleanUp(r) ==
  /\ r.kind # "host"
  /\ \/ r.events \cap {"exited", "timed_out", "canceled"} # {}
     \/ {"spawn_failed", "spawn_error"} \subseteq r.events /\ "started" \notin r.events
     \/ "sent" \notin r.events /\ ~r.protocol
     \/ r.term = "confirmed"

\* The worker has exited: complete, cleanUp.
CleanUp(c) ==
  /\ Supervised(c) /\ cmd[c].worker = "gone" /\ (cmd[c].stop = "forced" => cmd[c].term # "none")
  /\ LET r == cmd[c]
         error == r.error \/ r.term = "unconfirmed"
     IN  \/ /\ MayCleanUp(r)
            /\ cmd' = [cmd EXCEPT ![c] =
                 [cmd[c] EXCEPT !.stage = "cleaned", !.confirmed = TRUE, !.error = FALSE]]
            /\ IF r.term = "unconfirmed" THEN Quarantine(r.home) ELSE UNCHANGED <<marker, reason>>
            /\ UNCHANGED faults
         \/ /\ MayCleanUp(r) /\ Fault
            /\ cmd' = [cmd EXCEPT ![c] = [cmd[c] EXCEPT !.stage = "cleaned", !.error = TRUE]]
            /\ Quarantine(r.home)
         \/ /\ ~MayCleanUp(r)
            /\ cmd' = [cmd EXCEPT ![c] = [cmd[c] EXCEPT !.stage = "cleaned", !.error = error]]
            /\ IF error \/ ~r.confirmed THEN Quarantine(r.home) ELSE UNCHANGED <<marker, reason>>
            /\ UNCHANGED faults
  /\ UNCHANGED <<leases, recovery, up, turn, turns>>

\* Mutant: an unreadable report counts as no report.
ProvenDespiteProtocol(r) ==
  /\ r.kind # "host" /\ r.confirmed
  /\ ("spawn_error" \in r.events /\ "started" \notin r.events) \/ "sent" \notin r.events

\* report, status: whether the target is proved not to have started.
ProvenNotStarted(r) ==
  /\ r.kind # "host" /\ r.confirmed
  /\ \/ "spawn_error" \in r.events /\ "started" \notin r.events
     \/ "sent" \notin r.events /\ ~r.protocol
SpawnFailed(r) ==
  /\ ~r.aborted /\ ~r.protocol /\ r.phase # "command"
  /\ r.events \cap {"spawn_error", "unknown"} # {}

\* lifecycle
ExecutionState(r) ==
  IF ProvenNotStarted(r) THEN "not_started"
  ELSE IF r.events \cap {"exited", "timed_out", "canceled"} # {} THEN "exited"
  ELSE IF r.kind = "host" /\ r.term = "none" THEN "exited"
  ELSE "unknown"

\* completeCommandChangeTracking, which may fail, and the journalled outcome.
Record(c) ==
  /\ At(c, "cleaned")
  /\ \E tracked \in BOOLEAN :
       /\ cmd' = [cmd EXCEPT ![c] =
            [cmd[c] EXCEPT !.stage = "recorded", !.report = ExecutionState(cmd[c]),
                      !.finished = IF SpawnFailed(cmd[c]) THEN "spawn_failed" ELSE "other",
                      !.error = cmd[c].error \/ ~tracked]]
       /\ IF tracked THEN UNCHANGED <<marker, reason, faults>> ELSE Fault /\ Quarantine(Home(c))
  /\ UNCHANGED <<leases, recovery, up, turn, turns>>

\* Mutant: the lease goes although nothing is known of the process tree.
FinishLeaseAlways(c) ==
  /\ At(c, "recorded")
  /\ leases' = leases \ {c}
  /\ UNCHANGED <<marker, recovery, reason, up, turn, turns, faults>>
  /\ cmd' = [cmd EXCEPT ![c] = Close(c, cmd[c].report)]

\* The lease is finalized and removed; a lease that is gone, or a journal that
\* cannot be written, is an outcome that is not durable.
FinishLease(c) ==
  /\ At(c, "recorded")
  /\ IF cmd[c].error \/ ~cmd[c].confirmed THEN UNCHANGED <<leases, marker, reason, faults>>
     ELSE \/ c \in leases /\ leases' = leases \ {c} /\ UNCHANGED <<marker, reason, faults>>
          \/ c \notin leases /\ Quarantine(Home(c)) /\ UNCHANGED <<leases, faults>>
          \/ Fault /\ Quarantine(Home(c)) /\ UNCHANGED leases
  /\ UNCHANGED <<recovery, up, turn, turns>>
  /\ cmd' = [cmd EXCEPT ![c] = Close(c, cmd[c].report)]

-----------------------------------------------------------------------------
(* Turns and their handles *)

Mine(p) == {c \in Commands : Home(c) = p /\ cmd[c].stage \notin {"none", "lost"}}
InCall(c) == cmd[c].handle \in {"foreground", "pending"} /\ ~At(c, "closed")

StartTurn(p) ==
  /\ p \in up /\ turn[p] = "idle" /\ turns[p] < MaxTurns
  /\ turn' = [turn EXCEPT ![p] = "running"] /\ turns' = [turns EXCEPT ![p] = @ + 1]
  /\ UNCHANGED <<cmd, disk, reason, up, faults>>

\* status: a terminal result is observed by its owner.
Poll(c) ==
  /\ turn[Home(c)] = "running" /\ At(c, "closed") /\ cmd[c].handle = "open"
  /\ cmd' = [cmd EXCEPT ![c].handle = "seen"]
  /\ UNCHANGED <<disk, reason, up, turn, turns, faults>>

\* cancel
CancelCommand(c) ==
  /\ turn[Home(c)] = "running" /\ ~At(c, "lost") /\ cmd[c].handle = "open" /\ ~cmd[c].aborted
  /\ cmd' = [cmd EXCEPT ![c] = Aborted(cmd[c])]
  /\ UNCHANGED <<disk, reason, up, turn, turns, faults>>

\* The turn's signal aborts every command that was asked for in it.
AbortTurn(p) ==
  /\ turn[p] = "running"
  /\ \E c \in Mine(p) : cmd[c].attached /\ ~cmd[c].aborted /\ ~At(c, "closed")
  /\ cmd' = [c \in Commands |->
       IF c \in Mine(p) /\ cmd[c].attached THEN Aborted(cmd[c]) ELSE cmd[c]]
  /\ UNCHANGED <<disk, reason, up, turn, turns, faults>>

EndTurn(p) ==
  /\ turn' = [turn EXCEPT ![p] = "idle"]
  /\ cmd' = [c \in Commands |->
       IF c \in Mine(p) THEN [cmd[c] EXCEPT !.attached = FALSE] ELSE cmd[c]]
  /\ UNCHANGED <<disk, reason, up, turns, faults>>

\* Mutant: only commands that still run keep the turn open.
OpenHandlesRunning(p) == \E c \in Mine(p) : cmd[c].handle = "open" /\ ~At(c, "closed")

\* hasOpenCommandHandles, as the completion gate asks it.
OpenHandles(p) == \E c \in Mine(p) : cmd[c].handle = "open"

CompleteTurn(p) ==
  /\ turn[p] = "running" /\ \A c \in Mine(p) : ~InCall(c)
  /\ ~OpenHandles(p)
  /\ EndTurn(p)

\* The corrections are used up, or the turn was aborted.
PauseTurn(p) ==
  /\ turn[p] = "running" /\ \A c \in Mine(p) : ~InCall(c)
  /\ OpenHandles(p)
  /\ EndTurn(p)

-----------------------------------------------------------------------------
(* Crashes and recovery *)

Crash(p) ==
  /\ p \in up /\ Fault
  /\ up' = up \ {p}
  /\ turn' = [turn EXCEPT ![p] = "idle"]
  /\ reason' = [reason EXCEPT ![p] = FALSE]
  /\ cmd' = [c \in Commands |->
       IF c \in Mine(p) THEN [Forgotten(cmd[c]) EXCEPT !.stage = "lost", !.handle = "seen"] ELSE cmd[c]]
  /\ UNCHANGED <<disk, turns>>

Restart(p) ==
  /\ p \notin up
  /\ up' = up \cup {p}
  /\ UNCHANGED <<cmd, disk, reason, turn, turns, faults>>

\* SandboxRecovery.inspect, applied. POSIX workers report no cleanup that would
\* let it remove the lease of a dead process without evidence.
Recover ==
  /\ ~recovery /\ (leases # {} \/ marker)
  /\ leases' = leases \ Evident
  /\ marker' = (marker /\ leases' # {})
  /\ UNCHANGED <<cmd, recovery, reason, up, turn, turns, faults>>

\* Its lock outlives it.
RecoveryDies ==
  /\ ~recovery /\ (leases # {} \/ marker) /\ Fault
  /\ recovery' = TRUE
  /\ UNCHANGED <<cmd, leases, marker, reason, up, turn, turns>>

-----------------------------------------------------------------------------
Supervise(c) ==
  \/ PassDeadline(c) \/ GarbleReport(c) \/ ForceStop(c) \/ Kill(c)
  \/ CleanUp(c) \/ Record(c) \/ FinishLease(c)
Work(c) ==
  \/ Send(c) \/ InitializationFails(c) \/ StartTarget(c) \/ RefuseTarget(c)
  \/ EndTarget(c) \/ LoseTarget(c) \/ ExitWorker(c) \/ TerminateJob(c)
  \/ WorkerDies(c) \/ StartOrphan(c) \/ EndOrphan(c)
Begin(c) ==
  \/ Deny(c) \/ Approve(c) \/ Prepare(c) \/ PrepareFails(c)
  \/ CancelPrepared(c) \/ Launch(c)

Next ==
  \/ \E c \in Commands : Begin(c) \/ Work(c) \/ Supervise(c) \/ Poll(c) \/ CancelCommand(c)
  \/ \E c \in Commands, p \in Processes : Request(c, p)
  \/ \E p \in Processes : StartTurn(p) \/ AbortTurn(p) \/ CompleteTurn(p) \/ PauseTurn(p)
                          \/ Crash(p) \/ Restart(p) \/ Inspect(p)
  \/ Recover \/ RecoveryDies

Spec == Init /\ [][Next]_vars

-----------------------------------------------------------------------------
\* A target that may still run and that no process waits for any more keeps every
\* process from starting another command (assertEnvironmentSafe), whatever was
\* reconciled, recovered, killed or lost on the way.
UnknownIsBlocked ==
  \A c \in Commands : cmd[c].running /\ cmd[c].stage \in {"closed", "lost"} =>
    \A p \in up : Unsafe(p, leases \ Evident, reason)

\* What the result says of the execution is the truth (lifecycle): "not_started"
\* invites the model to submit the command again, "exited" to rely on it.
ReportIsTrue ==
  \A c \in Commands : At(c, "closed") =>
    /\ cmd[c].report = "not_started" => ~cmd[c].ran
    /\ cmd[c].report = "exited" => cmd[c].ran /\ ~cmd[c].running

\* A turn that completes has been shown the result of every command that was
\* started on its behalf, in it or before (the completion gate).
CompletedTurnHasSeenAll ==
  [][\A p \in Processes : CompleteTurn(p) =>
       \A c \in Mine(p) : At(c, "closed") /\ cmd[c].handle # "open" /\ cmd[c].worker \in {"none", "gone"}]_vars

=============================================================================
