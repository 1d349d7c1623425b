----------------------- MODULE WorkspaceMutationLock -----------------------
(***************************************************************************)
(* The mutex that serialises the tools of the main agent and of its child  *)
(* agents that may modify one shared workspace                             *)
(* (src/subagents/workspace-mutation-lock.ts).  A call asks for the lock,  *)
(* waits in a queue, runs, and releases; start_command may instead leave a *)
(* background job, which keeps the mutex until it settles, or a service,   *)
(* which gives the mutex back and reserves the workspace for its owner.    *)
(* The methods of the lock are synchronous, so each is one action; between *)
(* the grant of a call (a resolved promise) and its first step other       *)
(* events run, so the two are separate actions.                            *)
(***************************************************************************)
EXTENDS Integers, Sequences, FiniteSets, SequencesExt

CONSTANTS
  Calls,     \* tool calls; a finished call may be issued again
  NoOwner,   \* the owner `undefined`
  OwnerOf    \* the agent that issues the call

Owners == {OwnerOf[c] : c \in Calls} \ {NoOwner}

ASSUME CallsFinite == IsFiniteSet(Calls)
ASSUME OwnerOfDomain == DOMAIN OwnerOf = Calls

Kinds == {"short", "start", "service"}
Phases == {"idle", "waiting", "granted", "canceled", "running", "job", "service"}

VARIABLES
  locked,         \* the short-operation mutex
  currentOwner,   \* owner of the call that holds it
  serviceOwner,   \* agent the workspace is reserved for
  serviceLeases,  \* how many services hold that reservation
  waiters,        \* queued calls, oldest first
  phase,          \* where each call is
  kind            \* what the call asks for

vars == <<locked, currentOwner, serviceOwner, serviceLeases, waiters, phase, kind>>

InPhase(P) == {c \in Calls : phase[c] \in P}

\* Calls whose turn it is to release the mutex, and calls that may be writing.
Holders  == InPhase({"granted", "canceled", "running", "job"})
Writers  == InPhase({"running", "job"})
Services == InPhase({"service"})

Init ==
  /\ locked = FALSE
  /\ currentOwner = NoOwner
  /\ serviceOwner = NoOwner
  /\ serviceLeases = 0
  /\ waiters = <<>>
  /\ phase = [c \in Calls |-> "idle"]
  /\ kind = [c \in Calls |-> "short"]

\* Mutant of Eligible: the reservation is forgotten.
EligibleAnyone(queue, reserved) == DOMAIN queue

Eligible(queue, reserved) ==
  {i \in DOMAIN queue : reserved = NoOwner \/ OwnerOf[queue[i]] = reserved}

\* Nobody can be granted: the mutex is held, or no queued call may use it.
NoGrant(queue, reserved, held, ph) ==
  /\ held \/ Eligible(queue, reserved) = {}
  /\ locked' = held
  /\ currentOwner' = IF held THEN currentOwner ELSE NoOwner
  /\ waiters' = queue
  /\ phase' = ph

\* The oldest eligible call gets the mutex.
Grant(queue, reserved, ph) ==
  \E i \in Eligible(queue, reserved) :
    /\ \A j \in Eligible(queue, reserved) : i <= j
    /\ locked' = TRUE
    /\ currentOwner' = OwnerOf[queue[i]]
    /\ waiters' = RemoveAt(queue, i)
    /\ phase' = [ph EXCEPT ![queue[i]] = "granted"]

\* What every change of the queue, the mutex or the reservation ends with.
Dispatch(queue, reserved, held, ph) ==
  \/ NoGrant(queue, reserved, held, ph)
  \/ ~held /\ Grant(queue, reserved, ph)

Acquire(c, k) ==
  /\ phase[c] = "idle"
  /\ k = "service" => OwnerOf[c] # NoOwner
  /\ kind' = [kind EXCEPT ![c] = k]
  /\ Dispatch(Append(waiters, c), serviceOwner, locked, [phase EXCEPT ![c] = "waiting"])
  /\ UNCHANGED <<serviceOwner, serviceLeases>>

\* The caller's signal fires while the call is queued.
AbortWaiting(c) ==
  \E i \in DOMAIN waiters :
    /\ waiters[i] = c
    /\ Dispatch(RemoveAt(waiters, i), serviceOwner, locked, [phase EXCEPT ![c] = "idle"])
    /\ UNCHANGED <<serviceOwner, serviceLeases, kind>>

\* It fires after the grant and before the caller has resumed.
AbortGranted(c) ==
  /\ phase[c] = "granted"
  /\ phase' = [phase EXCEPT ![c] = "canceled"]
  /\ UNCHANGED <<locked, currentOwner, serviceOwner, serviceLeases, waiters, kind>>

Begin(c) ==
  /\ phase[c] = "granted"
  /\ phase' = [phase EXCEPT ![c] = "running"]
  /\ UNCHANGED <<locked, currentOwner, serviceOwner, serviceLeases, waiters, kind>>

\* The holder releases: the operation ended, its job settled, or it was canceled.
Release(c) ==
  /\ phase[c] \in {"running", "job", "canceled"}
  /\ Dispatch(waiters, serviceOwner, FALSE, [phase EXCEPT ![c] = "idle"])
  /\ UNCHANGED <<serviceOwner, serviceLeases, kind>>

\* start_command returned a running command: the mutex stays with the job.
Background(c) ==
  /\ phase[c] = "running"
  /\ kind[c] = "start"
  /\ phase' = [phase EXCEPT ![c] = "job"]
  /\ UNCHANGED <<locked, currentOwner, serviceOwner, serviceLeases, waiters, kind>>

MayRetain(owner) ==
  /\ locked
  /\ currentOwner = owner
  /\ serviceOwner \in {NoOwner, owner}

\* It returned a running service: reserve the workspace, then release the mutex.
StartService(c) ==
  /\ phase[c] = "running"
  /\ kind[c] = "service"
  /\ MayRetain(OwnerOf[c])
  /\ serviceOwner' = OwnerOf[c]
  /\ serviceLeases' = serviceLeases + 1
  /\ Dispatch(waiters, serviceOwner', FALSE, [phase EXCEPT ![c] = "service"])
  /\ UNCHANGED kind

\* Mutant of SettleService: the reservation ends and nobody is woken.
SettleServiceSilently(c) ==
  /\ phase[c] = "service"
  /\ serviceLeases' = serviceLeases - 1
  /\ serviceOwner' = IF serviceLeases' = 0 THEN NoOwner ELSE serviceOwner
  /\ phase' = [phase EXCEPT ![c] = "idle"]
  /\ UNCHANGED <<locked, currentOwner, waiters, kind>>

\* A service settles; the last one of its owner gives the reservation back.
SettleService(c) ==
  /\ phase[c] = "service"
  /\ serviceLeases' = serviceLeases - 1
  /\ IF serviceLeases' = 0
       THEN /\ serviceOwner' = NoOwner
            /\ Dispatch(waiters, NoOwner, locked, [phase EXCEPT ![c] = "idle"])
       ELSE /\ phase' = [phase EXCEPT ![c] = "idle"]
            /\ UNCHANGED <<serviceOwner, locked, currentOwner, waiters>>
  /\ UNCHANGED kind

Next ==
  \E c \in Calls :
    \/ \E k \in Kinds : Acquire(c, k)
    \/ AbortWaiting(c)
    \/ AbortGranted(c)
    \/ Begin(c)
    \/ Release(c)
    \/ Background(c)
    \/ StartService(c)
    \/ SettleService(c)

Spec == Init /\ [][Next]_vars

\* A granted call resumes (a microtask) and every operation and job ends (each
\* command has a timeout).  A service may live as long as its agent wants.
Fairness ==
  \A c \in Calls : WF_vars(Begin(c)) /\ WF_vars(Release(c))

FairSpec == Spec /\ Fairness

-----------------------------------------------------------------------------
TypeOK ==
  /\ locked \in BOOLEAN
  /\ currentOwner \in Owners \cup {NoOwner}
  /\ serviceOwner \in Owners \cup {NoOwner}
  /\ serviceLeases \in Nat
  /\ waiters \in Seq(Calls)
  /\ phase \in [Calls -> Phases]
  /\ kind \in [Calls -> Kinds]

(* At most one call holds the mutex, and the mutex is locked exactly while  *)
(* one does: no release or cancellation leaks or frees it twice.            *)
MutexHeldByOne ==
  /\ \A c, d \in Holders : c = d
  /\ locked = (Holders # {})
  /\ \A c \in Holders : currentOwner = OwnerOf[c]

(* While an agent has a live service, no call of another agent is writing   *)
(* ("that agent may continue to work while other agents remain excluded").  *)
ServiceExcludesOthers ==
  \A s \in Services, w \in Holders : OwnerOf[s] = OwnerOf[w]

(* The lease count is the number of live services, all of the agent the     *)
(* workspace is reserved for: the reservation ends with the last of them.   *)
LeasesMatchServices ==
  /\ serviceLeases = Cardinality(Services)
  /\ (serviceOwner = NoOwner) = (Services = {})
  /\ \A s \in Services : OwnerOf[s] = serviceOwner

(* The queue holds every waiting call once, and nothing else.               *)
QueueMatchesWaiting ==
  /\ \A i, j \in DOMAIN waiters : waiters[i] = waiters[j] => i = j
  /\ \A c \in Calls : (phase[c] = "waiting") = (\E i \in DOMAIN waiters : waiters[i] = c)

(* No lost wake-up: a free mutex with a queued call that may use it never   *)
(* survives a step, whichever of release, abort and settle freed it.        *)
NoLostWakeup == ~locked => Eligible(waiters, serviceOwner) = {}

(* A running service start always may register its lease: retainService     *)
(* cannot throw, which would leave a live service without its reservation.  *)
RetainNeverThrows ==
  \A c \in Calls : phase[c] = "running" /\ kind[c] = "service" => MayRetain(OwnerOf[c])

Waits(c) == phase[c] = "waiting"

(* A queued call is granted or canceled, unless another agent's service     *)
(* comes to hold the workspace.                                             *)
WaitingIsServed ==
  \A c \in Calls :
    Waits(c) ~> (~Waits(c) \/ serviceOwner \notin {NoOwner, OwnerOf[c]})

Exclusion == INSTANCE WorkspaceExclusion WITH
  active <- Writers, services <- Services

(* The queueing lock implements the abstract exclusion.                     *)
ImplementsExclusion == Exclusion!Spec
=============================================================================
