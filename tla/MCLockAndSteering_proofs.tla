---------------------- MODULE MCLockAndSteering_proofs ----------------------
(***************************************************************************)
(* Proofs for the two components that MCLockAndSteering runs side by side. *)
(*                                                                         *)
(* The lock of the workspace excludes, for any calls and any owners: what  *)
(* is inductive (LockInv) relates the queue, the mutex and the reservation *)
(* to the phases of the calls, and every operation ends with a dispatch    *)
(* that settles them.                                                      *)
(*                                                                         *)
(* Messages reach a turn exactly once, in order and in time, whatever is   *)
(* sent when. Three things are inductive together (SteeringInv): the queue *)
(* is in the order of its sequences, all above the watermark; the memory   *)
(* and the batch in hand have different messages of the history, so their  *)
(* images never exceed the history's; and the notifier of a turn has been  *)
(* told of every adjustment that waits, and consumed none of them. Calls   *)
(* that have no result belong to the batch that runs, or were left over by *)
(* a crash, a failed checkpoint or an ended turn (Calling).                *)
(***************************************************************************)
EXTENDS MCLockAndSteering, FiniteSetTheorems, SequenceTheorems, WellFoundedInduction, TLAPS

-----------------------------------------------------------------------------
(* The workspace lock *)

(* Removing one element of a queue keeps a queue, one shorter, whose other  *)
(* elements stay in order (SequencesExt RemoveAt, the code's splice).       *)
LEMMA RemoveAtQueue ==
  ASSUME NEW S, NEW q \in Seq(S), NEW i \in DOMAIN q
  PROVE  /\ RemoveAt(q, i) \in Seq(S)
         /\ DOMAIN RemoveAt(q, i) = 1 .. (Len(q) - 1)
         /\ \A j \in 1 .. (Len(q) - 1) :
              RemoveAt(q, i)[j] = IF j < i THEN q[j] ELSE q[j + 1]
<1> DEFINE p == SubSeq(q, 1, i - 1)
           r == SubSeq(q, i + 1, Len(q))
<1>1. Len(q) \in Nat /\ i \in 1 .. Len(q) /\ DOMAIN q = 1 .. Len(q)
  OBVIOUS
<1>2. p \in Seq(S) /\ Len(p) = i - 1 /\ \A j \in 1 .. (i - 1) : p[j] = q[j]
  BY <1>1
<1>3. r \in Seq(S) /\ Len(r) = Len(q) - i /\ \A j \in 1 .. (Len(q) - i) : r[j] = q[i + j]
  BY <1>1
<1>4. RemoveAt(q, i) = p \o r
  BY DEF RemoveAt
<1> HIDE DEF p, r
<1>5. /\ p \o r \in Seq(S)
      /\ Len(p \o r) = Len(q) - 1
      /\ \A j \in 1 .. (Len(q) - 1) : (p \o r)[j] = IF j <= Len(p) THEN p[j] ELSE r[j - Len(p)]
  <2>1. Len(p) + Len(r) = Len(q) - 1
    BY <1>1, <1>2, <1>3
  <2>2. /\ p \o r \in Seq(S)
        /\ Len(p \o r) = Len(p) + Len(r)
        /\ \A j \in 1 .. (Len(p) + Len(r)) : (p \o r)[j] = IF j <= Len(p) THEN p[j] ELSE r[j - Len(p)]
    BY <1>2, <1>3, ConcatProperties, Zenon
  <2>3. QED
    BY <2>1, <2>2
<1>6. ASSUME NEW j \in 1 .. (Len(q) - 1)
      PROVE  (p \o r)[j] = IF j < i THEN q[j] ELSE q[j + 1]
  <2>1. CASE j < i
    <3>1. j \in 1 .. (i - 1) /\ j <= Len(p)
      BY <1>1, <1>2, <2>1
    <3>2. QED
      BY <1>2, <1>5, <2>1, <3>1
  <2>2. CASE ~(j < i)
    <3>1. j - Len(p) \in 1 .. (Len(q) - i) /\ i + (j - Len(p)) = j + 1 /\ ~(j <= Len(p))
      BY <1>1, <1>2, <2>2
    <3>2. r[j - Len(p)] = q[j + 1]
      BY <1>3, <3>1
    <3>3. QED
      BY <1>5, <2>2, <3>1, <3>2
  <2>3. QED
    BY <2>1, <2>2
<1>7. DOMAIN (p \o r) = 1 .. (Len(q) - 1)
  BY <1>5, <1>1
<1>8. QED
  BY <1>4, <1>5, <1>6, <1>7

-----------------------------------------------------------------------------
(* The parts of the invariant, as facts about any queue and phases: Dispatch *)
(* receives them half updated.                                              *)
PhaseSet(ph, P) == {c \in Calls : ph[c] \in P}
HoldingPhases == {"granted", "canceled", "running", "job"}
WritingPhases == {"running", "job"}

HeldByOne(held, owner, ph) ==
  /\ \A c, d \in PhaseSet(ph, HoldingPhases) : c = d
  /\ held = (PhaseSet(ph, HoldingPhases) # {})
  /\ \A c \in PhaseSet(ph, HoldingPhases) : owner = OwnerOf[c]

QueueOf(queue, ph) ==
  /\ \A i, j \in DOMAIN queue : queue[i] = queue[j] => i = j
  /\ \A c \in Calls : (ph[c] = "waiting") = (\E i \in DOMAIN queue : queue[i] = c)

ReservedBy(reserved, ph) ==
  /\ (reserved = NoOwner) = (PhaseSet(ph, {"service"}) = {})
  /\ \A s \in PhaseSet(ph, {"service"}) : OwnerOf[s] = reserved

Excludes(ph) ==
  \A s \in PhaseSet(ph, {"service"}), w \in PhaseSet(ph, HoldingPhases) :
    OwnerOf[s] = OwnerOf[w]

(* Taking the call at one place out of the queue.                           *)
LEMMA RemoveFromQueue ==
  ASSUME NEW q \in Seq(Calls), NEW i \in DOMAIN q, NEW ph \in [Calls -> Phases],
         QueueOf(q, ph), NEW p \in Phases \ {"waiting"}
  PROVE  /\ RemoveAt(q, i) \in Seq(Calls)
         /\ QueueOf(RemoveAt(q, i), [ph EXCEPT ![q[i]] = p])
<1> DEFINE r == RemoveAt(q, i)
           g == q[i]
<1>1. /\ r \in Seq(Calls)
      /\ DOMAIN r = 1 .. (Len(q) - 1)
      /\ \A j \in 1 .. (Len(q) - 1) : r[j] = IF j < i THEN q[j] ELSE q[j + 1]
  BY RemoveAtQueue
<1>2. i \in 1 .. Len(q) /\ g \in Calls /\ Len(q) \in Nat /\ DOMAIN q = 1 .. Len(q)
  OBVIOUS
<1> HIDE DEF r, g
<1>3. q[i] = g
  BY DEF g
<1>4. ASSUME NEW j \in DOMAIN r, NEW k \in DOMAIN r, r[j] = r[k]
      PROVE  j = k
  <2> DEFINE at(m) == IF m < i THEN m ELSE m + 1
  <2>1. \A m \in DOMAIN r : at(m) \in DOMAIN q /\ r[m] = q[at(m)]
    BY <1>1, <1>2
  <2>2. at(j) = at(k)
    BY <1>4, <2>1 DEF QueueOf
  <2>3. QED
    BY <1>1, <1>2, <2>2
<1>5. ASSUME NEW j \in DOMAIN r
      PROVE  r[j] # g
  <2>1. CASE j < i
    BY <1>1, <1>2, <1>3, <2>1 DEF QueueOf
  <2>2. CASE ~(j < i)
    BY <1>1, <1>2, <1>3, <2>2 DEF QueueOf
  <2>3. QED
    BY <2>1, <2>2
<1>6. ASSUME NEW c \in Calls, c # g
      PROVE  (\E j \in DOMAIN r : r[j] = c) <=> (\E k \in DOMAIN q : q[k] = c)
  <2>1. ASSUME NEW k \in DOMAIN q, q[k] = c
        PROVE  \E j \in DOMAIN r : r[j] = c
    <3>1. k # i
      BY <1>3, <1>6, <2>1
    <3>2. CASE k < i
      BY <1>1, <1>2, <2>1, <3>2
    <3>3. CASE k > i
      <4>1. k - 1 \in DOMAIN r /\ ~(k - 1 < i) /\ (k - 1) + 1 = k
        BY <1>1, <1>2, <3>3
      <4>2. QED
        BY <1>1, <2>1, <4>1
    <3>4. QED
      BY <1>2, <3>1, <3>2, <3>3
  <2>2. ASSUME NEW j \in DOMAIN r, r[j] = c
        PROVE  \E k \in DOMAIN q : q[k] = c
    <3>1. r[j] = q[IF j < i THEN j ELSE j + 1] /\ (IF j < i THEN j ELSE j + 1) \in DOMAIN q
      BY <1>1, <1>2
    <3>2. QED
      BY <2>2, <3>1
  <2>3. QED
    BY <2>1, <2>2
<1>7. ASSUME NEW c \in Calls
      PROVE  ([ph EXCEPT ![g] = p][c] = "waiting") = (\E j \in DOMAIN r : r[j] = c)
  <2>1. CASE c = g
    BY <1>5, <2>1
  <2>2. CASE c # g
    <3>1. [ph EXCEPT ![g] = p][c] = ph[c]
      BY <2>2
    <3>2. QED
      BY <1>6, <2>2, <3>1 DEF QueueOf
  <2>3. QED
    BY <2>1, <2>2
<1>8. QueueOf(r, [ph EXCEPT ![g] = p])
  BY <1>4, <1>7 DEF QueueOf
<1>9. QED
  BY <1>1, <1>8 DEF r, g

(* What any step that ends with Dispatch establishes.                       *)
LEMMA DispatchSettles ==
  ASSUME NEW queue \in Seq(Calls), NEW reserved \in Owners \cup {NoOwner},
         NEW held \in BOOLEAN, NEW ph \in [Calls -> Phases],
         currentOwner \in Owners \cup {NoOwner},
         QueueOf(queue, ph), ReservedBy(reserved, ph), Excludes(ph),
         HeldByOne(held, IF held THEN currentOwner ELSE NoOwner, ph),
         Dispatch(queue, reserved, held, ph)
  PROVE  /\ locked' \in BOOLEAN
         /\ currentOwner' \in Owners \cup {NoOwner}
         /\ waiters' \in Seq(Calls)
         /\ phase' \in [Calls -> Phases]
         /\ PhaseSet(phase', {"service"}) = PhaseSet(ph, {"service"})
         /\ QueueOf(waiters', phase')
         /\ ReservedBy(reserved, phase')
         /\ Excludes(phase')
         /\ HeldByOne(locked', currentOwner', phase')
         /\ ~locked' => Eligible(waiters', reserved) = {}
<1>1. CASE NoGrant(queue, reserved, held, ph)
  BY <1>1 DEF NoGrant
<1>2. CASE ~held /\ Grant(queue, reserved, ph)
  <2>1. PICK i \in Eligible(queue, reserved) :
          /\ locked' = TRUE
          /\ currentOwner' = OwnerOf[queue[i]]
          /\ waiters' = RemoveAt(queue, i)
          /\ phase' = [ph EXCEPT ![queue[i]] = "granted"]
    BY <1>2 DEF Grant
  <2> DEFINE g == queue[i]
  <2>2. /\ i \in DOMAIN queue
        /\ i \in 1 .. Len(queue)
        /\ g \in Calls
        /\ reserved # NoOwner => OwnerOf[g] = reserved
    BY <2>1 DEF Eligible
  <2>3. ph[g] = "waiting"
    BY <2>2 DEF QueueOf
  <2>4. /\ waiters' \in Seq(Calls)
        /\ DOMAIN waiters' = 1 .. (Len(queue) - 1)
        /\ \A j \in 1 .. (Len(queue) - 1) :
             waiters'[j] = IF j < i THEN queue[j] ELSE queue[j + 1]
    BY <2>1, <2>2, RemoveAtQueue
  <2>5. /\ phase' \in [Calls -> Phases]
        /\ \A c \in Calls : phase'[c] = IF c = g THEN "granted" ELSE ph[c]
    BY <2>1, <2>2 DEF Phases
  <2>6. PhaseSet(ph, HoldingPhases) = {}
    BY <1>2 DEF HeldByOne
  <2>7. PhaseSet(phase', HoldingPhases) = {g}
    BY <2>2, <2>5, <2>6 DEF PhaseSet, HoldingPhases
  <2>8. PhaseSet(phase', {"service"}) = PhaseSet(ph, {"service"})
    BY <2>3, <2>5 DEF PhaseSet
  <2>9. QueueOf(waiters', phase')
    BY <2>1, <2>2, RemoveFromQueue DEF Phases
  <2>10. ReservedBy(reserved, phase')
    BY <2>8 DEF ReservedBy
  <2>11. Excludes(phase')
    BY <2>2, <2>7, <2>8 DEF Excludes, ReservedBy
  <2>12. HeldByOne(locked', currentOwner', phase')
    BY <2>1, <2>7 DEF HeldByOne
  <2>13. currentOwner' \in Owners \cup {NoOwner}
    BY <2>1, <2>2 DEF Owners
  <2>14. QED
    BY <2>1, <2>4, <2>5, <2>8, <2>9, <2>10, <2>11, <2>12, <2>13
<1>3. QED
  BY <1>1, <1>2 DEF Dispatch

-----------------------------------------------------------------------------
(* The inductive invariant: every safety property of the lock, together.    *)
(* ServiceExcludesOthers needs the queue to match the waiting calls (a      *)
(* granted call was waiting, so it is no service) and the leases to match   *)
(* the services (the reservation it was granted under is theirs).           *)
\* Only a call with an identity asks for a service.
ServiceKindHasOwner == \A c \in Calls : kind[c] = "service" => OwnerOf[c] # NoOwner

LockInv ==
  /\ TypeOK
  /\ MutexHeldByOne
  /\ ServiceExcludesOthers
  /\ LeasesMatchServices
  /\ QueueMatchesWaiting
  /\ NoLostWakeup
  /\ ServiceKindHasOwner

(* The same, with its parts as facts about the variables.                   *)
Parts ==
  /\ locked \in BOOLEAN
  /\ currentOwner \in Owners \cup {NoOwner}
  /\ serviceOwner \in Owners \cup {NoOwner}
  /\ serviceLeases \in Nat
  /\ waiters \in Seq(Calls)
  /\ phase \in [Calls -> Phases]
  /\ kind \in [Calls -> Kinds]
  /\ HeldByOne(locked, currentOwner, phase)
  /\ Excludes(phase)
  /\ serviceLeases = Cardinality(PhaseSet(phase, {"service"}))
  /\ ReservedBy(serviceOwner, phase)
  /\ QueueOf(waiters, phase)
  /\ (~locked => Eligible(waiters, serviceOwner) = {})
  /\ ServiceKindHasOwner

LEMMA PartsOfLockInv == LockInv <=> Parts
  BY DEF LockInv, Parts, TypeOK, MutexHeldByOne, HeldByOne, ServiceExcludesOthers, Excludes,
         LeasesMatchServices, ReservedBy, QueueMatchesWaiting, QueueOf, NoLostWakeup,
         Holders, Services, InPhase, PhaseSet, HoldingPhases

(* What moving one call to another phase does to the sets.                  *)
LEMMA PhaseSetMoved ==
  ASSUME NEW ph \in [Calls -> Phases], NEW c \in Calls, NEW p \in Phases
  PROVE  /\ [ph EXCEPT ![c] = p] \in [Calls -> Phases]
         /\ PhaseSet([ph EXCEPT ![c] = p], {"service"})
              = IF p = "service" THEN PhaseSet(ph, {"service"}) \cup {c}
                                 ELSE PhaseSet(ph, {"service"}) \ {c}
         /\ PhaseSet([ph EXCEPT ![c] = p], HoldingPhases)
              = IF p \in HoldingPhases THEN PhaseSet(ph, HoldingPhases) \cup {c}
                                       ELSE PhaseSet(ph, HoldingPhases) \ {c}
  BY DEF PhaseSet

(* A call outside the queue may change phase without waiting.               *)
LEMMA QueueUnmoved ==
  ASSUME NEW q \in Seq(Calls), NEW ph \in [Calls -> Phases], NEW c \in Calls,
         NEW p \in Phases, QueueOf(q, ph), ph[c] # "waiting", p # "waiting"
  PROVE  QueueOf(q, [ph EXCEPT ![c] = p])
  BY DEF QueueOf

LEMMA InitLockInv == Init => LockInv
<1> SUFFICES ASSUME Init PROVE LockInv
  OBVIOUS
<1> USE DEF Init
<1>1. Services = {} /\ Holders = {}
  BY DEF Services, Holders, InPhase
<1>2. TypeOK
  <2>1. waiters \in Seq(Calls)
    OBVIOUS
  <2>2. phase \in [Calls -> Phases] /\ kind \in [Calls -> Kinds]
    BY DEF Phases, Kinds
  <2>3. QED
    BY <2>1, <2>2 DEF TypeOK
<1>3. MutexHeldByOne /\ ServiceExcludesOthers
  BY <1>1 DEF MutexHeldByOne, ServiceExcludesOthers
<1>4. LeasesMatchServices
  BY <1>1, FS_EmptySet DEF LeasesMatchServices
<1>5. QueueMatchesWaiting /\ NoLostWakeup /\ ServiceKindHasOwner
  <2>1. DOMAIN waiters = {}
    OBVIOUS
  <2>2. \A c \in Calls : phase[c] # "waiting"
    OBVIOUS
  <2>3. QED
    BY <2>1, <2>2 DEF QueueMatchesWaiting, NoLostWakeup, Eligible, ServiceKindHasOwner
<1>6. QED
  BY <1>2, <1>3, <1>4, <1>5 DEF LockInv

(* Appending a call to the queue.                                           *)
LEMMA AppendQueue ==
  ASSUME NEW q \in Seq(Calls), NEW c \in Calls, NEW ph \in [Calls -> Phases],
         QueueOf(q, ph), ph[c] = "idle"
  PROVE  /\ Append(q, c) \in Seq(Calls)
         /\ QueueOf(Append(q, c), [ph EXCEPT ![c] = "waiting"])
<1>1. /\ Len(q) \in Nat
      /\ DOMAIN q = 1 .. Len(q)
      /\ Append(q, c) \in Seq(Calls)
      /\ DOMAIN Append(q, c) = 1 .. (Len(q) + 1)
      /\ \A i \in 1 .. (Len(q) + 1) : Append(q, c)[i] = IF i <= Len(q) THEN q[i] ELSE c
  OBVIOUS
<1>2. \A i \in DOMAIN q : q[i] # c
  BY <1>1 DEF QueueOf
<1>3. ASSUME NEW d \in Calls
      PROVE  ([ph EXCEPT ![c] = "waiting"][d] = "waiting")
               = (\E i \in DOMAIN Append(q, c) : Append(q, c)[i] = d)
  <2>1. CASE d = c
    <3>1. Len(q) + 1 \in DOMAIN Append(q, c) /\ Append(q, c)[Len(q) + 1] = c
      BY <1>1
    <3>2. QED
      BY <2>1, <3>1
  <2>2. CASE d # c
    <3>1. (\E i \in DOMAIN Append(q, c) : Append(q, c)[i] = d) = (\E i \in DOMAIN q : q[i] = d)
      BY <1>1, <2>2
    <3>2. QED
      BY <2>2, <3>1 DEF QueueOf
  <2>3. QED
    BY <2>1, <2>2
<1>4. ASSUME NEW i \in DOMAIN Append(q, c), NEW j \in DOMAIN Append(q, c),
             Append(q, c)[i] = Append(q, c)[j]
      PROVE  i = j
  BY <1>1, <1>2, <1>4 DEF QueueOf
<1>5. QED
  BY <1>1, <1>3, <1>4 DEF QueueOf

(* Each step keeps it.                                                      *)
LEMMA StepLockInv == LockInv /\ [Next]_vars => LockInv'
<1> SUFFICES ASSUME Parts, [Next]_vars
             PROVE  Parts'
  BY PartsOfLockInv DEF LockInv, Parts, TypeOK, MutexHeldByOne, HeldByOne,
     ServiceExcludesOthers, Excludes, LeasesMatchServices, ReservedBy, QueueMatchesWaiting,
     QueueOf, NoLostWakeup, Holders, Services, InPhase, PhaseSet, HoldingPhases
<1> DEFINE S == PhaseSet(phase, {"service"})
           H == PhaseSet(phase, HoldingPhases)
           Moved(c, p) == [phase EXCEPT ![c] = p]
<1>0. IsFiniteSet(S)
  BY CallsFinite, FS_Subset DEF PhaseSet
<1>1. ASSUME NEW c \in Calls, NEW k \in Kinds, Acquire(c, k)
      PROVE  Parts'
  <2> DEFINE ph == Moved(c, "waiting")
             queue == Append(waiters, c)
  <2>1. ph \in [Calls -> Phases] /\ PhaseSet(ph, {"service"}) = S /\ PhaseSet(ph, HoldingPhases) = H
    BY <1>1 DEF Acquire, Parts, PhaseSet, HoldingPhases, Phases
  <2>2. queue \in Seq(Calls) /\ QueueOf(queue, ph)
    BY <1>1, AppendQueue DEF Acquire, Parts
  <2>3. /\ ReservedBy(serviceOwner, ph)
        /\ Excludes(ph)
        /\ HeldByOne(locked, IF locked THEN currentOwner ELSE NoOwner, ph)
    BY <2>1 DEF Parts, ReservedBy, Excludes, HeldByOne
  <2>4. /\ kind' \in [Calls -> Kinds]
        /\ ServiceKindHasOwner'
        /\ UNCHANGED <<serviceOwner, serviceLeases>>
    BY <1>1 DEF Acquire, Parts, ServiceKindHasOwner
  <2>5. Dispatch(queue, serviceOwner, locked, ph)
    BY <1>1 DEF Acquire
  <2> HIDE DEF ph, queue
  <2>6. /\ locked' \in BOOLEAN
        /\ currentOwner' \in Owners \cup {NoOwner}
        /\ waiters' \in Seq(Calls)
        /\ phase' \in [Calls -> Phases]
        /\ PhaseSet(phase', {"service"}) = PhaseSet(ph, {"service"})
        /\ QueueOf(waiters', phase')
        /\ ReservedBy(serviceOwner, phase')
        /\ Excludes(phase')
        /\ HeldByOne(locked', currentOwner', phase')
        /\ ~locked' => Eligible(waiters', serviceOwner) = {}
    BY <2>1, <2>2, <2>3, <2>5, DispatchSettles DEF Parts
  <2>7. QED
    BY <2>1, <2>4, <2>6 DEF Parts
<1>2. ASSUME NEW c \in Calls, AbortWaiting(c)
      PROVE  Parts'
  <2>1. PICK i \in DOMAIN waiters :
          /\ waiters[i] = c
          /\ Dispatch(RemoveAt(waiters, i), serviceOwner, locked, Moved(c, "idle"))
          /\ UNCHANGED <<serviceOwner, serviceLeases, kind>>
    BY <1>2 DEF AbortWaiting
  <2> DEFINE ph == Moved(c, "idle")
             queue == RemoveAt(waiters, i)
  <2>2. phase[c] = "waiting"
    BY <2>1 DEF Parts, QueueOf
  <2>3. ph \in [Calls -> Phases] /\ PhaseSet(ph, {"service"}) = S /\ PhaseSet(ph, HoldingPhases) = H
    BY <2>2 DEF Parts, PhaseSet, HoldingPhases, Phases
  <2>4. queue \in Seq(Calls) /\ QueueOf(queue, ph)
    BY <2>1, RemoveFromQueue DEF Parts, Phases
  <2>5. /\ ReservedBy(serviceOwner, ph)
        /\ Excludes(ph)
        /\ HeldByOne(locked, IF locked THEN currentOwner ELSE NoOwner, ph)
    BY <2>3 DEF Parts, ReservedBy, Excludes, HeldByOne
  <2>6. Dispatch(queue, serviceOwner, locked, ph)
    BY <2>1
  <2> HIDE DEF ph, queue
  <2>7. /\ locked' \in BOOLEAN
        /\ currentOwner' \in Owners \cup {NoOwner}
        /\ waiters' \in Seq(Calls)
        /\ phase' \in [Calls -> Phases]
        /\ PhaseSet(phase', {"service"}) = PhaseSet(ph, {"service"})
        /\ QueueOf(waiters', phase')
        /\ ReservedBy(serviceOwner, phase')
        /\ Excludes(phase')
        /\ HeldByOne(locked', currentOwner', phase')
        /\ ~locked' => Eligible(waiters', serviceOwner) = {}
    BY <2>3, <2>4, <2>5, <2>6, DispatchSettles DEF Parts
  <2>8. QED
    BY <2>1, <2>3, <2>7 DEF Parts, ServiceKindHasOwner
<1>3. ASSUME NEW c \in Calls, NEW p \in HoldingPhases, phase[c] \in HoldingPhases,
             phase' = Moved(c, p),
             UNCHANGED <<locked, currentOwner, serviceOwner, serviceLeases, waiters, kind>>
      PROVE  Parts'
  <2>1. /\ phase' \in [Calls -> Phases]
        /\ PhaseSet(phase', {"service"}) = S
        /\ PhaseSet(phase', HoldingPhases) = H
    BY <1>3 DEF Parts, PhaseSet, HoldingPhases, Phases
  <2>2. QueueOf(waiters, phase')
    BY <1>3 DEF Parts, QueueOf, HoldingPhases
  <2>3. QED
    BY <1>3, <2>1, <2>2 DEF Parts, HeldByOne, Excludes, ReservedBy, ServiceKindHasOwner, Eligible
<1>4. ASSUME NEW c \in Calls, Release(c)
      PROVE  Parts'
  <2> DEFINE ph == Moved(c, "idle")
  <2>1. c \in H
    BY <1>4 DEF Release, PhaseSet, HoldingPhases
  <2>2. ph \in [Calls -> Phases] /\ PhaseSet(ph, {"service"}) = S /\ PhaseSet(ph, HoldingPhases) = H \ {c}
    BY <1>4 DEF Release, Parts, PhaseSet, HoldingPhases, Phases
  <2>3. H \ {c} = {}
    BY <2>1 DEF Parts, HeldByOne
  <2>4. QueueOf(waiters, ph)
    BY <1>4 DEF Release, Parts, QueueOf
  <2>5. ReservedBy(serviceOwner, ph) /\ Excludes(ph) /\ HeldByOne(FALSE, NoOwner, ph)
    BY <2>2, <2>3 DEF Parts, ReservedBy, Excludes, HeldByOne
  <2>6. /\ Dispatch(waiters, serviceOwner, FALSE, ph)
        /\ UNCHANGED <<serviceOwner, serviceLeases, kind>>
    BY <1>4 DEF Release
  <2> HIDE DEF ph
  <2>7. /\ locked' \in BOOLEAN
        /\ currentOwner' \in Owners \cup {NoOwner}
        /\ waiters' \in Seq(Calls)
        /\ phase' \in [Calls -> Phases]
        /\ PhaseSet(phase', {"service"}) = PhaseSet(ph, {"service"})
        /\ QueueOf(waiters', phase')
        /\ ReservedBy(serviceOwner, phase')
        /\ Excludes(phase')
        /\ HeldByOne(locked', currentOwner', phase')
        /\ ~locked' => Eligible(waiters', serviceOwner) = {}
    BY <2>2, <2>4, <2>5, <2>6, DispatchSettles DEF Parts
  <2>8. QED
    BY <2>2, <2>6, <2>7 DEF Parts, ServiceKindHasOwner
<1>5. ASSUME NEW c \in Calls, StartService(c)
      PROVE  Parts'
  <2> DEFINE ph == Moved(c, "service")
  <2>1. c \in H /\ c \notin S /\ OwnerOf[c] # NoOwner /\ OwnerOf[c] \in Owners
    BY <1>5 DEF StartService, Parts, PhaseSet, HoldingPhases, ServiceKindHasOwner, Owners
  <2>2. /\ ph \in [Calls -> Phases]
        /\ PhaseSet(ph, {"service"}) = S \cup {c}
        /\ PhaseSet(ph, HoldingPhases) = H \ {c}
    BY <1>5 DEF StartService, Parts, PhaseSet, HoldingPhases, Phases
  <2>3. H \ {c} = {}
    BY <2>1 DEF Parts, HeldByOne
  <2>4. QueueOf(waiters, ph)
    BY <1>5 DEF StartService, Parts, QueueOf
  <2>5. ReservedBy(OwnerOf[c], ph) /\ Excludes(ph) /\ HeldByOne(FALSE, NoOwner, ph)
    BY <1>5, <2>1, <2>2, <2>3 DEF StartService, MayRetain, Parts, ReservedBy, Excludes, HeldByOne
  <2>6. /\ Dispatch(waiters, OwnerOf[c], FALSE, ph)
        /\ serviceOwner' = OwnerOf[c]
        /\ serviceLeases' = serviceLeases + 1
        /\ UNCHANGED kind
    BY <1>5 DEF StartService
  <2>7. Cardinality(S \cup {c}) = serviceLeases + 1
    BY <1>0, <2>1, FS_AddElement DEF Parts
  <2> HIDE DEF ph
  <2>8. /\ locked' \in BOOLEAN
        /\ currentOwner' \in Owners \cup {NoOwner}
        /\ waiters' \in Seq(Calls)
        /\ phase' \in [Calls -> Phases]
        /\ PhaseSet(phase', {"service"}) = PhaseSet(ph, {"service"})
        /\ QueueOf(waiters', phase')
        /\ ReservedBy(OwnerOf[c], phase')
        /\ Excludes(phase')
        /\ HeldByOne(locked', currentOwner', phase')
        /\ ~locked' => Eligible(waiters', OwnerOf[c]) = {}
    BY <2>1, <2>2, <2>4, <2>5, <2>6, DispatchSettles DEF Parts
  <2> HIDE DEF S, H
  <2>9. serviceLeases' \in Nat /\ serviceLeases' = Cardinality(PhaseSet(phase', {"service"}))
    <3>1. serviceLeases + 1 \in Nat
      BY DEF Parts
    <3>2. PhaseSet(phase', {"service"}) = S \cup {c}
      BY <2>2, <2>8
    <3>3. QED
      BY <2>6, <2>7, <3>1, <3>2
  <2>10. kind' \in [Calls -> Kinds] /\ ServiceKindHasOwner'
    BY <2>6 DEF Parts, ServiceKindHasOwner
  <2>11. serviceOwner' \in Owners \cup {NoOwner} /\ serviceOwner' = OwnerOf[c]
    BY <2>1, <2>6
  <2>12. QED
    BY <2>8, <2>9, <2>10, <2>11 DEF Parts
<1>6. ASSUME NEW c \in Calls, SettleService(c)
      PROVE  Parts'
  <2> DEFINE ph == Moved(c, "idle")
  <2>1. c \in S
    BY <1>6 DEF SettleService, PhaseSet
  <2>2. /\ ph \in [Calls -> Phases]
        /\ PhaseSet(ph, {"service"}) = S \ {c}
        /\ PhaseSet(ph, HoldingPhases) = H
    BY <1>6 DEF SettleService, Parts, PhaseSet, HoldingPhases, Phases
  <2>3. /\ IsFiniteSet(S \ {c})
        /\ Cardinality(S \ {c}) = serviceLeases - 1
        /\ serviceLeases - 1 \in Nat
        /\ (serviceLeases - 1 = 0) = (S \ {c} = {})
    <3>1. IsFiniteSet(S \ {c}) /\ Cardinality(S \ {c}) = serviceLeases - 1
      BY <1>0, <2>1, FS_RemoveElement DEF Parts
    <3>2. Cardinality(S \ {c}) \in Nat /\ (Cardinality(S \ {c}) = 0) = (S \ {c} = {})
      BY <3>1, FS_EmptySet, FS_CardinalityType
    <3>3. QED
      BY <3>1, <3>2
  <2>4. QueueOf(waiters, ph)
    BY <1>6 DEF SettleService, Parts, QueueOf
  <2>5. Excludes(ph) /\ HeldByOne(locked, IF locked THEN currentOwner ELSE NoOwner, ph)
    BY <2>2 DEF Parts, Excludes, HeldByOne
  <2>6. serviceLeases' = serviceLeases - 1 /\ UNCHANGED kind
    BY <1>6 DEF SettleService
  <2>7. CASE serviceLeases - 1 = 0
    <3>1. ReservedBy(NoOwner, ph)
      BY <2>2, <2>3, <2>7 DEF ReservedBy
    <3>2. serviceOwner' = NoOwner /\ Dispatch(waiters, NoOwner, locked, ph)
      BY <1>6, <2>6, <2>7 DEF SettleService
    <3> HIDE DEF ph
    <3>3. /\ locked' \in BOOLEAN
          /\ currentOwner' \in Owners \cup {NoOwner}
          /\ waiters' \in Seq(Calls)
          /\ phase' \in [Calls -> Phases]
          /\ PhaseSet(phase', {"service"}) = PhaseSet(ph, {"service"})
          /\ QueueOf(waiters', phase')
          /\ ReservedBy(NoOwner, phase')
          /\ Excludes(phase')
          /\ HeldByOne(locked', currentOwner', phase')
          /\ ~locked' => Eligible(waiters', NoOwner) = {}
      BY <2>2, <2>4, <2>5, <3>1, <3>2, DispatchSettles DEF Parts
    <3>4. QED
      BY <2>2, <2>3, <2>6, <3>2, <3>3 DEF Parts, ServiceKindHasOwner
  <2>8. CASE serviceLeases - 1 # 0
    <3>1. phase' = ph /\ UNCHANGED <<serviceOwner, locked, currentOwner, waiters>>
      BY <1>6, <2>6, <2>8 DEF SettleService
    <3>2. ReservedBy(serviceOwner, ph)
      BY <2>1, <2>2, <2>3, <2>8 DEF Parts, ReservedBy
    <3>3. HeldByOne(locked, currentOwner, ph)
      BY <2>2 DEF Parts, HeldByOne
    <3> HIDE DEF ph
    <3>4. QED
      BY <2>2, <2>3, <2>4, <2>5, <2>6, <3>1, <3>2, <3>3 DEF Parts, ServiceKindHasOwner, Eligible
  <2>9. QED
    BY <2>7, <2>8
<1>7. ASSUME NEW c \in Calls, AbortGranted(c) \/ Begin(c) \/ Background(c)
      PROVE  Parts'
  <2>1. \E p \in HoldingPhases :
          /\ phase[c] \in HoldingPhases
          /\ phase' = Moved(c, p)
          /\ UNCHANGED <<locked, currentOwner, serviceOwner, serviceLeases, waiters, kind>>
    BY <1>7 DEF AbortGranted, Begin, Background, HoldingPhases
  <2>2. QED
    BY <1>3, <2>1
<1>8. CASE UNCHANGED vars
  <2>1. UNCHANGED <<locked, currentOwner, serviceOwner, serviceLeases, waiters, phase, kind>>
    BY <1>8 DEF vars
  <2>2. QED
    BY <2>1 DEF Parts, HeldByOne, Excludes, ReservedBy, QueueOf, Eligible, ServiceKindHasOwner
<1>9. QED
  BY <1>1, <1>2, <1>4, <1>5, <1>6, <1>7, <1>8 DEF Next

-----------------------------------------------------------------------------
(* The lock keeps its invariant.                                            *)
THEOREM LockInvariant == Spec => []LockInv
  BY InitLockInv, StepLockInv, PTL DEF Spec

(* Every variable keeps its type.                                           *)
THEOREM LockTypeCorrect == Spec => []TypeOK
<1>1. LockInv => TypeOK
  BY DEF LockInv
<1>2. QED
  BY <1>1, LockInvariant, PTL

(* At most one call holds the mutex, whatever is queued, canceled, left in  *)
(* the background or kept as a service (runExclusive, dispatch).            *)
THEOREM MutualExclusion == Spec => []MutexHeldByOne
<1>1. LockInv => MutexHeldByOne
  BY DEF LockInv
<1>2. QED
  BY <1>1, LockInvariant, PTL

(* No call of another agent runs beside a live service (retainService).     *)
THEOREM ServiceExclusion == Spec => []ServiceExcludesOthers
<1>1. LockInv => ServiceExcludesOthers
  BY DEF LockInv
<1>2. QED
  BY <1>1, LockInvariant, PTL

(* A free mutex never leaves a call waiting that may have it (dispatch).    *)
THEOREM NoWakeupIsLost == Spec => []NoLostWakeup
<1>1. LockInv => NoLostWakeup
  BY DEF LockInv
<1>2. QED
  BY <1>1, LockInvariant, PTL

(* The holder of the mutex never meets another agent's reservation, so a    *)
(* started service always gets its lease (retainService).                   *)
THEOREM RetainAlwaysSucceeds == Spec => []RetainNeverThrows
<1>1. LockInv => RetainNeverThrows
  <2>1. SUFFICES ASSUME Parts, NEW c \in Calls, phase[c] = "running"
                 PROVE  MayRetain(OwnerOf[c])
    BY PartsOfLockInv DEF RetainNeverThrows
  <2>2. c \in PhaseSet(phase, HoldingPhases)
    BY <2>1 DEF PhaseSet, HoldingPhases
  <2>3. locked /\ currentOwner = OwnerOf[c]
    BY <2>1, <2>2 DEF Parts, HeldByOne
  <2>4. serviceOwner # NoOwner => serviceOwner = OwnerOf[c]
    BY <2>1, <2>2 DEF Parts, ReservedBy, Excludes
  <2>5. QED
    BY <2>3, <2>4 DEF MayRetain
<1>2. QED
  BY <1>1, LockInvariant, PTL

-----------------------------------------------------------------------------
(* The phase of every call after an operation that ends with Dispatch, as   *)
(* the abstract lock sees it: the calls that write and the live services.   *)
LEMMA DispatchVisible ==
  ASSUME NEW queue \in Seq(Calls), NEW reserved, NEW held, NEW ph \in [Calls -> Phases],
         QueueOf(queue, ph), Dispatch(queue, reserved, held, ph)
  PROVE  /\ Writers' = PhaseSet(ph, WritingPhases)
         /\ Services' = PhaseSet(ph, {"service"})
<1>1. CASE NoGrant(queue, reserved, held, ph)
  BY <1>1 DEF NoGrant, Writers, Services, InPhase, PhaseSet, WritingPhases
<1>2. CASE ~held /\ Grant(queue, reserved, ph)
  <2>1. PICK i \in DOMAIN queue : phase' = [ph EXCEPT ![queue[i]] = "granted"]
    BY <1>2 DEF Grant, Eligible
  <2>2. queue[i] \in Calls /\ ph[queue[i]] = "waiting"
    <3>1. queue[i] \in Calls
      OBVIOUS
    <3>2. QED
      BY <3>1 DEF QueueOf
  <2>3. \A c \in Calls : phase'[c] = IF c = queue[i] THEN "granted" ELSE ph[c]
    BY <2>1, <2>2
  <2>4. QED
    BY <2>2, <2>3 DEF Writers, Services, InPhase, PhaseSet, WritingPhases
<1>3. QED
  BY <1>1, <1>2 DEF Dispatch

(* Every step of the queueing lock is a step of the abstract one or none.   *)
LEMMA StepRefines == LockInv /\ [Next]_vars => [Exclusion!Next]_(Exclusion!vars)
<1> SUFFICES ASSUME Parts, [Next]_vars
             PROVE  [Exclusion!Next]_(Exclusion!vars)
  BY PartsOfLockInv
<1> DEFINE Moved(c, p) == [phase EXCEPT ![c] = p]
<1>1. phase \in [Calls -> Phases] /\ waiters \in Seq(Calls) /\ QueueOf(waiters, phase)
  BY DEF Parts
<1>2. ASSUME UNCHANGED <<Writers, Services>>
      PROVE  [Exclusion!Next]_(Exclusion!vars)
  BY <1>2 DEF Exclusion!vars
<1>3. ASSUME NEW c \in Calls, NEW k \in Kinds, Acquire(c, k)
      PROVE  UNCHANGED <<Writers, Services>>
  <2>1. Append(waiters, c) \in Seq(Calls) /\ QueueOf(Append(waiters, c), Moved(c, "waiting"))
    BY <1>1, <1>3, AppendQueue DEF Acquire
  <2>2. Moved(c, "waiting") \in [Calls -> Phases]
    BY <1>1 DEF Phases
  <2>3. Dispatch(Append(waiters, c), serviceOwner, locked, Moved(c, "waiting"))
    BY <1>3 DEF Acquire
  <2>4. /\ Writers' = PhaseSet(Moved(c, "waiting"), WritingPhases)
        /\ Services' = PhaseSet(Moved(c, "waiting"), {"service"})
    BY <2>1, <2>2, <2>3, DispatchVisible
  <2>5. QED
    BY <1>1, <1>3, <2>4 DEF Acquire, Writers, Services, InPhase, PhaseSet, WritingPhases
<1>4. ASSUME NEW c \in Calls, AbortWaiting(c)
      PROVE  UNCHANGED <<Writers, Services>>
  <2>1. PICK i \in DOMAIN waiters :
          waiters[i] = c /\ Dispatch(RemoveAt(waiters, i), serviceOwner, locked, Moved(c, "idle"))
    BY <1>4 DEF AbortWaiting
  <2>2. phase[c] = "waiting" /\ Moved(c, "idle") \in [Calls -> Phases]
    BY <1>1, <2>1 DEF QueueOf, Phases
  <2>3. RemoveAt(waiters, i) \in Seq(Calls) /\ QueueOf(RemoveAt(waiters, i), Moved(c, "idle"))
    BY <1>1, <2>1, RemoveFromQueue DEF Phases
  <2>4. /\ Writers' = PhaseSet(Moved(c, "idle"), WritingPhases)
        /\ Services' = PhaseSet(Moved(c, "idle"), {"service"})
    BY <2>1, <2>2, <2>3, DispatchVisible
  <2>5. QED
    BY <1>1, <2>2, <2>4 DEF Writers, Services, InPhase, PhaseSet, WritingPhases
<1>5. ASSUME NEW c \in Calls, AbortGranted(c) \/ Background(c)
      PROVE  UNCHANGED <<Writers, Services>>
  BY <1>1, <1>5 DEF AbortGranted, Background, Writers, Services, InPhase
<1>6. ASSUME NEW c \in Calls, Begin(c)
      PROVE  Exclusion!Enter(c)
  <2>1. c \in PhaseSet(phase, HoldingPhases) /\ c \notin Services
    BY <1>6 DEF Begin, PhaseSet, HoldingPhases, Services, InPhase
  <2>2. Writers = {}
    <3>1. ASSUME NEW w \in Writers
          PROVE  FALSE
      <4>1. w \in PhaseSet(phase, HoldingPhases) /\ phase[w] # "granted"
        BY DEF Writers, InPhase, PhaseSet, HoldingPhases
      <4>2. w = c
        BY <2>1, <4>1 DEF Parts, HeldByOne
      <4>3. QED
        BY <1>6, <4>1, <4>2 DEF Begin
    <3>2. QED
      BY <3>1
  <2>3. \A s \in Services : OwnerOf[s] = OwnerOf[c]
    BY <2>1 DEF Parts, Excludes, Services, InPhase, PhaseSet
  <2>4. Writers' = {c} /\ Services' = Services
    BY <1>1, <1>6, <2>2 DEF Begin, Writers, Services, InPhase
  <2>5. QED
    BY <2>1, <2>2, <2>3, <2>4 DEF Exclusion!Enter
<1>7. ASSUME NEW c \in Calls, NEW p \in {"idle", "service"}, NEW reserved, NEW held,
             phase[c] \notin {"waiting"}, Dispatch(waiters, reserved, held, Moved(c, p))
      PROVE  /\ Writers' = Writers \ {c}
             /\ Services' = IF p = "service" THEN Services \cup {c} ELSE Services \ {c}
  <2>1. Moved(c, p) \in [Calls -> Phases] /\ QueueOf(waiters, Moved(c, p))
    BY <1>1, <1>7, QueueUnmoved DEF Phases
  <2>2. /\ Writers' = PhaseSet(Moved(c, p), WritingPhases)
        /\ Services' = PhaseSet(Moved(c, p), {"service"})
    BY <1>1, <1>7, <2>1, DispatchVisible
  <2>3. QED
    BY <1>1, <2>2 DEF Writers, Services, InPhase, PhaseSet, WritingPhases
<1>8. ASSUME NEW c \in Calls, Release(c)
      PROVE  Exclusion!Leave(c) \/ UNCHANGED <<Writers, Services>>
  <2>1. Writers' = Writers \ {c} /\ Services' = Services \ {c} /\ c \notin Services
    BY <1>7, <1>8 DEF Release, Services, InPhase
  <2>2. QED
    BY <2>1 DEF Exclusion!Leave
<1>9. ASSUME NEW c \in Calls, StartService(c)
      PROVE  Exclusion!LeaveAsService(c)
  <2>1. c \in Writers /\ OwnerOf[c] # NoOwner
    BY <1>9 DEF StartService, Writers, InPhase, Parts, ServiceKindHasOwner
  <2>2. Writers' = Writers \ {c} /\ Services' = Services \cup {c}
    BY <1>7, <1>9 DEF StartService
  <2>3. QED
    BY <2>1, <2>2 DEF Exclusion!LeaveAsService
<1>10. ASSUME NEW c \in Calls, SettleService(c)
       PROVE  Exclusion!EndService(c)
  <2>1. c \in Services /\ c \notin Writers
    BY <1>10 DEF SettleService, Services, Writers, InPhase
  <2>2. Writers' = Writers \ {c} /\ Services' = Services \ {c}
    <3>1. CASE serviceLeases' = 0
      BY <1>7, <1>10, <3>1 DEF SettleService
    <3>2. CASE serviceLeases' # 0
      BY <1>1, <1>10, <3>2 DEF SettleService, Services, Writers, InPhase
    <3>3. QED
      BY <3>1, <3>2
  <2>3. QED
    BY <2>1, <2>2 DEF Exclusion!EndService
<1>11. CASE UNCHANGED vars
  BY <1>2, <1>11 DEF vars, Writers, Services, InPhase
<1>12. QED
  BY <1>2, <1>3, <1>4, <1>5, <1>6, <1>8, <1>9, <1>10, <1>11 DEF Next, Exclusion!Next

(* The queueing lock implements the abstract exclusion for any calls.       *)
THEOREM LockImplementsExclusion == Spec => ImplementsExclusion
<1>1. Init => Exclusion!Init
  BY DEF Init, Exclusion!Init, Writers, Services, InPhase
<1>2. QED
  BY <1>1, LockInvariant, StepRefines, PTL DEF Spec, ImplementsExclusion, Exclusion!Spec

-----------------------------------------------------------------------------
(* Messages that reach a turn *)

SteeringEntry == [id : Steering!Messages, source : Steering!Sources, sequence : Nat]

\* What a message or a batch puts into the history, as a set.
LEMMA ToSetConcat ==
  ASSUME NEW S, NEW s \in Seq(S), NEW t \in Seq(S)
  PROVE  Steering!ToSet(s \o t) = Steering!ToSet(s) \cup Steering!ToSet(t)
<1>1. /\ s \o t \in Seq(S)
      /\ Len(s \o t) = Len(s) + Len(t)
      /\ \A i \in 1 .. Len(s) + Len(t) : (s \o t)[i] = IF i <= Len(s) THEN s[i] ELSE t[i - Len(s)]
  BY ConcatProperties, Zenon
<1> DEFINE u == s \o t
<1>2. u \in Seq(S) /\ Len(u) = Len(s) + Len(t)
  BY <1>1
<1>3. \A i \in 1 .. Len(s) : i \in 1 .. Len(u) /\ u[i] = s[i]
  BY <1>1, <1>2
<1>4. \A i \in 1 .. Len(t) : i + Len(s) \in 1 .. Len(u) /\ u[i + Len(s)] = t[i]
  <2> SUFFICES ASSUME NEW i \in 1 .. Len(t)
               PROVE  i + Len(s) \in 1 .. Len(u) /\ u[i + Len(s)] = t[i]
    OBVIOUS
  <2>1. i + Len(s) \in 1 .. Len(u) /\ ~(i + Len(s) <= Len(s)) /\ (i + Len(s)) - Len(s) = i
    BY <1>2
  <2>2. QED
    BY <1>1, <1>2, <2>1
<1>5. \A i \in 1 .. Len(u) : \/ i \in 1 .. Len(s) /\ u[i] = s[i]
                             \/ i - Len(s) \in 1 .. Len(t) /\ u[i] = t[i - Len(s)]
  BY <1>1, <1>2
<1> HIDE DEF u
<1>6. DOMAIN u = 1 .. Len(u) /\ DOMAIN s = 1 .. Len(s) /\ DOMAIN t = 1 .. Len(t)
  BY <1>2
<1>7. Steering!ToSet(u) = Steering!ToSet(s) \cup Steering!ToSet(t)
  <2>1. ASSUME NEW x \in Steering!ToSet(u)
        PROVE  x \in Steering!ToSet(s) \cup Steering!ToSet(t)
    <3>1. PICK i \in 1 .. Len(u) : x = u[i]
      BY <1>6, <2>1 DEF Steering!ToSet
    <3>2. QED
      BY <1>5, <1>6, <3>1 DEF Steering!ToSet
  <2>2. ASSUME NEW x \in Steering!ToSet(s)
        PROVE  x \in Steering!ToSet(u)
    <3>1. PICK i \in 1 .. Len(s) : x = s[i]
      BY <1>6, <2>2 DEF Steering!ToSet
    <3>2. QED
      BY <1>3, <1>6, <3>1 DEF Steering!ToSet
  <2>3. ASSUME NEW x \in Steering!ToSet(t)
        PROVE  x \in Steering!ToSet(u)
    <3>1. PICK i \in 1 .. Len(t) : x = t[i]
      BY <1>6, <2>3 DEF Steering!ToSet
    <3>2. QED
      BY <1>4, <1>6, <3>1 DEF Steering!ToSet
  <2>4. QED
    BY <2>1, <2>2, <2>3
<1>8. QED
  BY <1>7 DEF u

LEMMA ToSetTyped ==
  ASSUME NEW S, NEW s \in Seq(S)
  PROVE  Steering!ToSet(s) \subseteq S
BY DEF Steering!ToSet

LEMMA SameCount == \A S : Steering!Cardinality(S) = Cardinality(S)
BY DEF Steering!Cardinality, Cardinality

\* The images that a sequence of messages brings: they are counted once a message, so a history has at least those of
\* a part of it, and those of two parts that share no message.
LEMMA FillsCount ==
  ASSUME NEW s
  PROVE  /\ Steering!Fills(s) \in Nat
         /\ \A t : Steering!ToSet(t) \subseteq Steering!ToSet(s) => Steering!Fills(t) <= Steering!Fills(s)
<1> DEFINE W(x) == {m \in WithImages : m \in Steering!ToSet(x)}
<1>1. ASSUME NEW t
      PROVE  IsFiniteSet(W(t))
  BY SteeringAssumption, FS_Subset, W(t) \in SUBSET WithImages
<1>2. Steering!Fills(s) \in Nat
  BY <1>1, FS_CardinalityType, SameCount DEF Steering!Fills
<1>3. ASSUME NEW t, Steering!ToSet(t) \subseteq Steering!ToSet(s)
      PROVE  Steering!Fills(t) <= Steering!Fills(s)
  <2>1. W(t) \in SUBSET W(s)
    BY <1>3
  <2>2. Cardinality(W(t)) <= Cardinality(W(s))
    BY <1>1, <2>1, FS_Subset
  <2>3. QED
    BY <2>2, SameCount DEF Steering!Fills
<1>4. QED
  BY <1>2, <1>3

LEMMA FillsOfParts ==
  ASSUME NEW s, NEW t, NEW u, Steering!ToSet(s) \cap Steering!ToSet(t)
      = {}, Steering!ToSet(s) \cup Steering!ToSet(t) \subseteq Steering!ToSet(u)
  PROVE  Steering!Fills(s) + Steering!Fills(t) <= Steering!Fills(u)
<1> DEFINE W(x) == {m \in WithImages : m \in Steering!ToSet(x)}
<1>1. IsFiniteSet(W(s)) /\ IsFiniteSet(W(t)) /\ IsFiniteSet(W(u))
  BY SteeringAssumption, FS_Subset, W(s) \in SUBSET WithImages, W(t) \in SUBSET WithImages, W(u) \in SUBSET WithImages
<1>2. W(s) \cap W(t) = {} /\ W(s) \cup W(t) \in SUBSET W(u)
  OBVIOUS
<1> DEFINE a == W(s)
           b == W(t)
           c == W(u)
<1>3. Steering!Fills(s) = Cardinality(a) /\ Steering!Fills(t) = Cardinality(b) /\ Steering!Fills(u) = Cardinality(c)
  BY SameCount DEF Steering!Fills
<1> HIDE DEF W, a, b, c
<1>4. IsFiniteSet(a) /\ IsFiniteSet(b) /\ IsFiniteSet(c) /\ a \cap b = {} /\ a \cup b \in SUBSET c
  BY <1>1, <1>2 DEF a, b, c
<1>5. /\ IsFiniteSet(a \cup b)
      /\ Cardinality(a \cup b) = Cardinality(a) + Cardinality(b) - Cardinality(a \cap b)
  BY <1>4, FS_Union
<1>6. Cardinality(a \cap b) = 0
  BY <1>4, FS_EmptySet
<1>7. Cardinality(a \cup b) <= Cardinality(c)
  BY <1>4, FS_Subset
<1>8. Cardinality(a) \in Nat /\ Cardinality(b) \in Nat /\ Cardinality(c) \in Nat /\ Cardinality(a \cup b) \in Nat
  BY <1>4, <1>5, FS_CardinalityType
<1>9. QED
  BY <1>3, <1>5, <1>6, <1>7, <1>8

\* The messages of a sequence of entries.
LEMMA IdsTyped ==
  ASSUME NEW p \in Seq(SteeringEntry)
  PROVE  /\ Steering!Ids(p) \in Seq(Steering!Messages)
         /\ Len(Steering!Ids(p)) = Len(p)
         /\ \A i \in 1 .. Len(p) : Steering!Ids(p)[i] = p[i].id
<1>1. DOMAIN p = 1 .. Len(p) /\ Len(p) \in Nat /\ \A i \in 1 .. Len(p) : p[i].id \in Steering!Messages
  <2>1. DOMAIN p = 1 .. Len(p) /\ Len(p) \in Nat /\ \A i \in 1 .. Len(p) : p[i] \in SteeringEntry
    OBVIOUS
  <2>2. QED
    BY <2>1 DEF SteeringEntry
<1>2. Steering!Ids(p) = [i \in 1 .. Len(p) |-> p[i].id]
  BY <1>1 DEF Steering!Ids
<1>3. QED
  BY <1>1, <1>2

LEMMA IdsOfAppend ==
  ASSUME NEW p \in Seq(SteeringEntry), NEW e \in SteeringEntry
  PROVE  Steering!Ids(Append(p, e)) = Append(Steering!Ids(p), e.id)
<1> DEFINE q == Append(p, e)
           r == Append(Steering!Ids(p), e.id)
<1>1. Steering!Ids(p) \in Seq(Steering!Messages) /\ Len(Steering!Ids(p)) = Len(p)
          /\ (\A i \in 1 .. Len(p) : Steering!Ids(p)[i] = p[i].id)
  BY IdsTyped
<1>2. q \in Seq(SteeringEntry) /\ Len(q) = Len(p) + 1 /\ Len(p) \in Nat /\ q[Len(p) + 1] = e
      /\ \A i \in 1 .. Len(p) : q[i] = p[i]
  BY AppendProperties
<1>3. e.id \in Steering!Messages
  BY DEF SteeringEntry
<1>4. r \in Seq(Steering!Messages) /\ Len(r) = Len(p) + 1 /\ r[Len(p) + 1] = e.id /\ \A i \in 1 .. Len(p) : r[i]
          = p[i].id
  BY <1>1, <1>2, <1>3, AppendProperties
<1>5. Steering!Ids(q) \in Seq(Steering!Messages) /\ Len(Steering!Ids(q)) = Len(q)
          /\ \A i \in 1 .. Len(q) : Steering!Ids(q)[i] = q[i].id
  BY <1>2, IdsTyped
<1> HIDE DEF q, r
<1>6. \A i \in 1 .. Len(r) : Steering!Ids(q)[i] = r[i]
  <2> SUFFICES ASSUME NEW i \in 1 .. Len(r)
               PROVE  Steering!Ids(q)[i] = r[i]
    OBVIOUS
  <2>1. i \in 1 .. Len(q) /\ (i \in 1 .. Len(p) \/ i = Len(p) + 1)
    BY <1>2, <1>4
  <2>2. QED
    BY <1>2, <1>4, <1>5, <2>1
<1>7. Steering!Ids(q) = r
  BY <1>2, <1>4, <1>5, <1>6, SeqEqual
<1>8. QED
  BY <1>7 DEF q, r

\* A queue of entries cut in two.
LEMMA IdsOfParts ==
  ASSUME NEW p \in Seq(SteeringEntry), NEW k \in 0 .. Len(p)
  PROVE  /\ SubSeq(p, 1, k) \in Seq(SteeringEntry) /\ SubSeq(p, k + 1, Len(p)) \in Seq(SteeringEntry)
         /\ Steering!Ids(p) = Steering!Ids(SubSeq(p, 1, k)) \o Steering!Ids(SubSeq(p, k + 1, Len(p)))
         /\ Steering!Ids(SubSeq(p, 1, k)) = SubSeq(Steering!Ids(p), 1, k)
<1> DEFINE s == SubSeq(p, 1, k)
           t == SubSeq(p, k + 1, Len(p))
           u == Steering!Ids(p)
<1>1. Len(p) \in Nat /\ k \in Nat /\ k <= Len(p)
  OBVIOUS
<1>2. s \in Seq(SteeringEntry) /\ Len(s) = k /\ \A i \in 1 .. k : s[i] = p[i]
  BY <1>1
<1>3. t \in Seq(SteeringEntry) /\ Len(t) = Len(p) - k /\ \A i \in 1 .. Len(p) - k : t[i] = p[k + i]
  BY <1>1
<1>4. u \in Seq(Steering!Messages) /\ Len(u) = Len(p) /\ \A i \in 1 .. Len(p) : u[i] = p[i].id
  BY IdsTyped
<1>5. Steering!Ids(s) \in Seq(Steering!Messages) /\ Len(Steering!Ids(s)) = k
      /\ \A i \in 1 .. k : Steering!Ids(s)[i] = u[i]
  <2>1. Steering!Ids(s) \in Seq(Steering!Messages) /\ Len(Steering!Ids(s)) = Len(s)
            /\ \A i \in 1 .. Len(s) : Steering!Ids(s)[i] = s[i].id
    BY <1>2, IdsTyped
  <2> HIDE DEF s, u
  <2>2. QED
    BY <1>1, <1>2, <1>4, <2>1
<1>6. Steering!Ids(t) \in Seq(Steering!Messages) /\ Len(Steering!Ids(t)) = Len(p) - k
          /\ \A i \in 1 .. Len(p) - k : Steering!Ids(t)[i] = u[k + i]
  <2>1. Steering!Ids(t) \in Seq(Steering!Messages) /\ Len(Steering!Ids(t)) = Len(t)
            /\ \A i \in 1 .. Len(t) : Steering!Ids(t)[i] = t[i].id
    BY <1>3, IdsTyped
  <2> HIDE DEF t, u
  <2>2. \A i \in 1 .. Len(p) - k : k + i \in 1 .. Len(p)
    BY <1>1
  <2>3. \A i \in 1 .. Len(p) - k : t[i].id = u[k + i]
    BY <1>3, <1>4, <2>2
  <2>4. QED
    BY <1>3, <2>1, <2>3
<1> DEFINE a == SubSeq(u, 1, k)
           b == SubSeq(u, k + 1, Len(u))
<1>7. a \in Seq(Steering!Messages) /\ Len(a) = k /\ \A i \in 1 .. k : a[i] = u[i]
  <2> HIDE DEF u
  <2>1. QED
    BY <1>1, <1>4
<1>8. b \in Seq(Steering!Messages) /\ Len(b) = Len(p) - k /\ \A i \in 1 .. Len(p) - k : b[i] = u[k + i]
  <2> HIDE DEF u
  <2>1. QED
    BY <1>1, <1>4
<1>9. Steering!Ids(s) = a
  <2> HIDE DEF s, a, u
  <2>1. QED
    BY <1>1, <1>5, <1>7, SeqEqual
<1>10. Steering!Ids(t) = b
  <2> HIDE DEF t, b, u
  <2>1. QED
    BY <1>1, <1>6, <1>8, SeqEqual
<1>11. a \o b = u
  <2> HIDE DEF u
  <2>1. Len(u) = Len(p) /\ 1 \in 1 .. Len(u) + 1 /\ k \in 1 - 1 .. Len(u) /\ Len(u) \in k .. Len(u)
    BY <1>1, <1>4
  <2>2. a \o b = SubSeq(u, 1, Len(u))
    BY <1>4, <2>1, ConcatAdjacentSubSeq
  <2>3. QED
    BY <1>4, <2>2, SubSeqFull
<1>12. QED
  BY <1>2, <1>3, <1>9, <1>10, <1>11

-----------------------------------------------------------------------------
(* The invariant *)

\* The queue is in the order of its sequences, all above the watermark.
Queue ==
  /\ watermark <= assigned
  /\ \A i \in 1 .. Len(pending) : watermark < pending[i].sequence /\ pending[i].sequence <= assigned
  /\ \A i, j \in 1 .. Len(pending) : i < j => pending[i].sequence < pending[j].sequence

\* No message is accepted twice.
Once == \A i, j \in 1 .. Len(Steering!Accepted) : Steering!Accepted[i] = Steering!Accepted[j] => i = j

\* What the memory has applied, and the batch it is about to apply, are different messages of the history; the images
\* counted in the turn are those of messages applied.
Heard ==
  /\ Steering!ConversationKeepsUp
  /\ Steering!ToSet(heard) \cup Steering!ToSet(hand.ids) \subseteq Steering!ToSet(told)
  /\ Steering!ToSet(heard) \cap Steering!ToSet(hand.ids) = {}
  /\ images <= Steering!Fills(heard)
  /\ known <= watermark /\ hand.through <= watermark
  /\ pc # "apply" => hand = Steering!NoBatch

\* The notifier of a turn has been told of every adjustment that waits, and has consumed none of them.
Settled(n) == n.attempt = "open" => n.notified <= n.consumed
Attempts ==
  /\ pc \notin {"dead", "idle"} =>
       \A i \in 1 .. Len(pending) : pending[i].source = "user_adjust" => pending[i].sequence <= notifier.notified
  /\ notifier.consumed <= watermark
  /\ Settled(notifier)
  /\ notifier.attempt # "none" => pc \in {"request", "calling"}

\* Where the loop may be, against the journal.
Flow ==
  /\ pc \in {"admit", "acknowledge"} => todo # {} /\ todo \subseteq Steering!ToSet(inbox)
  /\ pc = "calling" => openCalls > 0
  /\ sealed => pc \in {"answer", "finishing", "idle", "dead"}
  /\ pc \notin {"dead", "idle"} => activeTurn # 0
  /\ pc = "idle" => activeTurn = 0

\* Calls without a result are those of the batch that runs, of one that a
\* crash or a failed checkpoint cut short, or of a turn that has ended.
Calling ==
  /\ pc \in {"calls", "calling", "skip"} => ~abandoned
  /\ openCalls > 0 /\ ~abandoned => activeTurn # 0
  /\ openCalls > 0 /\ ~abandoned => pc \in {"calls", "calling", "skip", "dead", "finishing"}
  /\ openCalls > 0 /\ ~abandoned /\ pc = "finishing" => forked

SteeringInv == Steering!TypeOK /\ Queue /\ Once /\ Heard /\ Attempts /\ Flow /\ Calling

NotifierSet == [notified : Nat, consumed : Nat, attempt : {"none", "open", "aborted"}]

\* What the operations of the notifier do to it.
LEMMA NotifierMoves ==
  ASSUME NEW n \in NotifierSet, Settled(n), NEW k \in Nat
  PROVE  /\ Steering!Notify(n, k) \in NotifierSet /\ Settled(Steering!Notify(n, k))
         /\ Steering!Notify(n, k).consumed = n.consumed
         /\ n.notified <= Steering!Notify(n, k).notified /\ k <= Steering!Notify(n, k).notified
         /\ n.attempt = "none" => Steering!Notify(n, k).attempt = "none"
         /\ Steering!OpenAttempt(n) \in NotifierSet /\ Settled(Steering!OpenAttempt(n))
         /\ Steering!OpenAttempt(n).consumed = n.consumed
         /\ Steering!OpenAttempt(n).notified = n.notified
         /\ Steering!Dispose(n) \in NotifierSet /\ Settled(Steering!Dispose(n))
         /\ Steering!Dispose(n).consumed = n.consumed
         /\ Steering!Dispose(n).notified = n.notified /\ Steering!Dispose(n).attempt = "none"
         /\ Steering!Consume(n, k) \in NotifierSet /\ Settled(Steering!Consume(n, k))
         /\ Steering!Consume(n, k).consumed \in {n.consumed, k}
         /\ n.notified <= Steering!Consume(n, k).notified
         /\ n.attempt = "none" => Steering!Consume(n, k).attempt = "none"
<1>1. /\ n = [notified |-> n.notified, consumed |-> n.consumed, attempt |-> n.attempt]
      /\ n.notified \in Nat /\ n.consumed \in Nat /\ n.attempt \in {"none", "open", "aborted"}
  BY DEF NotifierSet
<1>2. ASSUME NEW m \in NotifierSet
      PROVE  /\ Steering!AbortActiveAttemptIfPending(m) \in NotifierSet
             /\ Settled(Steering!AbortActiveAttemptIfPending(m))
             /\ Steering!AbortActiveAttemptIfPending(m).notified = m.notified
             /\ Steering!AbortActiveAttemptIfPending(m).consumed = m.consumed
             /\ m.attempt = "none" => Steering!AbortActiveAttemptIfPending(m).attempt = "none"
  BY DEF Steering!AbortActiveAttemptIfPending, NotifierSet, Settled
<1>3. /\ Steering!Notify(n, k) \in NotifierSet /\ Settled(Steering!Notify(n, k))
      /\ Steering!Notify(n, k).consumed = n.consumed
      /\ n.notified <= Steering!Notify(n, k).notified /\ k <= Steering!Notify(n, k).notified
      /\ n.attempt = "none" => Steering!Notify(n, k).attempt = "none"
  <2>1. CASE k <= n.notified
    <3>1. Steering!Notify(n, k) = n
      BY <2>1 DEF Steering!Notify
    <3>2. QED
      BY <1>1, <2>1, <3>1
  <2>2. CASE ~(k <= n.notified)
    <3> DEFINE m == [n EXCEPT !.notified = k]
    <3>1. Steering!Notify(n, k) = Steering!AbortActiveAttemptIfPending(m)
      BY <2>2 DEF Steering!Notify
    <3>2. m \in NotifierSet /\ m.notified = k /\ m.consumed = n.consumed /\ m.attempt = n.attempt
      BY DEF NotifierSet
    <3> HIDE DEF m
    <3>3. QED
      BY <1>1, <1>2, <2>2, <3>1, <3>2
  <2>3. QED
    BY <2>1, <2>2
<1>4. /\ Steering!OpenAttempt(n) \in NotifierSet /\ Settled(Steering!OpenAttempt(n))
      /\ Steering!OpenAttempt(n).consumed = n.consumed
      /\ Steering!OpenAttempt(n).notified = n.notified
  <2> DEFINE m == [n EXCEPT !.attempt = "open"]
  <2>1. Steering!OpenAttempt(n) = Steering!AbortActiveAttemptIfPending(m)
    BY DEF Steering!OpenAttempt
  <2>2. m \in NotifierSet /\ m.notified = n.notified /\ m.consumed = n.consumed
    BY DEF NotifierSet
  <2> HIDE DEF m
  <2>3. QED
    BY <1>2, <2>1, <2>2
<1>5. /\ Steering!Dispose(n) \in NotifierSet /\ Settled(Steering!Dispose(n))
      /\ Steering!Dispose(n).consumed = n.consumed
      /\ Steering!Dispose(n).notified = n.notified /\ Steering!Dispose(n).attempt = "none"
  BY <1>1 DEF Steering!Dispose, NotifierSet, Settled
<1>6. /\ Steering!Consume(n, k) \in NotifierSet /\ Settled(Steering!Consume(n, k))
      /\ Steering!Consume(n, k).consumed \in {n.consumed, k}
      /\ n.notified <= Steering!Consume(n, k).notified
      /\ n.attempt = "none" => Steering!Consume(n, k).attempt = "none"
  <2>1. CASE k <= n.consumed
    <3>1. Steering!Consume(n, k) = n
      BY <2>1 DEF Steering!Consume
    <3>2. QED
      BY <1>1, <3>1
  <2>2. CASE ~(k <= n.consumed)
    <3> DEFINE a == IF k > n.notified THEN k ELSE n.notified
               m == [n EXCEPT !.consumed = k, !.notified = a]
    <3>1. Steering!Consume(n, k) = Steering!AbortActiveAttemptIfPending(m)
      BY <2>2 DEF Steering!Consume
    <3>2. a \in Nat /\ n.notified <= a
      BY <1>1
    <3> HIDE DEF a
    <3>3. m \in NotifierSet /\ m.notified = a /\ m.consumed = k /\ m.attempt = n.attempt
      BY <3>2 DEF NotifierSet
    <3> HIDE DEF m
    <3>4. QED
      BY <1>2, <3>1, <3>2, <3>3
  <2>3. QED
    BY <2>1, <2>2
<1>7. QED
  BY <1>3, <1>4, <1>5, <1>6

\* The least element of a nonempty set of numbers.
LEMMA MinOfSome ==
  ASSUME NEW S, S \subseteq Nat, S # {}
  PROVE  /\ Steering!Min(S) \in S
         /\ \A y \in S : Steering!Min(S) <= y
<1> DEFINE Below(x) == {y \in S : y <= x}
           Belows == {Below(x) : x \in S}
<1>1. Belows # {} /\ Belows \subseteq FiniteSubsetsOf(S)
  <2>1. ASSUME NEW x \in S
        PROVE  IsFiniteSet(Below(x))
    <3>1. Below(x) \in SUBSET Nat /\ x \in Nat /\ \A y \in Below(x) : y <= x
      OBVIOUS
    <3>2. QED
      BY <3>1, FS_BoundedSetOfNaturals
  <2>2. QED
    BY <2>1 DEF FiniteSubsetsOf
<1>2. PICK U \in Belows : \A V \in Belows : ~(<<V, U>> \in StrictSubsetOrdering(S))
  BY <1>1, FS_StrictSubsetOrderingWellFounded, WFMin
<1>3. PICK x \in S : U = Below(x)
  OBVIOUS
<1>4. ASSUME NEW y \in S, y < x
      PROVE  FALSE
  <2>1. x \in Nat /\ y \in Nat /\ S \subseteq Nat
    OBVIOUS
  <2>2. \A z \in Below(y) : z \in U
    <3> SUFFICES ASSUME NEW z \in S, z <= y PROVE z <= x
      BY <1>3
    <3>1. z \in Nat
      BY <2>1
    <3>2. QED
      BY <1>4, <2>1, <3>1
  <2>3. x \in U /\ x \notin Below(y)
    BY <1>3, <1>4, <2>1
  <2>4. <<Below(y), U>> \in StrictSubsetOrdering(S)
    BY <1>3, <2>2, <2>3 DEF StrictSubsetOrdering
  <2>5. QED
    BY <1>2, <2>4
<1>5. \A y \in S : x <= y
  BY <1>4
<1>6. QED
  BY <1>5 DEF Steering!Min

\* A drain takes at least one entry, and no more than there are.
LEMMA FirstRunBounds ==
  ASSUME pending \in Seq(SteeringEntry), pending # <<>>
  PROVE  Steering!FirstRun \in 1 .. Len(pending)
<1> DEFINE Others == {i \in 1 .. Len(pending) : pending[i].source # pending[1].source}
<1>1. Len(pending) \in Nat /\ Len(pending) >= 1
  OBVIOUS
<1>2. Steering!Prefix = IF Others # {} THEN Steering!Min(Others) ELSE 0
  BY DEF Steering!Prefix, Steering!SelectInSeq
<1>3. CASE Others = {}
  BY <1>1, <1>2, <1>3 DEF Steering!FirstRun
<1>4. CASE Others # {}
  <2>1. Steering!Min(Others) \in Others
    BY <1>4, MinOfSome, Others \subseteq Nat
  <2>2. Steering!Min(Others) \in 2 .. Len(pending)
    BY <1>1, <2>1
  <2>3. QED
    BY <1>1, <1>2, <1>4, <2>2 DEF Steering!FirstRun
<1>5. QED
  BY <1>3, <1>4

-----------------------------------------------------------------------------
(* The steps *)

LoopPlaces == {"step", "ready", "request", "respond", "challenge", "calls", "calling", "skip", "settle", "answer",
               "route", "local"}

\* What a step of the loop does that is not part of a drain: it opens an attempt only where it waits, and it leaves
\* calls without a result only where it runs them.
Looped ==
  /\ UNCHANGED Steering!loopFrame
  /\ pc \in LoopPlaces /\ pc' \in LoopPlaces \cup {"take", "finishing"}
  /\ boundary' \in Steering!Boundaries /\ {routing', asks', steered'} \subseteq BOOLEAN
  /\ result' \in {"none", "answered", "stopped"}
  /\ openCalls' \in 0 .. MaxCalls /\ abandoned' \in {abandoned, FALSE}
  /\ \/ notifier' = notifier /\ pc \notin {"request", "calling"}
     \/ notifier' = Steering!OpenAttempt(notifier) /\ pc' \in {"request", "calling"}
     \/ notifier' = Steering!Dispose(notifier)
  /\ pc' = "calling" => openCalls' > 0
  /\ pc = "answer" => pc' = "finishing"
  /\ Calling'

LEMMA LoopSteps ==
  ASSUME Steering!TypeOK, Flow, Calling, Steering!Step
  PROVE  Looped \/ Steering!TurnCompleted
<1> DEFINE Shapes ==
      /\ openCalls \in 0 .. MaxCalls /\ abandoned \in BOOLEAN /\ boundary \in Steering!Boundaries
      /\ {routing, asks, steered, forked} \subseteq BOOLEAN /\ result \in {"none", "answered", "stopped"}
<1>1. Shapes
  BY DEF Steering!TypeOK
<1>2. pc = "calling" => openCalls > 0
  BY DEF Flow
<1>3. pc \in LoopPlaces => activeTurn # 0
  BY DEF Flow, LoopPlaces
<1>0. MaxCalls \in Nat
  BY SteeringAssumption
<1> USE DEF Looped, LoopPlaces, Calling, Steering!Boundaries, Steering!loopFrame, Steering!inboxVars,
  Steering!turnVars, Steering!peerVars, Steering!talkVars, Steering!flowVars,
            Steering!callVars, Steering!Goto, Steering!TakeAt, Steering!NextStep, Steering!FinishWith
<1>4. CASE Steering!BeginStep
  BY <1>0, <1>1, <1>2, <1>3, <1>4 DEF Steering!BeginStep
<1>5. CASE Steering!StopAtStep
  BY <1>0, <1>1, <1>2, <1>3, <1>5 DEF Steering!StopAtStep
<1>6. CASE Steering!MaintainContext
  BY <1>0, <1>1, <1>2, <1>3, <1>6 DEF Steering!MaintainContext
<1>7. CASE Steering!RequestModel
  BY <1>0, <1>1, <1>2, <1>3, <1>7 DEF Steering!RequestModel
<1>8. CASE Steering!DecideLocally
  BY <1>0, <1>1, <1>2, <1>3, <1>8 DEF Steering!DecideLocally
<1>9. CASE Steering!RouteLocally
  BY <1>0, <1>1, <1>2, <1>3, <1>9 DEF Steering!RouteLocally
<1>10. CASE Steering!RequestEnds
  BY <1>0, <1>1, <1>2, <1>3, <1>10 DEF Steering!RequestEnds
<1>11. CASE Steering!Route
  BY <1>0, <1>1, <1>2, <1>3, <1>11 DEF Steering!Route
<1>12. CASE Steering!TextResponse
  BY <1>0, <1>1, <1>2, <1>3, <1>12 DEF Steering!TextResponse
<1>13. CASE Steering!Challenge
  BY <1>0, <1>1, <1>2, <1>3, <1>13 DEF Steering!Challenge
<1>14. CASE Steering!Answer
  BY <1>0, <1>1, <1>2, <1>3, <1>14 DEF Steering!Answer
<1>15. CASE Steering!ToolResponse
  <2>1. openCalls' \in 1 .. MaxCalls /\ openCalls' \in Nat /\ openCalls' > 0
    BY <1>0, <1>15 DEF Steering!ToolResponse
  <2>2. {routing', asks', steered'} \subseteq BOOLEAN
    <3>1. asks' \in BOOLEAN /\ routing' = routing /\ steered' = FALSE
      BY <1>15 DEF Steering!ToolResponse
    <3>2. routing' \in BOOLEAN
      BY <1>1, <3>1
    <3>3. QED
      BY <3>1, <3>2
  <2>3. UNCHANGED Steering!loopFrame /\ pc = "respond" /\ pc' = "calls" /\ abandoned' = FALSE /\ boundary' = boundary
        /\ result' = result /\ notifier' = notifier
    BY <1>15 DEF Steering!ToolResponse
  <2>4. activeTurn' = activeTurn
    BY <2>3
  <2>5. Calling'
    BY <1>3, <2>1, <2>3, <2>4
  <2> HIDE DEF Calling
  <2>6. openCalls' \in 0 .. MaxCalls
    BY <1>0, <2>1
  <2>7. pc \in LoopPlaces /\ pc' \in LoopPlaces /\ boundary' \in Steering!Boundaries
            /\ result' \in {"none", "answered", "stopped"}
    BY <1>1, <2>3
  <2>8. QED
    BY <2>2, <2>3, <2>5, <2>6, <2>7
<1>16. CASE Steering!SkipCalls
  BY <1>0, <1>1, <1>2, <1>3, <1>16 DEF Steering!SkipCalls
<1>17. CASE Steering!CloseSkippedCall
  BY <1>0, <1>1, <1>2, <1>3, <1>17 DEF Steering!CloseSkippedCall
<1>18. CASE Steering!TakeAfterSkipping
  BY <1>0, <1>1, <1>2, <1>3, <1>18 DEF Steering!TakeAfterSkipping
<1>19. ASSUME NEW waits \in BOOLEAN, Steering!BeginCall(waits)
      PROVE  Looped
  <2>1. notifier' \in {notifier, Steering!OpenAttempt(notifier)}
    BY <1>19 DEF Steering!BeginCall
  <2>2. UNCHANGED Steering!loopFrame /\ pc = "calls" /\ pc' = "calling" /\ UNCHANGED <<openCalls, abandoned, boundary,
                                                                                       routing, asks, steered,
                                                                                       result>>
    BY <1>19 DEF Steering!BeginCall
  <2>3. openCalls > 0 /\ activeTurn' = activeTurn
    BY <1>19, <2>2 DEF Steering!BeginCall
  <2>4. QED
    BY <1>0, <1>1, <1>3, <2>1, <2>2, <2>3
<1>20. CASE Steering!EndCall
  <2>1. UNCHANGED Steering!loopFrame /\ pc = "calling" /\ openCalls' = openCalls - 1 /\ notifier'
            = Steering!Dispose(notifier)
        /\ UNCHANGED <<abandoned, boundary, routing, steered>>
    BY <1>20 DEF Steering!EndCall
  <2>2. \/ pc' = "finishing" /\ forked /\ result' = "stopped"
        \/ pc' = "calls" /\ result' = result
    BY <1>20 DEF Steering!EndCall
  <2>3. {routing', asks', steered'} \subseteq BOOLEAN
    <3>1. asks' \in {asks, FALSE} /\ routing' = routing /\ steered' = steered
      BY <1>20 DEF Steering!EndCall
    <3>2. QED
      BY <1>1, <3>1
  <2>4. activeTurn' = activeTurn /\ activeTurn # 0 /\ forked' = forked
    BY <1>3, <2>1
  <2>5. openCalls' \in 0 .. MaxCalls
    BY <1>0, <1>1, <1>2, <2>1
  <2>6. Calling'
    BY <2>1, <2>2, <2>4
  <2> HIDE DEF Calling
  <2>7. pc \in LoopPlaces /\ pc' \in LoopPlaces \cup {"finishing"} /\ boundary' \in Steering!Boundaries
        /\ result' \in {"none", "answered", "stopped"} /\ abandoned' = abandoned /\ pc' # "calling"
    BY <1>1, <2>1, <2>2
  <2>8. QED
    BY <2>1, <2>3, <2>5, <2>6, <2>7
<1>21. CASE Steering!BatchEnds
  BY <1>0, <1>1, <1>2, <1>3, <1>21 DEF Steering!BatchEnds
<1>22. CASE Steering!SettleToolBatch
  BY <1>0, <1>1, <1>2, <1>3, <1>22 DEF Steering!SettleToolBatch
<1>23. QED
  BY <1>4, <1>5, <1>6, <1>7, <1>8, <1>9, <1>10, <1>11, <1>12, <1>13,
     <1>14, <1>15, <1>16, <1>17, <1>18, <1>19, <1>20, <1>21, <1>22 DEF Steering!Step

\* The parts of the invariant that a step leaves alone with what they are about.
LEMMA Untouched ==
  /\ Queue /\ UNCHANGED <<pending, assigned, watermark>> => Queue'
  /\ Once /\ Steering!Accepted' = Steering!Accepted => Once'
  /\ Heard /\ UNCHANGED <<told, heard, hand, images, known, watermark>> /\ pc # "dead" /\ pc # "apply" => Heard'
  /\ Heard /\ UNCHANGED <<told, heard, hand, images, known, watermark>> /\ pc' = pc => Heard'
  /\ Attempts /\ UNCHANGED <<pending, watermark, notifier>> /\ (pc \in {"dead", "idle"} => pc' = pc)
       /\ (pc \in {"request", "calling"} => pc' = pc) => Attempts'
<1>1. Queue /\ UNCHANGED <<pending, assigned, watermark>> => Queue'
  BY DEF Queue
<1>2. Once /\ Steering!Accepted' = Steering!Accepted => Once'
  BY DEF Once
<1>3. Heard /\ UNCHANGED <<told, heard, hand, images, known, watermark>> /\ pc # "dead" /\ pc # "apply" => Heard'
  BY DEF Heard, Steering!ConversationKeepsUp, Steering!Fills
<1>4. Heard /\ UNCHANGED <<told, heard, hand, images, known, watermark>> /\ pc' = pc => Heard'
  BY DEF Heard, Steering!ConversationKeepsUp, Steering!Fills
<1>5. Attempts /\ UNCHANGED <<pending, watermark, notifier>> /\ (pc \in {"dead", "idle"} => pc' = pc)
        /\ (pc \in {"request", "calling"} => pc' = pc) => Attempts'
  BY DEF Attempts, Settled
<1>6. QED
  BY <1>1, <1>2, <1>3, <1>4, <1>5

LEMMA AcceptedKept == UNCHANGED <<told, pending>> => Steering!Accepted' = Steering!Accepted
BY DEF Steering!Accepted, Steering!Ids

LEMMA LoopKeeps ==
  ASSUME SteeringInv, Looped
  PROVE  SteeringInv'
<1>1. UNCHANGED Steering!loopFrame /\ pc \in LoopPlaces /\ pc' \in LoopPlaces \cup {"take", "finishing"}
  BY DEF Looped
<1>2. /\ UNCHANGED <<pending, assigned, watermark, told, activeTurn, sealed, outcome, turns, inbox, admitted, todo>>
      /\ UNCHANGED <<hand, heard, forked, known, images, interrupted, crashes>>
  BY <1>1 DEF Steering!loopFrame, Steering!inboxVars, Steering!turnVars, Steering!peerVars, Steering!talkVars
<1>3. notifier \in NotifierSet /\ Attempts
  BY DEF SteeringInv, Steering!TypeOK, NotifierSet
<1>4. /\ notifier' \in NotifierSet /\ Settled(notifier')
      /\ notifier'.notified = notifier.notified /\ notifier'.consumed = notifier.consumed
      /\ notifier'.attempt # "none" => pc' \in {"request", "calling"}
  <2>1. Settled(notifier) /\ (notifier.attempt # "none" => pc \in {"request", "calling"}) /\ 0 \in Nat
    BY <1>3 DEF Attempts
  <2>2. /\ Steering!OpenAttempt(notifier) \in NotifierSet /\ Settled(Steering!OpenAttempt(notifier))
        /\ Steering!OpenAttempt(notifier).consumed = notifier.consumed
        /\ Steering!OpenAttempt(notifier).notified = notifier.notified
        /\ Steering!Dispose(notifier) \in NotifierSet /\ Settled(Steering!Dispose(notifier))
        /\ Steering!Dispose(notifier).consumed = notifier.consumed
        /\ Steering!Dispose(notifier).notified = notifier.notified
        /\ Steering!Dispose(notifier).attempt = "none"
    BY <1>3, <2>1, NotifierMoves
  <2>3. \/ notifier' = notifier /\ pc \notin {"request", "calling"}
        \/ notifier' = Steering!OpenAttempt(notifier) /\ pc' \in {"request", "calling"}
        \/ notifier' = Steering!Dispose(notifier)
    BY DEF Looped
  <2>4. QED
    BY <1>3, <2>1, <2>2, <2>3
<1>5. Steering!TypeOK'
  <2>1. /\ boundary' \in Steering!Boundaries /\ {routing', asks', steered'} \subseteq BOOLEAN
        /\ result' \in {"none", "answered", "stopped"} /\ openCalls' \in 0 .. MaxCalls /\ abandoned' \in BOOLEAN
    <3>1. abandoned \in BOOLEAN
      BY DEF SteeringInv, Steering!TypeOK
    <3>2. QED
      BY <3>1 DEF Looped
  <2>2. pc' \in {"dead", "idle", "step", "take", "admit", "acknowledge", "drain", "apply", "ready", "request",
                 "respond", "challenge", "calls", "calling", "skip", "settle", "answer", "finishing", "route", "local"}
    BY <1>1 DEF LoopPlaces
  <2>3. Steering!TypeOK
    BY DEF SteeringInv
  <2>4. QED
    BY <1>2, <1>4, <2>1, <2>2, <2>3 DEF Steering!TypeOK, NotifierSet
<1>6. Queue' /\ Once' /\ Heard'
  BY <1>1, <1>2, Untouched, AcceptedKept DEF SteeringInv, LoopPlaces
<1>7. Attempts'
  BY <1>1, <1>2, <1>3, <1>4 DEF Attempts, LoopPlaces
<1>8. Flow'
  <2>1. Flow /\ (pc' = "calling" => openCalls' > 0) /\ (pc = "answer" => pc' = "finishing")
    BY DEF Looped, SteeringInv
  <2>2. QED
    BY <1>1, <1>2, <2>1 DEF Flow, LoopPlaces
<1>9. QED
  BY <1>5, <1>6, <1>7, <1>8 DEF SteeringInv, Looped

LEMMA EntryTyped ==
  ASSUME NEW p \in Seq(SteeringEntry), NEW i \in 1 .. Len(p)
  PROVE  p[i].id \in Steering!Messages /\ p[i].source \in Steering!Sources /\ p[i].sequence \in Nat
<1>1. p[i] \in SteeringEntry
  OBVIOUS
<1>2. QED
  BY <1>1 DEF SteeringEntry

\* A new message at the end of the queue.
LEMMA AppendKeeps ==
  ASSUME SteeringInv, NEW m \in Steering!Messages, NEW source \in Steering!Sources,
          m \notin Steering!ToSet(Steering!Accepted),
         pending' = Append(pending, [id |-> m, source |-> source, sequence |-> assigned + 1]),
         assigned' = assigned + 1, UNCHANGED <<told, watermark>>
  PROVE  /\ pending' \in Seq(SteeringEntry) /\ assigned' \in Nat
         /\ Queue' /\ Once'
         /\ Steering!Accepted' = Append(Steering!Accepted, m)
         /\ Len(pending') = Len(pending) + 1 /\ Len(pending) \in Nat
         /\ \A i \in 1 .. Len(pending) : pending'[i] = pending[i] /\ pending[i].sequence \in Nat
         /\ pending'[Len(pending) + 1].source = source /\ pending'[Len(pending) + 1].sequence = assigned + 1
<1> DEFINE e == [id |-> m, source |-> source, sequence |-> assigned + 1]
<1>1. /\ Queue /\ Once
      /\ pending \in Seq(SteeringEntry) /\ told \in Seq(Steering!Messages) /\ assigned \in Nat /\ watermark \in Nat
  BY DEF SteeringInv, Steering!TypeOK, SteeringEntry
<1>2. e \in SteeringEntry /\ e.source = source /\ e.id = m /\ e.sequence = assigned + 1
  BY <1>1 DEF SteeringEntry
<1>3. pending' = Append(pending, e)
  OBVIOUS
<1> HIDE DEF e
<1>4. /\ pending' \in Seq(SteeringEntry) /\ Len(pending') = Len(pending) + 1 /\ Len(pending) \in Nat
      /\ \A i \in 1 .. Len(pending) : pending'[i] = pending[i]
      /\ pending'[Len(pending) + 1] = e
  BY <1>1, <1>2, <1>3, AppendProperties
<1>5. Queue'
  <2>1. \A i \in 1 .. Len(pending') : i \in 1 .. Len(pending) \/ i = Len(pending) + 1
    BY <1>4
  <2>2. \A i \in 1 .. Len(pending) : /\ watermark < pending[i].sequence /\ pending[i].sequence <= assigned
                                     /\ pending[i].sequence \in Nat
    BY <1>1, EntryTyped DEF Queue
  <2>3. watermark' <= assigned'
    BY <1>1 DEF Queue
  <2>4. \A i \in 1 .. Len(pending') : watermark' < pending'[i].sequence /\ pending'[i].sequence <= assigned'
    <3> SUFFICES ASSUME NEW i \in 1 .. Len(pending')
                 PROVE  watermark' < pending'[i].sequence /\ pending'[i].sequence <= assigned'
      OBVIOUS
    <3>1. CASE i \in 1 .. Len(pending)
      BY <1>1, <1>4, <2>2, <3>1
    <3>2. CASE i = Len(pending) + 1
      BY <1>1, <1>2, <1>4, <3>2 DEF Queue
    <3>3. QED
      BY <2>1, <3>1, <3>2
  <2>5. \A i, j \in 1 .. Len(pending') : i < j => pending'[i].sequence < pending'[j].sequence
    <3> SUFFICES ASSUME NEW i \in 1 .. Len(pending'), NEW j \in 1 .. Len(pending'), i < j
                 PROVE  pending'[i].sequence < pending'[j].sequence
      OBVIOUS
    <3>1. i \in 1 .. Len(pending) /\ pending'[i] = pending[i]
      BY <1>4
    <3>2. CASE j \in 1 .. Len(pending)
      BY <1>1, <1>4, <3>1, <3>2 DEF Queue
    <3>3. CASE j = Len(pending) + 1
      <4>1. pending'[j].sequence = assigned + 1 /\ pending'[i].sequence <= assigned /\ pending'[i].sequence \in Nat
        BY <1>2, <1>4, <2>2, <3>1, <3>3
      <4>2. QED
        BY <1>1, <4>1
    <3>4. QED
      BY <2>1, <3>2, <3>3
  <2>6. QED
    BY <2>3, <2>4, <2>5 DEF Queue
<1>6. /\ Steering!Accepted \in Seq(Steering!Messages) /\ Steering!Accepted' = Append(Steering!Accepted, m)
  <2>1. Steering!Ids(pending) \in Seq(Steering!Messages)
    BY <1>1, IdsTyped
  <2>2. Steering!Ids(pending') = Append(Steering!Ids(pending), m)
    BY <1>1, <1>2, <1>3, IdsOfAppend
  <2> DEFINE p == Steering!Ids(pending)
  <2>3. Steering!Accepted = told \o p /\ Steering!Accepted' = told \o Append(p, m)
    BY <2>2 DEF Steering!Accepted
  <2> HIDE DEF p
  <2>4. p \in Seq(Steering!Messages)
    BY <2>1 DEF p
  <2>5. told \o Append(p, m) = Append(told \o p, m)
    BY <1>1, <2>4
  <2>6. QED
    BY <1>1, <2>3, <2>4, <2>5
<1>7. Once'
  <2> DEFINE a == Steering!Accepted
             b == Steering!Accepted'
  <2>1. a \in Seq(Steering!Messages) /\ b = Append(a, m) /\ m \notin Steering!ToSet(a)
    BY <1>6
  <2>2. \A i, j \in 1 .. Len(a) : a[i] = a[j] => i = j
    BY <1>1 DEF Once
  <2> HIDE DEF a, b
  <2>3. \A i \in 1 .. Len(a) : a[i] # m
    BY <2>1 DEF Steering!ToSet
  <2>4. Len(b) = Len(a) + 1 /\ Len(a) \in Nat /\ b[Len(a) + 1] = m /\ \A i \in 1 .. Len(a) : b[i] = a[i]
    BY <2>1, AppendProperties
  <2>5. \A i \in 1 .. Len(b) : i \in 1 .. Len(a) \/ i = Len(a) + 1
    BY <2>4
  <2>6. \A i, j \in 1 .. Len(b) : b[i] = b[j] => i = j
    BY <2>2, <2>3, <2>4, <2>5
  <2>7. QED
    BY <2>6 DEF Once, b
<1>8. QED
  BY <1>1, <1>2, <1>4, <1>5, <1>6, <1>7, EntryTyped

\* The user's next adjustment.
LEMMA SubmitKeeps ==
  ASSUME SteeringInv, NEW m \in Adjustments, Steering!Submit(m)
  PROVE  SteeringInv'
<1> DEFINE k == assigned + 1
<1>1. /\ pending' = Append(pending, [id |-> m, source |-> "user_adjust", sequence |-> assigned + 1])
      /\ assigned' = assigned + 1 /\ notifier' = Steering!Notify(notifier, k)
      /\ m \notin Steering!ToSet(Steering!Accepted) /\ pc \notin {"dead", "idle", "finishing"} /\ ~sealed
      /\ activeTurn # 0
      /\ UNCHANGED <<watermark, told, Steering!turnVars, Steering!callVars, Steering!peerVars, pc, boundary, todo,
                     hand, Steering!talkVars, Steering!flowVars, interrupted, crashes>>
  BY DEF Steering!Submit, Steering!Running
<1>2. /\ Steering!TypeOK /\ Heard /\ Attempts /\ Flow /\ Calling
      /\ notifier \in NotifierSet /\ k \in Nat
  BY DEF SteeringInv, Steering!TypeOK, NotifierSet
<1>3. /\ pending' \in Seq(SteeringEntry) /\ assigned' \in Nat
      /\ Queue' /\ Once'
      /\ Len(pending') = Len(pending) + 1 /\ Len(pending) \in Nat
      /\ \A i \in 1 .. Len(pending) : pending'[i] = pending[i] /\ pending[i].sequence \in Nat
      /\ pending'[Len(pending) + 1].sequence = k
  BY <1>1, AppendKeeps DEF Steering!Messages, Steering!Sources
<1>4. /\ notifier' \in NotifierSet /\ Settled(notifier') /\ notifier'.consumed = notifier.consumed
      /\ notifier.notified <= notifier'.notified /\ k <= notifier'.notified
      /\ notifier.attempt = "none" => notifier'.attempt = "none"
  <2> HIDE DEF k
  <2>1. QED
    BY <1>1, <1>2, NotifierMoves DEF Attempts
<1> HIDE DEF k
<1>5. Steering!TypeOK'
  BY <1>1, <1>2, <1>3, <1>4 DEF Steering!TypeOK, NotifierSet, SteeringEntry, Steering!turnVars, Steering!callVars,
    Steering!peerVars, Steering!talkVars, Steering!flowVars
<1>6. Heard'
  BY <1>1, <1>2, Untouched DEF Steering!talkVars
<1>7. Attempts'
  <2>1. ASSUME NEW i \in 1 .. Len(pending'), pending'[i].source = "user_adjust"
        PROVE  pending'[i].sequence <= notifier'.notified
    <3>1. CASE i \in 1 .. Len(pending)
      <4>1. pending'[i] = pending[i] /\ pending[i].sequence \in Nat /\ pending[i].sequence <= notifier.notified
        BY <1>1, <1>2, <1>3, <2>1, <3>1 DEF Attempts
      <4>2. notifier.notified \in Nat /\ notifier'.notified \in Nat
        BY <1>2, <1>4 DEF NotifierSet
      <4>3. QED
        BY <1>4, <4>1, <4>2
    <3>2. CASE i = Len(pending) + 1
      BY <1>3, <1>4, <3>2
    <3>3. QED
      BY <1>3, <3>1, <3>2
  <2>2. QED
    BY <1>1, <1>2, <1>4, <2>1 DEF Attempts
<1>8. Flow' /\ Calling'
  BY <1>1, <1>2 DEF Flow, Calling, Steering!turnVars, Steering!callVars, Steering!peerVars, Steering!talkVars
<1>9. QED
  BY <1>3, <1>5, <1>6, <1>7, <1>8 DEF SteeringInv

\* A peer sends: only the table changes.
LEMMA SendKeeps ==
  ASSUME SteeringInv, NEW m \in Peers, Steering!Send(m)
  PROVE  SteeringInv'
<1>1. /\ inbox' = Append(inbox, m)
      /\ UNCHANGED <<Steering!inboxVars, Steering!turnVars, Steering!callVars, admitted, pc, boundary, todo, hand,
                     Steering!talkVars, Steering!flowVars, interrupted, notifier, crashes>>
  BY DEF Steering!Send
<1>2. Steering!TypeOK /\ Queue /\ Once /\ Heard /\ Attempts /\ Flow /\ Calling
  BY DEF SteeringInv
<1>3. Steering!TypeOK'
  BY <1>1, <1>2 DEF Steering!TypeOK, Steering!inboxVars, Steering!turnVars, Steering!callVars, Steering!talkVars,
    Steering!flowVars
<1>4. Queue' /\ Once' /\ Heard' /\ Attempts'
  BY <1>1, <1>2, Untouched, AcceptedKept DEF Steering!inboxVars, Steering!talkVars
<1>5. Flow' /\ Calling'
  <2>1. inbox \in Seq(Peers) /\ inbox' = inbox \o <<m>> /\ <<m>> \in Seq(Peers)
    BY <1>1, <1>2, AppendIsConcat DEF Steering!TypeOK
  <2>2. Steering!ToSet(inbox \o <<m>>) = Steering!ToSet(inbox) \cup Steering!ToSet(<<m>>)
    BY <2>1, ToSetConcat
  <2>3. Steering!ToSet(inbox) \subseteq Steering!ToSet(inbox')
    BY <2>1, <2>2
  <2>4. QED
    BY <1>1, <1>2, <2>3 DEF Flow, Calling, Steering!turnVars, Steering!callVars, Steering!talkVars
<1>6. QED
  BY <1>3, <1>4, <1>5 DEF SteeringInv

LEMMA InterruptKeeps ==
  ASSUME SteeringInv, Steering!Interrupt
  PROVE  SteeringInv'
<1>1. /\ interrupted' = TRUE
      /\ UNCHANGED <<Steering!inboxVars, Steering!turnVars, Steering!callVars, Steering!peerVars, pc, boundary, todo,
                     hand, Steering!talkVars, Steering!flowVars, notifier, crashes>>
  BY DEF Steering!Interrupt
<1>2. Steering!TypeOK /\ Queue /\ Once /\ Heard /\ Attempts /\ Flow /\ Calling
  BY DEF SteeringInv
<1>3. Steering!TypeOK'
  BY <1>1, <1>2 DEF Steering!TypeOK, Steering!inboxVars, Steering!turnVars, Steering!callVars, Steering!peerVars,
    Steering!talkVars, Steering!flowVars
<1>4. Queue' /\ Once' /\ Heard' /\ Attempts'
  BY <1>1, <1>2, Untouched, AcceptedKept DEF Steering!inboxVars, Steering!talkVars
<1>5. Flow' /\ Calling'
  BY <1>1, <1>2 DEF Flow, Calling, Steering!turnVars, Steering!callVars, Steering!peerVars, Steering!talkVars
<1>6. QED
  BY <1>3, <1>4, <1>5 DEF SteeringInv

-----------------------------------------------------------------------------
(* A drain *)

\* Of messages that were sent, one was sent first.
LEMMA EarliestOfSome ==
  ASSUME inbox \in Seq(Peers), NEW S, S \subseteq Steering!ToSet(inbox), S # {}
  PROVE  Steering!Earliest(S) \in S /\ Steering!Before(Steering!Earliest(S), S) = {}
<1> DEFINE Places == {Steering!Place(n) : n \in S}
<1>1. \A n \in S : Steering!Place(n) \in DOMAIN inbox
  BY DEF Steering!Place, Steering!ToSet
<1>2. Places \subseteq Nat /\ Places # {}
  <2>1. DOMAIN inbox \subseteq Nat
    OBVIOUS
  <2>2. QED
    BY <1>1, <2>1
<1>3. Steering!Min(Places) \in Places /\ \A y \in Places : Steering!Min(Places) <= y
  BY <1>2, MinOfSome
<1>4. PICK m \in S : Steering!Min(Places) = Steering!Place(m)
  BY <1>3
<1>5. ASSUME NEW n \in S, Steering!Place(n) < Steering!Place(m)
      PROVE  FALSE
  <2>1. Steering!Place(m) <= Steering!Place(n) /\ Steering!Place(m) \in Nat /\ Steering!Place(n) \in Nat
    BY <1>2, <1>3, <1>4
  <2>2. QED
    BY <1>5, <2>1
<1>6. Steering!Before(m, S) = {}
  BY <1>5 DEF Steering!Before
<1>7. QED
  BY <1>4, <1>6 DEF Steering!Earliest

LEMMA BeginAdmissionKeeps ==
  ASSUME SteeringInv, Steering!BeginAdmission
  PROVE  SteeringInv'
<1>1. /\ pc = "take" /\ pc' = "admit" /\ Steering!Admits
      /\ todo' = {m \in Steering!Unadmitted : Cardinality(Steering!Before(m, Steering!Unadmitted)) < PerBoundary}
      /\ UNCHANGED <<Steering!inboxVars, Steering!turnVars, Steering!callVars, Steering!peerVars, boundary, hand,
                     Steering!talkVars, Steering!flowVars, interrupted, notifier, crashes>>
  BY SameCount DEF Steering!BeginAdmission, Steering!Goto
<1>2. Steering!TypeOK /\ Queue /\ Once /\ Heard /\ Attempts /\ Flow /\ Calling
  BY DEF SteeringInv
<1>3. todo' # {} /\ todo' \subseteq Steering!ToSet(inbox) /\ todo' \subseteq Peers
  <2>1. inbox \in Seq(Peers) /\ Steering!Unadmitted \subseteq Steering!ToSet(inbox) /\ Steering!Unadmitted # {}
    BY <1>1, <1>2 DEF Steering!TypeOK, Steering!Unadmitted, Steering!Admits
  <2>2. PICK m \in Steering!Unadmitted : Steering!Before(m, Steering!Unadmitted) = {}
    BY <2>1, EarliestOfSome
  <2>3. Cardinality(Steering!Before(m, Steering!Unadmitted)) = 0
    BY <2>2, FS_EmptySet
  <2>4. m \in todo'
    BY <1>1, <2>2, <2>3, SteeringAssumption
  <2>5. Steering!ToSet(inbox) \subseteq Peers
    BY <2>1, ToSetTyped
  <2>6. QED
    BY <1>1, <2>1, <2>4, <2>5
<1>4. Steering!TypeOK'
  BY <1>1, <1>2, <1>3 DEF Steering!TypeOK, Steering!inboxVars, Steering!turnVars, Steering!callVars, Steering!peerVars,
    Steering!talkVars, Steering!flowVars
<1>5. Queue' /\ Once' /\ Heard' /\ Attempts'
  BY <1>1, <1>2, Untouched, AcceptedKept DEF Steering!inboxVars, Steering!talkVars
<1>6. Flow' /\ Calling'
  BY <1>1, <1>2, <1>3 DEF Flow, Calling, Steering!turnVars, Steering!callVars, Steering!peerVars, Steering!talkVars
<1>7. QED
  BY <1>4, <1>5, <1>6 DEF SteeringInv

LEMMA AdmitPeerKeeps ==
  ASSUME SteeringInv, Steering!AdmitPeer
  PROVE  SteeringInv'
<1> DEFINE m == Steering!Earliest(todo)
<1>1. /\ pc = "admit" /\ pc' = "acknowledge"
      /\ UNCHANGED <<watermark, told, Steering!turnVars, Steering!callVars, Steering!peerVars, boundary, todo, hand,
                     Steering!talkVars, Steering!flowVars, interrupted, notifier, crashes>>
      /\ \/ UNCHANGED <<pending, assigned>>
         \/ /\ m \notin Steering!ToSet(Steering!Accepted)
            /\ pending' = Append(pending, [id |-> m, source |-> "peer_message", sequence |-> assigned + 1])
            /\ assigned' = assigned + 1
  BY DEF Steering!AdmitPeer, Steering!Goto
<1>2. Steering!TypeOK /\ Queue /\ Once /\ Heard /\ Attempts /\ Flow /\ Calling
  BY DEF SteeringInv
<1>3. m \in Steering!Messages
  BY <1>1, <1>2, EarliestOfSome DEF Steering!TypeOK, Flow, Steering!Messages
<1> HIDE DEF m
<1>4. /\ pending' \in Seq(SteeringEntry) /\ assigned' \in Nat
      /\ Queue' /\ Once'
      /\ \A i \in 1 .. Len(pending') : pending'[i].source = "user_adjust" => i \in 1 .. Len(pending)
           /\ pending'[i] = pending[i]
  <2>1. CASE UNCHANGED <<pending, assigned>>
    BY <1>1, <1>2, <2>1, Untouched, AcceptedKept DEF Steering!TypeOK, SteeringEntry
  <2>2. CASE ~UNCHANGED <<pending, assigned>>
    <3>1. /\ pending' \in Seq(SteeringEntry) /\ assigned' \in Nat
          /\ Queue' /\ Once'
          /\ Len(pending') = Len(pending) + 1 /\ Len(pending) \in Nat
          /\ \A i \in 1 .. Len(pending) : pending'[i] = pending[i]
          /\ pending'[Len(pending) + 1].source = "peer_message"
      BY <1>1, <1>3, <2>2, AppendKeeps DEF Steering!Sources
    <3>2. \A i \in 1 .. Len(pending') : i \in 1 .. Len(pending) \/ i = Len(pending) + 1
      BY <3>1
    <3>3. QED
      BY <3>1, <3>2
  <2>3. QED
    BY <2>1, <2>2
<1>5. Steering!TypeOK'
  BY <1>1, <1>2, <1>4 DEF Steering!TypeOK, SteeringEntry, Steering!turnVars, Steering!callVars, Steering!peerVars,
    Steering!talkVars, Steering!flowVars
<1>6. Heard'
  BY <1>1, <1>2, Untouched DEF Steering!talkVars
<1>7. Attempts'
  BY <1>1, <1>2, <1>4 DEF Attempts, Settled
<1>8. Flow' /\ Calling'
  BY <1>1, <1>2 DEF Flow, Calling, Steering!turnVars, Steering!callVars, Steering!peerVars, Steering!talkVars
<1>9. QED
  BY <1>4, <1>5, <1>6, <1>7, <1>8 DEF SteeringInv

LEMMA AcknowledgeKeeps ==
  ASSUME SteeringInv, Steering!Acknowledge
  PROVE  SteeringInv'
<1>1. /\ pc = "acknowledge" /\ pc' = (IF todo' = {} THEN "drain" ELSE "admit")
      /\ admitted' = admitted \cup {Steering!Earliest(todo)} /\ todo' = todo \ {Steering!Earliest(todo)}
      /\ UNCHANGED <<Steering!inboxVars, Steering!turnVars, Steering!callVars, inbox, boundary, hand,
                     Steering!talkVars, Steering!flowVars, interrupted, notifier, crashes>>
  BY DEF Steering!Acknowledge, Steering!Goto
<1>2. Steering!TypeOK /\ Queue /\ Once /\ Heard /\ Attempts /\ Flow /\ Calling
  BY DEF SteeringInv
<1>3. Steering!Earliest(todo) \in todo /\ todo \subseteq Peers /\ todo \subseteq Steering!ToSet(inbox)
  BY <1>1, <1>2, EarliestOfSome DEF Steering!TypeOK, Flow
<1>4. Steering!TypeOK'
  BY <1>1, <1>2, <1>3 DEF Steering!TypeOK, Steering!inboxVars, Steering!turnVars, Steering!callVars, Steering!talkVars,
    Steering!flowVars
<1>5. Queue' /\ Once' /\ Heard' /\ Attempts'
  BY <1>1, <1>2, Untouched, AcceptedKept DEF Steering!inboxVars, Steering!talkVars
<1>6. Flow' /\ Calling'
  BY <1>1, <1>2, <1>3 DEF Flow, Calling, Steering!turnVars, Steering!callVars, Steering!talkVars
<1>7. QED
  BY <1>4, <1>5, <1>6 DEF SteeringInv

\* A drain moves the first entries of the queue to the history.
LEMMA DrainMoves ==
  ASSUME SteeringInv, Steering!DrainBatch
  PROVE  /\ pending' \in Seq(SteeringEntry) /\ told' \in Seq(Steering!Messages) /\ watermark' \in Nat
         /\ hand'.ids \in Seq(Steering!Messages) /\ hand' = [ids |-> hand'.ids, through |-> watermark']
         /\ told' = told \o hand'.ids
         /\ Steering!Accepted \in Seq(Steering!Messages) /\ Steering!Accepted' = Steering!Accepted
         /\ \E k \in Len(told) + 1 .. Len(Steering!Accepted) : told' = SubSeq(Steering!Accepted, 1, k)
         /\ Steering!ToSet(told) \cap Steering!ToSet(hand'.ids) = {}
         /\ watermark <= watermark' /\ Queue'
         /\ \A i \in 1 .. Len(pending') : \E j \in 1 .. Len(pending) : pending'[i] = pending[j]
<1> DEFINE k == Steering!FirstRun
           entries == SubSeq(pending, 1, k)
           rest == SubSeq(pending, k + 1, Len(pending))
           ids == Steering!Ids(entries)
<1>1. /\ pending # <<>> /\ hand' = [ids |-> ids, through |-> Steering!Last(entries).sequence]
      /\ told' = told \o ids /\ watermark' = Steering!Last(entries).sequence
      /\ pending' = rest /\ assigned' = assigned
  BY DEF Steering!DrainBatch
<1>2. /\ Queue /\ Once /\ pending \in Seq(SteeringEntry) /\ told \in Seq(Steering!Messages) /\ assigned \in Nat
      /\ watermark \in Nat
  BY DEF SteeringInv, Steering!TypeOK, SteeringEntry
<1>3. k \in 1 .. Len(pending) /\ k \in 0 .. Len(pending) /\ Len(pending) \in Nat
  BY <1>1, <1>2, FirstRunBounds
<1>4. /\ entries \in Seq(SteeringEntry) /\ rest \in Seq(SteeringEntry)
      /\ Steering!Ids(pending) = ids \o Steering!Ids(rest)
      /\ ids = SubSeq(Steering!Ids(pending), 1, k)
  BY <1>2, <1>3, IdsOfParts
<1> HIDE DEF k
<1>5. /\ Len(entries) = k /\ entries[k] = pending[k]
      /\ Len(rest) = Len(pending) - k /\ \A i \in 1 .. Len(pending) - k : rest[i] = pending[k + i]
  BY <1>2, <1>3
<1>6. ids \in Seq(Steering!Messages) /\ Len(ids) = k /\ Steering!Ids(rest) \in Seq(Steering!Messages)
  BY <1>4, <1>5, IdsTyped
<1>7. watermark' = pending[k].sequence /\ watermark' \in Nat /\ watermark < watermark' /\ watermark' <= assigned
  <2>1. Steering!Last(entries) = pending[k]
    BY <1>5 DEF Steering!Last
  <2>2. QED
    BY <1>1, <1>2, <1>3, <2>1, EntryTyped DEF Queue
<1> HIDE DEF entries, rest, ids
<1>8. Steering!Accepted \in Seq(Steering!Messages) /\ Steering!Accepted' = Steering!Accepted
  <2>1. told \o (ids \o Steering!Ids(rest)) = (told \o ids) \o Steering!Ids(rest)
    BY <1>2, <1>6, ConcatAssociative
  <2>2. Steering!Accepted = told \o (ids \o Steering!Ids(rest)) /\ Steering!Accepted'
            = (told \o ids) \o Steering!Ids(rest)
    BY <1>1, <1>4 DEF Steering!Accepted, Steering!Ids
  <2>3. ids \o Steering!Ids(rest) \in Seq(Steering!Messages)
    BY <1>6
  <2>4. told \o (ids \o Steering!Ids(rest)) \in Seq(Steering!Messages)
    BY <1>2, <2>3
  <2>5. QED
    BY <2>1, <2>2, <2>4
<1> DEFINE q == Steering!Ids(rest)
           a == Steering!Accepted
<1>9. a = told' \o q /\ told' \in Seq(Steering!Messages) /\ q \in Seq(Steering!Messages) /\ Len(told') = Len(told) + k
      /\ Len(told) \in Nat
      /\ Len(a) = Len(told') + Len(q) /\ Len(q) \in Nat /\ \A m \in 1 .. Len(told') : a[m] = told'[m]
  <2>1. Steering!Accepted' = told' \o q
    BY <1>1 DEF Steering!Accepted, Steering!Ids
  <2>2. told \o ids \in Seq(Steering!Messages) /\ Len(told \o ids) = Len(told) + Len(ids)
    BY <1>2, <1>6
  <2> DEFINE t == told'
  <2>3. a = t \o q /\ t \in Seq(Steering!Messages) /\ q \in Seq(Steering!Messages) /\ Len(t) = Len(told) + k
            /\ Len(told) \in Nat
    BY <1>1, <1>2, <1>6, <1>8, <2>1, <2>2
  <2> HIDE DEF t, q, a
  <2>4. Len(t \o q) = Len(t) + Len(q) /\ Len(t) \in Nat /\ Len(q) \in Nat /\ \A m \in 1 .. Len(t) : (t \o q)[m] = t[m]
    BY <2>3
  <2>5. QED
    BY <2>3, <2>4 DEF t
<1>10. \E n \in Len(told) + 1 .. Len(a) : told' = SubSeq(a, 1, n)
  <2> HIDE DEF q, a
  <2> DEFINE n == Len(told')
  <2>1. Len(a) = Len(told') + Len(q) /\ Len(q) \in Nat
    BY <1>9
  <2>2. n \in Len(told) + 1 .. Len(a)
    BY <1>3, <1>9, <2>1
  <2>3. 1 \in 1 .. Len(told') /\ n \in 1 .. Len(told')
    BY <1>3, <1>9
  <2>4. SubSeq(a, 1, n) = SubSeq(told', 1, n)
    BY <1>9, <2>3, SubSeqOfConcat1
  <2>5. SubSeq(told', 1, n) = told'
    BY <1>9, SubSeqFull
  <2>6. QED
    BY <2>2, <2>4, <2>5
<1>11. Steering!ToSet(told) \cap Steering!ToSet(ids) = {}
  <2> SUFFICES ASSUME NEW x \in Steering!ToSet(told), x \in Steering!ToSet(ids)
               PROVE  FALSE
    OBVIOUS
  <2>1. PICK i \in 1 .. Len(told) : told[i] = x
    BY <1>2 DEF Steering!ToSet
  <2>2. PICK j \in 1 .. Len(ids) : ids[j] = x
    BY <1>6 DEF Steering!ToSet
  <2> HIDE DEF q, a
  <2>3. i \in Nat /\ j \in Nat /\ Len(told) \in Nat /\ Len(ids) \in Nat
    BY <1>9, <1>6
  <2>4. told'[i] = x /\ told'[Len(told) + j] = x
    <3>1. (told \o ids)[i] = told[i] /\ (told \o ids)[Len(told) + j] = ids[j]
      BY <1>2, <1>6, <2>3
    <3>2. QED
      BY <1>1, <2>1, <2>2, <3>1
  <2>5. a[i] = told'[i] /\ a[Len(told) + j] = told'[Len(told) + j] /\ i \in 1 .. Len(a) /\ Len(told) + j \in 1 .. Len(a)
    <3>1. i \in 1 .. Len(told') /\ Len(told) + j \in 1 .. Len(told')
      BY <1>6, <1>9, <2>3
    <3>2. \A m \in 1 .. Len(told') : m \in 1 .. Len(a)
      BY <1>6, <1>9, <2>3
    <3>3. QED
      BY <1>9, <3>1, <3>2
  <2>6. i = Len(told) + j
    BY <1>2, <2>4, <2>5 DEF Once, a
  <2>7. QED
    BY <2>3, <2>6
<1>12. Queue'
  <2>1. \A i \in 1 .. Len(rest) : k + i \in 1 .. Len(pending) /\ k < k + i /\ rest[i] = pending[k + i]
    BY <1>3, <1>5
  <2>2. \A i \in 1 .. Len(rest) : watermark' < rest[i].sequence /\ rest[i].sequence <= assigned
    BY <1>2, <1>3, <1>7, <2>1 DEF Queue
  <2>3. \A i, j \in 1 .. Len(rest) : i < j => rest[i].sequence < rest[j].sequence
    <3> SUFFICES ASSUME NEW i \in 1 .. Len(rest), NEW j \in 1 .. Len(rest), i < j
                 PROVE  rest[i].sequence < rest[j].sequence
      OBVIOUS
    <3>1. k + i < k + j
      BY <1>3, <1>5
    <3>2. QED
      BY <1>2, <2>1, <3>1 DEF Queue
  <2>4. QED
    BY <1>1, <1>7, <2>2, <2>3 DEF Queue
<1>13. \A i \in 1 .. Len(pending') : \E j \in 1 .. Len(pending) : pending'[i] = pending[j]
  <2>1. \A i \in 1 .. Len(rest) : k + i \in 1 .. Len(pending) /\ rest[i] = pending[k + i]
    BY <1>3, <1>5
  <2>2. QED
    BY <1>1, <2>1
<1>14. hand'.ids = ids /\ hand' = [ids |-> ids, through |-> watermark']
  BY <1>1
<1>15. pending' \in Seq(SteeringEntry) /\ watermark <= watermark'
  BY <1>1, <1>2, <1>4, <1>7
<1>16. QED
  BY <1>1, <1>6, <1>7, <1>8, <1>9, <1>10, <1>11, <1>12, <1>13, <1>14, <1>15

LEMMA DrainBatchKeeps ==
  ASSUME SteeringInv, Steering!DrainBatch
  PROVE  SteeringInv'
<1> DEFINE ids == hand'.ids
<1>1. /\ pc \in {"drain", "take"} /\ pc' = "apply"
      /\ UNCHANGED <<assigned, Steering!turnVars, Steering!callVars, Steering!peerVars, boundary, todo,
                     Steering!talkVars, Steering!flowVars, interrupted, notifier, crashes>>
  BY DEF Steering!DrainBatch, Steering!Draining, Steering!Goto
<1>2. Steering!TypeOK /\ Queue /\ Once /\ Heard /\ Attempts /\ Flow /\ Calling
  BY DEF SteeringInv
<1>3. /\ pending' \in Seq(SteeringEntry) /\ told' \in Seq(Steering!Messages) /\ watermark' \in Nat
      /\ ids \in Seq(Steering!Messages) /\ hand' = [ids |-> ids, through |-> watermark']
      /\ told' = told \o ids /\ Steering!Accepted' = Steering!Accepted
      /\ Steering!ToSet(told) \cap Steering!ToSet(ids) = {}
      /\ watermark <= watermark' /\ Queue'
      /\ \A i \in 1 .. Len(pending') : \E j \in 1 .. Len(pending) : pending'[i] = pending[j]
  BY DrainMoves
<1> HIDE DEF ids
<1>4. told \in Seq(Steering!Messages) /\ heard \in Seq(Steering!Messages) /\ watermark \in Nat /\ known \in Nat
      /\ notifier.consumed \in Nat /\ images \in Nat
  BY <1>2 DEF Steering!TypeOK
<1>5. hand'.ids = ids /\ hand'.through = watermark'
  BY <1>3
<1>6. Steering!ToSet(told') = Steering!ToSet(told) \cup Steering!ToSet(ids)
  BY <1>3, <1>4, ToSetConcat
<1>7. Heard'
  <2>1. hand.ids = <<>> /\ heard' = heard /\ images' = images /\ known' = known
    BY <1>1, <1>2 DEF Heard, Steering!NoBatch, Steering!talkVars
  <2>2. Steering!ConversationKeepsUp'
    <3>1. Steering!Fills(told) <= Steering!Fills(told') /\ Steering!Fills(told) \in Nat
              /\ Steering!Fills(told') \in Nat /\ MaxTurnImages \in Nat
      BY <1>6, FillsCount, SteeringAssumption
    <3>2. Steering!Fills(told') <= MaxTurnImages => heard \o <<>> = told
      BY <1>1, <1>2, <2>1, <3>1 DEF Heard, Steering!ConversationKeepsUp
    <3>3. heard \o <<>> = heard
      BY <1>4, ConcatEmptySeq
    <3>4. Steering!Fills(told') <= MaxTurnImages => heard \o ids = told'
      BY <1>3, <3>2, <3>3
    <3>5. Steering!Fills(told)' = Steering!Fills(told')
      BY DEF Steering!Fills
    <3>6. QED
      BY <1>5, <2>1, <3>4, <3>5 DEF Steering!ConversationKeepsUp
  <2>3. Steering!ToSet(heard) \subseteq Steering!ToSet(told)
    BY <1>2 DEF Heard
  <2>4. images' <= Steering!Fills(heard')
    BY <1>2, <2>1 DEF Heard
  <2>5. known <= watermark' /\ hand'.through <= watermark'
    BY <1>2, <1>3, <1>4, <1>5 DEF Heard
  <2>6. Steering!Fills(heard)' = Steering!Fills(heard')
    BY DEF Steering!Fills
  <2>7. QED
    BY <1>1, <1>3, <1>5, <1>6, <2>1, <2>2, <2>3, <2>4, <2>5, <2>6 DEF Heard
<1>8. Attempts'
  <2>1. notifier.consumed <= watermark'
    BY <1>2, <1>3, <1>4 DEF Attempts
  <2>2. QED
    BY <1>1, <1>2, <1>3, <2>1 DEF Attempts, Settled
<1>9. Steering!TypeOK'
  <2>1. hand' \in [ids : Seq(Steering!Messages), through : Nat]
    BY <1>3
  <2>2. QED
    BY <1>1, <1>2, <1>3, <2>1 DEF Steering!TypeOK, SteeringEntry, Steering!turnVars, Steering!callVars,
      Steering!peerVars, Steering!talkVars, Steering!flowVars
<1>10. Once' /\ Flow' /\ Calling'
  BY <1>1, <1>2, <1>3, Untouched DEF Flow, Calling, Steering!turnVars, Steering!callVars, Steering!peerVars,
    Steering!talkVars
<1>11. QED
  BY <1>3, <1>7, <1>8, <1>9, <1>10 DEF SteeringInv

LEMMA DrainNothingKeeps ==
  ASSUME SteeringInv, Steering!DrainNothing
  PROVE  SteeringInv'
<1>1. /\ pc \in {"drain", "take"} /\ sealed' = (sealed \/ boundary = "seal") /\ Steering!AfterNothing
      /\ UNCHANGED <<Steering!inboxVars, activeTurn, outcome, turns, Steering!callVars, Steering!peerVars, todo, hand,
                     Steering!talkVars, Steering!flowVars, interrupted, notifier, crashes>>
  BY DEF Steering!DrainNothing, Steering!Draining
<1>2. Steering!TypeOK /\ Queue /\ Once /\ Heard /\ Attempts /\ Flow /\ Calling
  BY DEF SteeringInv
<1>3. /\ pc' \in {"ready", "step", "respond", "local", "settle", "take", "challenge", "answer"}
      /\ boundary' \in Steering!Boundaries
      /\ boundary = "seal" => pc' = "answer"
  <2>1. boundary \in Steering!Boundaries
    BY <1>2 DEF Steering!TypeOK
  <2>2. QED
    BY <1>1, <2>1 DEF Steering!AfterNothing, Steering!Boundaries, Steering!Goto, Steering!NextStep, Steering!TakeAt
<1>4. sealed' \in BOOLEAN /\ (sealed' => pc' = "answer")
  <2>1. ~sealed
    BY <1>1, <1>2 DEF Flow
  <2>2. sealed' <=> boundary = "seal"
    BY <1>1, <2>1
  <2>3. sealed' \in BOOLEAN
    BY <1>1, <2>1
  <2>4. QED
    BY <1>3, <2>2, <2>3
<1>5. Steering!TypeOK'
  BY <1>1, <1>2, <1>3, <1>4 DEF Steering!TypeOK, Steering!inboxVars, Steering!callVars, Steering!peerVars,
    Steering!talkVars, Steering!flowVars
<1>6. Queue' /\ Once' /\ Heard' /\ Attempts'
  BY <1>1, <1>2, Untouched, AcceptedKept DEF Steering!inboxVars, Steering!talkVars
<1>7. Flow' /\ Calling'
  BY <1>1, <1>2, <1>3, <1>4 DEF Flow, Calling, Steering!callVars, Steering!peerVars, Steering!talkVars
<1>8. QED
  BY <1>5, <1>6, <1>7 DEF SteeringInv

\* The messages of the batch join the conversation, and the notifier learns that they did.
LEMMA ApplyKeeps ==
  ASSUME SteeringInv, Steering!Apply
  PROVE  SteeringInv'
<1> DEFINE ids == hand.ids
           k == hand.through
<1>1. /\ pc = "apply" /\ images + Steering!Fills(ids) <= MaxTurnImages
      /\ heard' = heard \o ids /\ images' = images + Steering!Fills(ids) /\ known' = k
      /\ notifier' = Steering!Consume(notifier, k) /\ hand' = Steering!NoBatch /\ Steering!AfterBatch
      /\ UNCHANGED <<Steering!inboxVars, Steering!turnVars, Steering!callVars, Steering!peerVars, todo, forked,
                     Steering!flowVars, interrupted, crashes>>
  BY DEF Steering!Apply
<1>2. Steering!TypeOK /\ Queue /\ Once /\ Heard /\ Attempts /\ Flow /\ Calling
  BY DEF SteeringInv
<1>3. /\ heard \in Seq(Steering!Messages) /\ ids \in Seq(Steering!Messages) /\ k \in Nat /\ images \in Nat
      /\ notifier \in NotifierSet
      /\ watermark \in Nat
  BY <1>2 DEF Steering!TypeOK, NotifierSet
<1> HIDE DEF ids, k
<1>4. pc' \in {"ready", "settle", "step"} /\ boundary' = boundary
  BY <1>1 DEF Steering!AfterBatch, Steering!Goto, Steering!NextStep
<1>5. Steering!Fills(ids) \in Nat /\ heard' \in Seq(Steering!Messages) /\ Steering!ToSet(heard')
          = Steering!ToSet(heard) \cup Steering!ToSet(ids)
  <2>1. Steering!ToSet(heard \o ids) = Steering!ToSet(heard) \cup Steering!ToSet(ids)
    BY <1>3, ToSetConcat
  <2>2. heard \o ids \in Seq(Steering!Messages)
    BY <1>3
  <2>3. QED
    BY <1>1, <2>1, <2>2, FillsCount
<1>6. Heard'
  <2>1. hand'.ids = <<>> /\ hand'.through = 0 /\ Steering!ToSet(<<>>) = {} /\ told' = told /\ watermark' = watermark
    BY <1>1 DEF Steering!NoBatch, Steering!ToSet, Steering!inboxVars
  <2>2. images' <= Steering!Fills(heard')
    <3>1. images <= Steering!Fills(heard) /\ Steering!ToSet(heard) \cap Steering!ToSet(ids) = {}
      BY <1>2 DEF Heard, ids
    <3> DEFINE h == heard'
    <3>2. Steering!ToSet(heard) \cup Steering!ToSet(ids) \subseteq Steering!ToSet(h)
      BY <1>5
    <3> HIDE DEF h
    <3>3. Steering!Fills(heard) + Steering!Fills(ids) <= Steering!Fills(h)
      BY <3>1, <3>2, FillsOfParts
    <3>4. Steering!Fills(heard) \in Nat /\ Steering!Fills(h) \in Nat
      BY FillsCount
    <3>5. images' <= Steering!Fills(h)
      BY <1>1, <1>3, <1>5, <3>1, <3>3, <3>4
    <3>6. QED
      BY <3>5 DEF h
  <2>3. Steering!ConversationKeepsUp'
    <3>1. heard' \o <<>> = heard'
      BY <1>5, ConcatEmptySeq
    <3>2. Steering!Fills(told) <= MaxTurnImages => heard \o ids = told
      BY <1>1, <1>2 DEF Heard, Steering!ConversationKeepsUp, ids
    <3>3. Steering!Fills(told)' = Steering!Fills(told)
      BY <2>1 DEF Steering!Fills
    <3>4. QED
      BY <1>1, <2>1, <3>1, <3>2, <3>3 DEF Steering!ConversationKeepsUp
  <2>4. Steering!ToSet(heard') \subseteq Steering!ToSet(told) /\ known' <= watermark /\ 0 <= watermark
    BY <1>1, <1>2, <1>3, <1>5 DEF Heard, ids, k
  <2>5. Steering!Fills(heard)' = Steering!Fills(heard')
    BY DEF Steering!Fills
  <2>6. QED
    BY <1>1, <2>1, <2>2, <2>3, <2>4, <2>5 DEF Heard
<1>7. /\ notifier' \in NotifierSet /\ Settled(notifier') /\ notifier'.consumed \in {notifier.consumed, k}
      /\ notifier.notified <= notifier'.notified /\ notifier'.attempt = "none"
  <2>1. notifier.attempt = "none" /\ Settled(notifier)
    BY <1>1, <1>2 DEF Attempts
  <2>2. QED
    BY <1>1, <1>3, <2>1, NotifierMoves
<1>8. Attempts'
  <2>1. k <= watermark /\ notifier.consumed <= watermark
    BY <1>2 DEF Heard, Attempts, k
  <2>2. pending' = pending /\ watermark' = watermark
    BY <1>1 DEF Steering!inboxVars
  <2>3. ASSUME NEW i \in 1 .. Len(pending), pending[i].source = "user_adjust"
        PROVE  pending[i].sequence <= notifier'.notified
    <3>1. pending[i].sequence <= notifier.notified
      BY <1>1, <1>2, <2>3 DEF Attempts
    <3>2. pending[i].sequence \in Nat
      BY <1>2, EntryTyped DEF Steering!TypeOK, SteeringEntry
    <3>3. notifier.notified \in Nat /\ notifier'.notified \in Nat
      BY <1>3, <1>7 DEF NotifierSet
    <3>4. QED
      BY <1>7, <3>1, <3>2, <3>3
  <2>4. QED
    BY <1>7, <2>1, <2>2, <2>3 DEF Attempts
<1>9. Steering!TypeOK'
  <2>1. images' \in Nat /\ hand' \in [ids : Seq(Steering!Messages), through : Nat]
    BY <1>1, <1>3, <1>5 DEF Steering!NoBatch
  <2>2. QED
    BY <1>1, <1>2, <1>3, <1>4, <1>5, <1>7, <2>1
       DEF Steering!TypeOK, NotifierSet, Steering!inboxVars, Steering!turnVars, Steering!callVars, Steering!peerVars,
         Steering!flowVars
<1>10. Queue' /\ Once' /\ Flow' /\ Calling'
  BY <1>1, <1>2, <1>4, Untouched, AcceptedKept DEF Flow, Calling, Steering!inboxVars, Steering!turnVars,
    Steering!callVars, Steering!peerVars
<1>11. QED
  BY <1>6, <1>8, <1>9, <1>10 DEF SteeringInv

\* A batch whose images do not fit is lost to the conversation, and then the history has more images than a turn may.
LEMMA ApplyFailsKeeps ==
  ASSUME SteeringInv, Steering!ApplyFails
  PROVE  SteeringInv'
<1>1. /\ pc = "apply" /\ images + Steering!Fills(hand.ids) > MaxTurnImages
      /\ hand' = Steering!NoBatch /\ result' = "stopped" /\ pc' = "finishing"
      /\ UNCHANGED <<Steering!inboxVars, Steering!turnVars, Steering!callVars, Steering!peerVars, boundary, todo,
                     Steering!talkVars, routing, asks, steered, interrupted, notifier, crashes>>
  BY DEF Steering!ApplyFails, Steering!FinishWith, Steering!Goto
<1>2. Steering!TypeOK /\ Queue /\ Once /\ Heard /\ Attempts /\ Flow /\ Calling
  BY DEF SteeringInv
<1>3. ~(Steering!Fills(told) <= MaxTurnImages)
  <2>1. images <= Steering!Fills(heard) /\ images \in Nat
            /\ Steering!Fills(heard) + Steering!Fills(hand.ids) <= Steering!Fills(told)
    BY <1>2, FillsOfParts DEF Heard, Steering!TypeOK
  <2>2. Steering!Fills(heard) \in Nat /\ Steering!Fills(hand.ids) \in Nat /\ Steering!Fills(told) \in Nat
            /\ MaxTurnImages \in Nat
    BY FillsCount, SteeringAssumption
  <2>3. QED
    BY <1>1, <2>1, <2>2
<1>4. Heard'
  <2>1. UNCHANGED <<told, watermark, heard, known, images>> /\ hand'.ids = <<>> /\ hand'.through = 0
            /\ Steering!ToSet(<<>>) = {}
    BY <1>1 DEF Steering!NoBatch, Steering!ToSet, Steering!inboxVars, Steering!talkVars
  <2>2. Steering!Fills(told)' = Steering!Fills(told) /\ Steering!Fills(heard)' = Steering!Fills(heard)
    BY <2>1 DEF Steering!Fills
  <2>3. watermark \in Nat
    BY <1>2 DEF Steering!TypeOK
  <2>4. QED
    BY <1>1, <1>2, <1>3, <2>1, <2>2, <2>3 DEF Heard, Steering!ConversationKeepsUp
<1>5. Steering!TypeOK'
  <2>1. hand' \in [ids : Seq(Steering!Messages), through : Nat]
    BY <1>1 DEF Steering!NoBatch
  <2>2. QED
    BY <1>1, <1>2, <2>1 DEF Steering!TypeOK, Steering!inboxVars, Steering!turnVars, Steering!callVars,
      Steering!peerVars, Steering!talkVars
<1>6. Queue' /\ Once' /\ Attempts'
  BY <1>1, <1>2, Untouched, AcceptedKept DEF Steering!inboxVars
<1>7. Flow' /\ Calling'
  BY <1>1, <1>2 DEF Flow, Calling, Steering!turnVars, Steering!callVars, Steering!peerVars, Steering!talkVars
<1>8. QED
  BY <1>4, <1>5, <1>6, <1>7 DEF SteeringInv

-----------------------------------------------------------------------------
(* Turns, crashes and restarts *)

\* A turn starts with a notifier that knows of what waits and of what the memory has seen.
LEMMA StartTurnKeeps ==
  ASSUME SteeringInv, NEW auto \in BOOLEAN, Steering!StartTurn(auto)
  PROVE  SteeringInv'
<1> DEFINE n == IF pending = <<>> THEN Steering!NewNotifier
        ELSE Steering!Notify(Steering!NewNotifier, Steering!Last(pending).sequence)
<1>1. /\ pc = "idle" /\ activeTurn = 0 /\ turns < MaxTurns /\ turns' = turns + 1 /\ activeTurn' = turns + 1
      /\ sealed' = FALSE /\ notifier' = Steering!Consume(n, known) /\ forked' = (forked \/ heard # told)
      /\ images' = 0 /\ interrupted' = FALSE /\ routing' = auto /\ asks' = FALSE /\ steered' = FALSE
      /\ result' = "none" /\ pc' \in {"route", "step"}
      /\ UNCHANGED <<Steering!inboxVars, Steering!callVars, outcome, Steering!peerVars, boundary, todo, hand, heard,
                     known, crashes>>
  BY DEF Steering!StartTurn, Steering!Goto
<1>2. Steering!TypeOK /\ Queue /\ Once /\ Heard /\ Attempts /\ Flow /\ Calling
  BY DEF SteeringInv
<1>3. pending \in Seq(SteeringEntry) /\ watermark \in Nat /\ known \in Nat /\ turns \in Nat /\ turns \in 0 .. MaxTurns
      /\ turns + 1 \in 0 .. MaxTurns /\ turns + 1 # 0
  BY <1>1, <1>2, SteeringAssumption DEF Steering!TypeOK, SteeringEntry
<1>4. /\ n \in NotifierSet /\ Settled(n) /\ n.consumed = 0 /\ n.attempt = "none"
      /\ \A i \in 1 .. Len(pending) : pending[i].sequence <= n.notified
  <2>1. Steering!NewNotifier \in NotifierSet /\ Settled(Steering!NewNotifier) /\ Steering!NewNotifier.consumed = 0
            /\ Steering!NewNotifier.attempt = "none"
    BY DEF Steering!NewNotifier, NotifierSet, Settled
  <2>2. CASE pending = <<>>
    <3>1. Len(pending) = 0
      BY <2>2
    <3>2. QED
      BY <2>1, <2>2, <3>1
  <2>3. CASE pending # <<>>
    <3> DEFINE k == Steering!Last(pending).sequence
               last == Len(pending)
    <3>1. last \in Nat /\ last >= 1 /\ k = pending[last].sequence
      BY <1>3, <2>3 DEF Steering!Last
    <3>2. k \in Nat
      BY <1>3, <3>1, EntryTyped
    <3>3. \A i \in 1 .. last : pending[i].sequence <= k /\ pending[i].sequence \in Nat
      <4> SUFFICES ASSUME NEW i \in 1 .. last
                   PROVE  pending[i].sequence <= k /\ pending[i].sequence \in Nat
        OBVIOUS
      <4>1. pending[i].sequence \in Nat
        BY <1>3, EntryTyped
      <4>2. i = last \/ i < last
        BY <3>1
      <4>3. i < last => pending[i].sequence < pending[last].sequence
        BY <1>2, <3>1 DEF Queue
      <4>4. QED
        BY <3>1, <3>2, <4>1, <4>2, <4>3
    <3>4. n = Steering!Notify(Steering!NewNotifier, k)
      BY <2>3
    <3> HIDE DEF n, k, last
    <3>5. n \in NotifierSet /\ Settled(n) /\ n.consumed = 0 /\ n.attempt = "none" /\ k <= n.notified
      BY <2>1, <3>2, <3>4, NotifierMoves
    <3>6. n.notified \in Nat
      BY <3>5 DEF NotifierSet
    <3>7. \A i \in 1 .. last : pending[i].sequence <= n.notified
      BY <3>2, <3>3, <3>5, <3>6
    <3>8. QED
      BY <3>5, <3>7 DEF last
  <2>4. QED
    BY <2>2, <2>3
<1> HIDE DEF n
<1>5. /\ notifier' \in NotifierSet /\ Settled(notifier') /\ notifier'.consumed \in {0, known}
      /\ n.notified <= notifier'.notified /\ notifier'.attempt = "none"
  BY <1>1, <1>3, <1>4, NotifierMoves
<1>6. Attempts'
  <2>1. pending' = pending /\ watermark' = watermark /\ known <= watermark
    BY <1>1, <1>2 DEF Heard, Steering!inboxVars
  <2>2. notifier'.consumed <= watermark
    BY <1>3, <1>5, <2>1
  <2>3. ASSUME NEW i \in 1 .. Len(pending)
        PROVE  pending[i].sequence <= notifier'.notified
    <3>1. pending[i].sequence \in Nat /\ n.notified \in Nat /\ notifier'.notified \in Nat
      BY <1>3, <1>4, <1>5, EntryTyped DEF NotifierSet
    <3>2. QED
      BY <1>4, <1>5, <3>1
  <2>4. QED
    BY <1>5, <2>1, <2>2, <2>3 DEF Attempts
<1>7. Heard'
  <2>1. UNCHANGED <<told, watermark, heard, known, hand>>
    BY <1>1 DEF Steering!inboxVars
  <2>2. Steering!Fills(told)' = Steering!Fills(told) /\ Steering!Fills(heard)' = Steering!Fills(heard)
            /\ Steering!Fills(heard) \in Nat
    BY <2>1, FillsCount DEF Steering!Fills
  <2>3. QED
    BY <1>1, <1>2, <2>1, <2>2 DEF Heard, Steering!ConversationKeepsUp
<1>8. Steering!TypeOK'
  <2>1. forked' \in BOOLEAN /\ auto \in BOOLEAN
    BY <1>1, <1>2 DEF Steering!TypeOK
  <2>2. QED
    BY <1>1, <1>2, <1>3, <1>5, <2>1 DEF Steering!TypeOK, NotifierSet, Steering!inboxVars, Steering!callVars,
      Steering!peerVars
<1>9. Queue' /\ Once'
  BY <1>1, <1>2, Untouched, AcceptedKept DEF Steering!inboxVars
<1>10. Flow' /\ Calling'
  BY <1>1, <1>2, <1>3 DEF Flow, Calling, Steering!callVars, Steering!peerVars
<1>11. QED
  BY <1>6, <1>7, <1>8, <1>9, <1>10 DEF SteeringInv

LEMMA TurnCompletedKeeps ==
  ASSUME SteeringInv, Steering!TurnCompleted
  PROVE  SteeringInv'
<1>1. /\ pc = "finishing" /\ pc' = "idle" /\ activeTurn' = 0 /\ outcome' = result /\ abandoned' = (openCalls > 0)
      /\ forked' = (forked \/ (heard # told /\ (routing \/ asks \/ boundary \notin {"before_final", "seal"})))
      /\ UNCHANGED <<Steering!inboxVars, sealed, turns, openCalls, Steering!peerVars, boundary, todo, hand, heard,
                     known, images, Steering!flowVars, interrupted, notifier, crashes>>
  BY DEF Steering!TurnCompleted, Steering!Goto
<1>2. Steering!TypeOK /\ Queue /\ Once /\ Heard /\ Attempts /\ Flow /\ Calling
  BY DEF SteeringInv
<1>3. Steering!TypeOK'
  <2>1. forked' \in BOOLEAN
    BY <1>1, <1>2 DEF Steering!TypeOK
  <2>2. abandoned' \in BOOLEAN /\ 0 \in 0 .. MaxTurns
    BY <1>1, SteeringAssumption
  <2>3. QED
    BY <1>1, <1>2, <2>1, <2>2 DEF Steering!TypeOK, Steering!inboxVars, Steering!peerVars, Steering!flowVars
<1>4. Queue' /\ Once' /\ Heard' /\ Attempts'
  BY <1>1, <1>2, Untouched, AcceptedKept DEF Steering!inboxVars
<1>5. Flow' /\ Calling'
  BY <1>1, <1>2 DEF Flow, Calling, Steering!peerVars
<1>6. QED
  BY <1>3, <1>4, <1>5 DEF SteeringInv

\* Nothing of the memory outlives the process.
LEMMA CrashKeeps ==
  ASSUME SteeringInv, Steering!Crash
  PROVE  SteeringInv'
<1>1. /\ crashes < MaxCrashes /\ crashes' = crashes + 1 /\ pc' = "dead"
      /\ boundary' = "before_model" /\ todo' = {} /\ hand' = Steering!NoBatch
      /\ heard' = <<>> /\ forked' = FALSE /\ known' = 0 /\ images' = 0
      /\ routing' = FALSE /\ asks' = FALSE /\ steered' = FALSE /\ result' = "none"
      /\ interrupted' = FALSE /\ notifier' = Steering!NewNotifier
      /\ UNCHANGED <<Steering!inboxVars, Steering!turnVars, Steering!callVars, Steering!peerVars>>
  BY DEF Steering!Crash, Steering!Goto
<1>2. Steering!TypeOK /\ Queue /\ Once /\ Heard /\ Attempts /\ Flow /\ Calling
  BY DEF SteeringInv
<1>3. Steering!TypeOK'
  <2>1. crashes + 1 \in 0 .. MaxCrashes
    BY <1>1, <1>2, SteeringAssumption DEF Steering!TypeOK
  <2>2. Steering!NewNotifier \in NotifierSet /\ Steering!NoBatch \in [ids : Seq(Steering!Messages), through : Nat]
            /\ <<>> \in Seq(Steering!Messages)
    BY DEF Steering!NewNotifier, NotifierSet, Steering!NoBatch
  <2>3. {abandoned', forked', routing', asks', steered', interrupted'} \subseteq BOOLEAN
    BY <1>1, <1>2 DEF Steering!TypeOK, Steering!callVars
  <2>4. notifier' \in NotifierSet /\ hand' \in [ids : Seq(Steering!Messages), through : Nat]
            /\ heard' \in Seq(Steering!Messages)
    BY <1>1, <2>2
  <2>5. boundary' \in Steering!Boundaries /\ todo' \subseteq Peers /\ images' \in Nat /\ known' \in Nat
    BY <1>1 DEF Steering!Boundaries
  <2>6. QED
    BY <1>1, <1>2, <2>1, <2>3, <2>4, <2>5 DEF Steering!TypeOK, NotifierSet, Steering!inboxVars, Steering!turnVars,
      Steering!callVars, Steering!peerVars
<1>4. Heard'
  <2>1. UNCHANGED <<told, watermark>> /\ hand'.ids = <<>> /\ hand'.through = 0 /\ Steering!ToSet(<<>>) = {}
            /\ watermark \in Nat
    BY <1>1, <1>2 DEF Steering!NoBatch, Steering!ToSet, Steering!inboxVars, Steering!TypeOK
  <2>2. Steering!Fills(heard)' = Steering!Fills(<<>>) /\ Steering!Fills(<<>>) \in Nat
    BY <1>1, FillsCount DEF Steering!Fills
  <2>3. QED
    BY <1>1, <2>1, <2>2 DEF Heard, Steering!ConversationKeepsUp
<1>5. Attempts'
  BY <1>1, <1>2 DEF Attempts, Settled, Steering!NewNotifier, Steering!TypeOK, Steering!inboxVars
<1>6. Queue' /\ Once' /\ Flow' /\ Calling'
  BY <1>1, <1>2, Untouched, AcceptedKept DEF Flow, Calling, Steering!inboxVars, Steering!turnVars, Steering!callVars
<1>7. QED
  BY <1>3, <1>4, <1>5, <1>6 DEF SteeringInv

\* The thread opened again has the history of the journal.
LEMMA RestartKeeps ==
  ASSUME SteeringInv, Steering!Restart
  PROVE  SteeringInv'
<1>1. /\ pc = "dead" /\ pc' = "idle" /\ heard' = told /\ known' = watermark
      /\ \/ activeTurn = 0 /\ UNCHANGED <<activeTurn, Steering!callVars, outcome>>
         \/ activeTurn' = 0 /\ openCalls' = 0 /\ abandoned' = FALSE /\ outcome' = "stopped"
      /\ UNCHANGED <<Steering!inboxVars, sealed, turns, Steering!peerVars, boundary, todo, hand, forked, images,
                     Steering!flowVars, interrupted, notifier, crashes>>
  BY DEF Steering!Restart, Steering!Goto
<1>2. Steering!TypeOK /\ Queue /\ Once /\ Heard /\ Attempts /\ Flow /\ Calling
  BY DEF SteeringInv
<1>3. Steering!TypeOK'
  <2>1. /\ activeTurn' \in 0 .. MaxTurns /\ openCalls' \in 0 .. MaxCalls /\ abandoned' \in BOOLEAN
        /\ outcome' \in {"none", "answered", "stopped"}
    <3>1. 0 \in 0 .. MaxTurns /\ 0 \in 0 .. MaxCalls
      BY SteeringAssumption
    <3>2. CASE UNCHANGED <<activeTurn, Steering!callVars, outcome>>
      BY <1>2, <3>2 DEF Steering!TypeOK, Steering!callVars
    <3>3. CASE activeTurn' = 0 /\ openCalls' = 0 /\ abandoned' = FALSE /\ outcome' = "stopped"
      BY <3>1, <3>3
    <3>4. QED
      BY <1>1, <3>2, <3>3
  <2>2. QED
    BY <1>1, <1>2, <2>1 DEF Steering!TypeOK, Steering!inboxVars, Steering!peerVars, Steering!flowVars
<1>4. Heard'
  <2>1. UNCHANGED <<told, watermark>> /\ hand' = hand /\ hand = Steering!NoBatch /\ hand.ids = <<>> /\ hand.through = 0
        /\ Steering!ToSet(<<>>) = {} /\ images' = images
    BY <1>1, <1>2 DEF Steering!NoBatch, Steering!ToSet, Steering!inboxVars, Heard
  <2>2. told \in Seq(Steering!Messages) /\ told \o <<>> = told /\ watermark \in Nat /\ images \in Nat
    BY <1>2, ConcatEmptySeq DEF Steering!TypeOK
  <2>3. images <= Steering!Fills(heard) /\ Steering!Fills(heard) <= Steering!Fills(told)
            /\ Steering!Fills(heard) \in Nat /\ Steering!Fills(told) \in Nat
    BY <1>2, FillsCount DEF Heard
  <2>4. images <= Steering!Fills(told)
    BY <2>2, <2>3
  <2>5. Steering!Fills(heard)' = Steering!Fills(told) /\ Steering!Fills(told)' = Steering!Fills(told)
    BY <1>1, <2>1 DEF Steering!Fills
  <2>6. QED
    BY <1>1, <2>1, <2>2, <2>4, <2>5 DEF Heard, Steering!ConversationKeepsUp
<1>5. Attempts'
  BY <1>1, <1>2 DEF Attempts, Settled, Steering!inboxVars
<1>6. Queue' /\ Once' /\ Flow' /\ Calling'
  BY <1>1, <1>2, Untouched, AcceptedKept DEF Flow, Calling, Steering!inboxVars, Steering!callVars
<1>7. QED
  BY <1>3, <1>4, <1>5, <1>6 DEF SteeringInv

LEMMA SteeringStarts == Steering!Init => SteeringInv
<1> SUFFICES ASSUME Steering!Init
             PROVE  SteeringInv
  OBVIOUS
<1>1. /\ told = <<>> /\ pending = <<>> /\ heard = <<>> /\ hand = Steering!NoBatch /\ images = 0 /\ pc = "idle"
      /\ assigned = 0 /\ watermark = 0 /\ known = 0 /\ notifier = Steering!NewNotifier
  BY DEF Steering!Init
<1>2. Steering!Ids(<<>>) = <<>> /\ Steering!ToSet(<<>>) = {} /\ Len(<<>>) = 0 /\ <<>> \o <<>> = <<>>
  BY DEF Steering!Ids, Steering!ToSet
<1>3. Steering!Accepted = <<>>
  BY <1>1, <1>2 DEF Steering!Accepted
<1>4. Steering!NewNotifier \in NotifierSet /\ Steering!NoBatch \in [ids : Seq(Steering!Messages), through : Nat]
  BY DEF Steering!NewNotifier, NotifierSet, Steering!NoBatch
<1>5. Steering!TypeOK
  <2>1. 0 \in 0 .. MaxTurns /\ 0 \in 0 .. MaxCalls /\ 0 \in 0 .. MaxCrashes
    BY SteeringAssumption
  <2>2. <<>> \in Seq(SteeringEntry) /\ <<>> \in Seq(Steering!Messages) /\ <<>> \in Seq(Peers)
    OBVIOUS
  <2>3. {abandoned, forked, routing, asks, steered, interrupted} \subseteq BOOLEAN
    BY DEF Steering!Init
  <2>4. boundary \in Steering!Boundaries /\ todo \subseteq Peers /\ admitted \subseteq Peers
    BY DEF Steering!Init, Steering!Boundaries
  <2>5. notifier \in NotifierSet /\ hand \in [ids : Seq(Steering!Messages), through : Nat]
    BY <1>1, <1>4
  <2>6. QED
    BY <2>1, <2>2, <2>3, <2>4, <2>5 DEF Steering!Init, Steering!TypeOK, NotifierSet, SteeringEntry
<1>6. Queue /\ Once
  BY <1>1, <1>2, <1>3 DEF Queue, Once
<1>7. Heard
  BY <1>1, <1>2, FillsCount DEF Heard, Steering!ConversationKeepsUp, Steering!NoBatch
<1>8. Attempts /\ Flow /\ Calling
  BY <1>1 DEF Steering!Init, Attempts, Settled, Steering!NewNotifier, Flow, Calling
<1>9. QED
  BY <1>5, <1>6, <1>7, <1>8 DEF SteeringInv

LEMMA SteeringKept == SteeringInv /\ [Steering!Next]_(Steering!vars) => SteeringInv'
<1> SUFFICES ASSUME SteeringInv, [Steering!Next]_(Steering!vars)
             PROVE  SteeringInv'
  OBVIOUS
<1>1. ASSUME Steering!Step
      PROVE  SteeringInv'
  <2>1. Steering!TypeOK /\ Flow /\ Calling
    BY DEF SteeringInv
  <2>2. QED
    BY <1>1, <2>1, LoopSteps, LoopKeeps, TurnCompletedKeeps
<1>2. ASSUME Steering!Drain
      PROVE  SteeringInv'
  BY <1>2, BeginAdmissionKeeps, AdmitPeerKeeps, AcknowledgeKeeps, DrainBatchKeeps, DrainNothingKeeps, ApplyKeeps,
     ApplyFailsKeeps DEF Steering!Drain
<1>3. CASE UNCHANGED Steering!vars
  <2>1. UNCHANGED <<Steering!inboxVars, Steering!turnVars, Steering!callVars, Steering!peerVars, pc, boundary, todo,
                    hand, Steering!talkVars, Steering!flowVars, interrupted, notifier, crashes>>
    BY <1>3 DEF Steering!vars
  <2>2. Steering!TypeOK /\ Queue /\ Once /\ Heard /\ Attempts /\ Flow /\ Calling
    BY DEF SteeringInv
  <2>3. Steering!TypeOK'
    BY <2>1, <2>2 DEF Steering!TypeOK, Steering!inboxVars, Steering!turnVars, Steering!callVars, Steering!peerVars,
      Steering!talkVars, Steering!flowVars
  <2>4. Queue' /\ Once' /\ Heard' /\ Attempts'
    BY <2>1, <2>2, Untouched, AcceptedKept DEF Steering!inboxVars, Steering!talkVars
  <2>5. Flow' /\ Calling'
    BY <2>1, <2>2 DEF Flow, Calling, Steering!turnVars, Steering!callVars, Steering!peerVars, Steering!talkVars
  <2>6. QED
    BY <2>3, <2>4, <2>5 DEF SteeringInv
<1>4. QED
  BY <1>1, <1>2, <1>3, SubmitKeeps, SendKeeps, StartTurnKeeps, InterruptKeeps, CrashKeeps, RestartKeeps
    DEF Steering!Next

-----------------------------------------------------------------------------
(* The properties *)

\* An attempt is open only where the loop waits, and then the notifier knows of every adjustment in the queue: one that
\* waits would have aborted it.
LEMMA NotDeaf == SteeringInv => Steering!NoDeafAttempt
<1> SUFFICES ASSUME SteeringInv, notifier.attempt = "open", NEW i \in DOMAIN pending, pending[i].source = "user_adjust"
             PROVE  FALSE
  BY DEF Steering!NoDeafAttempt
<1>1. /\ pending \in Seq(SteeringEntry) /\ watermark \in Nat /\ notifier.notified \in Nat /\ notifier.consumed \in Nat
      /\ Queue /\ Attempts
  BY DEF SteeringInv, Steering!TypeOK, SteeringEntry
<1>2. i \in 1 .. Len(pending) /\ pending[i].sequence \in Nat
  BY <1>1, EntryTyped
<1>3. pc \notin {"dead", "idle"}
  BY <1>1 DEF Attempts
<1>4. pending[i].sequence <= notifier.notified /\ notifier.notified <= notifier.consumed
          /\ notifier.consumed <= watermark
  BY <1>1, <1>2, <1>3 DEF Attempts, Settled
<1>5. watermark < pending[i].sequence
  BY <1>1, <1>2 DEF Queue
<1>6. QED
  BY <1>1, <1>2, <1>4, <1>5

\* What a step may do to the history, the queue, the turn and the calls that are left over.
Kept == UNCHANGED <<told, pending, activeTurn, sealed>> /\ abandoned' \in {abandoned, FALSE}

LEMMA QuietSteps ==
  ASSUME SteeringInv, [Steering!Next]_(Steering!vars)
  PROVE  \/ Kept \/ Steering!TurnCompleted \/ Steering!DrainBatch \/ Steering!DrainNothing \/ Steering!AdmitPeer
      \/ Steering!Restart
         \/ (\E m \in Adjustments : Steering!Submit(m)) \/ (\E auto \in BOOLEAN : Steering!StartTurn(auto))
<1> USE DEF Kept, Steering!inboxVars, Steering!turnVars, Steering!callVars
<1>1. ASSUME Steering!Step
      PROVE  Kept \/ Steering!TurnCompleted
  BY <1>1, LoopSteps DEF SteeringInv, Looped, Steering!loopFrame
<1>2. Steering!BeginAdmission => Kept
  BY DEF Steering!BeginAdmission
<1>3. Steering!Acknowledge => Kept
  BY DEF Steering!Acknowledge
<1>4. Steering!Apply => Kept
  BY DEF Steering!Apply
<1>5. Steering!ApplyFails => Kept
  BY DEF Steering!ApplyFails
<1>6. ASSUME NEW m \in Peers, Steering!Send(m)
      PROVE  Kept
  BY <1>6 DEF Steering!Send
<1>7. Steering!Interrupt => Kept
  BY DEF Steering!Interrupt
<1>8. Steering!Crash => Kept
  BY DEF Steering!Crash
<1>9. UNCHANGED Steering!vars => Kept
  BY DEF Steering!vars
<1>10. QED
  BY <1>1, <1>2, <1>3, <1>4, <1>5, <1>6, <1>7, <1>8, <1>9 DEF Steering!Next, Steering!Drain

\* Only a drain adds to the history, and it runs where no call of the turn is open; only the end of a turn leaves calls
\* without a result for good, and the turn has open calls by then only if a checkpoint of it failed.
LEMMA ClosedSteps ==
  ASSUME SteeringInv, [Steering!Next]_(Steering!vars)
  PROVE  /\ told' # told => openCalls = 0 \/ abandoned
         /\ abandoned' /\ ~abandoned => forked
<1> DEFINE Goal == /\ told' # told => openCalls = 0 \/ abandoned
                   /\ abandoned' /\ ~abandoned => forked
<1> USE DEF Steering!inboxVars, Steering!turnVars, Steering!callVars
<1>1. Calling /\ openCalls \in Nat /\ abandoned \in BOOLEAN
  BY SteeringAssumption DEF SteeringInv, Steering!TypeOK
<1>2. ASSUME Kept
      PROVE  Goal
  <2>1. told' = told /\ abandoned' \in {abandoned, FALSE}
    BY <1>2 DEF Kept
  <2>2. abandoned' => abandoned
    <3>1. CASE abandoned' = abandoned
      BY <3>1, Zenon
    <3>2. CASE abandoned' = FALSE
      BY <3>2
    <3>3. QED
      BY <2>1, <3>1, <3>2
  <2>3. QED
    BY <2>1, <2>2
<1>3. ASSUME Steering!TurnCompleted
      PROVE  Goal
  <2>1. pc = "finishing" /\ abandoned' = (openCalls > 0) /\ told' = told
    BY <1>3 DEF Steering!TurnCompleted
  <2>2. QED
    BY <1>1, <2>1 DEF Calling
<1>4. ASSUME Steering!DrainBatch
      PROVE  Goal
  <2>1. pc \in {"drain", "take"} /\ UNCHANGED abandoned
    BY <1>4 DEF Steering!DrainBatch, Steering!Draining
  <2>2. QED
    BY <1>1, <2>1 DEF Calling
<1>5. ASSUME Steering!DrainNothing
      PROVE  Goal
  BY <1>5 DEF Steering!DrainNothing
<1>6. ASSUME Steering!AdmitPeer
      PROVE  Goal
  BY <1>6 DEF Steering!AdmitPeer
<1>7. ASSUME Steering!Restart
      PROVE  Goal
  BY <1>7 DEF Steering!Restart
<1>8. ASSUME NEW m \in Adjustments, Steering!Submit(m)
      PROVE  Goal
  BY <1>8 DEF Steering!Submit
<1>9. ASSUME NEW auto \in BOOLEAN, Steering!StartTurn(auto)
      PROVE  Goal
  BY <1>9 DEF Steering!StartTurn
<1> HIDE DEF Goal
<1>10. Goal
  BY <1>2, <1>3, <1>4, <1>5, <1>6, <1>7, <1>8, <1>9, QuietSteps
<1>11. QED
  BY <1>10 DEF Goal

-----------------------------------------------------------------------------
(* The promise of SteeringInbox *)

TurnState == IF activeTurn = 0 THEN "none" ELSE IF sealed THEN "closed" ELSE "running"

LEMMA InboxStarts == Steering!Init => Steering!Inbox!Init
<1> SUFFICES ASSUME Steering!Init
             PROVE  Steering!Inbox!Init
  OBVIOUS
<1>1. told = <<>> /\ pending = <<>> /\ activeTurn = 0
  BY DEF Steering!Init
<1>2. Steering!Ids(<<>>) = <<>> /\ <<>> \o <<>> = <<>>
  BY DEF Steering!Ids
<1>3. Steering!Accepted = <<>>
  BY <1>1, <1>2 DEF Steering!Accepted
<1>4. QED
  BY <1>1, <1>3 DEF Steering!Inbox!Init

\* A message accepted: the adjustment of a running turn, or a peer's that the journal does not hold yet.
LEMMA AcceptSteps ==
  ASSUME SteeringInv, NEW m \in Steering!Messages, NEW source \in Steering!Sources,
          m \notin Steering!ToSet(Steering!Accepted),
         pending' = Append(pending, [id |-> m, source |-> source, sequence |-> assigned + 1]),
         assigned' = assigned + 1, UNCHANGED <<told, watermark, activeTurn, sealed>>, activeTurn # 0, ~sealed
  PROVE  Steering!Inbox!Accept(m)
<1>1. Steering!Accepted' = Append(Steering!Accepted, m)
  BY AppendKeeps
<1>2. m \notin Steering!Inbox!ToSet(Steering!Accepted)
  BY DEF Steering!Inbox!ToSet, Steering!ToSet
<1>3. QED
  BY <1>1, <1>2 DEF Steering!Inbox!Accept

LEMMA InboxSteps ==
  ASSUME SteeringInv, [Steering!Next]_(Steering!vars)
  PROVE  [Steering!Inbox!Next]_(Steering!Inbox!vars)
<1>1. /\ Flow /\ told \in Seq(Steering!Messages) /\ pending \in Seq(SteeringEntry) /\ turns \in Nat
      /\ inbox \in Seq(Peers)
  BY SteeringAssumption DEF SteeringInv, Steering!TypeOK, SteeringEntry
<1>2. CASE Kept
  <2>1. Steering!Accepted' = Steering!Accepted
    BY <1>2, AcceptedKept DEF Kept
  <2>2. QED
    BY <1>2, <2>1 DEF Kept, Steering!Inbox!vars
<1>3. CASE Steering!TurnCompleted
  <2>1. UNCHANGED <<told, pending, sealed>> /\ activeTurn # 0 /\ activeTurn' = 0
    BY <1>1, <1>3 DEF Steering!TurnCompleted, Flow, Steering!inboxVars
  <2>2. Steering!Accepted' = Steering!Accepted
    BY <2>1, AcceptedKept
  <2>3. Steering!Inbox!End
    BY <2>1, <2>2 DEF Steering!Inbox!End
  <2>4. QED
    BY <2>3 DEF Steering!Inbox!Next
<1>4. CASE Steering!DrainBatch
  <2>1. pc \in {"drain", "take"} /\ UNCHANGED <<activeTurn, sealed>>
    BY <1>4 DEF Steering!DrainBatch, Steering!Draining, Steering!turnVars
  <2>2. activeTurn # 0 /\ ~sealed
    BY <1>1, <2>1 DEF Flow
  <2>3. Steering!Accepted' = Steering!Accepted /\ \E k \in Len(told) + 1 .. Len(Steering!Accepted) : told'
            = SubSeq(Steering!Accepted, 1, k)
    BY <1>4, DrainMoves
  <2>4. Steering!Inbox!Deliver
    BY <2>1, <2>2, <2>3 DEF Steering!Inbox!Deliver
  <2>5. QED
    BY <2>4 DEF Steering!Inbox!Next
<1>5. CASE Steering!DrainNothing
  <2>1. /\ pc \in {"drain", "take"} /\ pending = <<>> /\ UNCHANGED <<told, pending, activeTurn>>
        /\ sealed' = (sealed \/ boundary = "seal")
    BY <1>5 DEF Steering!DrainNothing, Steering!Draining, Steering!inboxVars
  <2>2. activeTurn # 0 /\ ~sealed /\ sealed \in BOOLEAN
    BY <1>1, <2>1 DEF Flow, SteeringInv, Steering!TypeOK
  <2>3. Steering!Accepted' = Steering!Accepted
    BY <2>1, AcceptedKept
  <2>4. CASE boundary # "seal"
    BY <2>1, <2>2, <2>3, <2>4 DEF Steering!Inbox!vars
  <2>5. CASE boundary = "seal"
    <3>1. Steering!Ids(<<>>) = <<>>
      BY DEF Steering!Ids
    <3>2. told \o <<>> = told
      BY <1>1, ConcatEmptySeq
    <3>3. Steering!Accepted = told
      BY <2>1, <3>1, <3>2 DEF Steering!Accepted
    <3>4. Steering!Inbox!Close
      BY <2>1, <2>2, <2>3, <2>5, <3>3 DEF Steering!Inbox!Close
    <3>5. QED
      BY <3>4 DEF Steering!Inbox!Next
  <2>6. QED
    BY <2>4, <2>5
<1>6. CASE Steering!AdmitPeer
  <2> DEFINE m == Steering!Earliest(todo)
  <2>1. /\ pc = "admit" /\ UNCHANGED <<watermark, told, activeTurn, sealed>>
        /\ \/ UNCHANGED <<pending, assigned>>
           \/ /\ m \notin Steering!ToSet(Steering!Accepted)
              /\ pending' = Append(pending, [id |-> m, source |-> "peer_message", sequence |-> assigned + 1])
              /\ assigned' = assigned + 1
    BY <1>6 DEF Steering!AdmitPeer, Steering!turnVars
  <2>2. m \in Steering!Messages
    <3>1. todo \subseteq Peers /\ todo # {} /\ todo \subseteq Steering!ToSet(inbox)
      BY <1>1, <2>1 DEF Flow, SteeringInv, Steering!TypeOK
    <3>2. QED
      BY <1>1, <3>1, EarliestOfSome DEF Steering!Messages
  <2>3. activeTurn # 0 /\ ~sealed
    BY <1>1, <2>1 DEF Flow
  <2> HIDE DEF m
  <2>4. CASE UNCHANGED <<pending, assigned>>
    <3>1. Steering!Accepted' = Steering!Accepted
      BY <2>1, <2>4, AcceptedKept
    <3>2. QED
      BY <2>1, <2>4, <3>1 DEF Steering!Inbox!vars
  <2>5. CASE ~UNCHANGED <<pending, assigned>>
    <3>1. Steering!Inbox!Accept(m)
      BY <2>1, <2>2, <2>3, <2>5, AcceptSteps DEF Steering!Sources
    <3>2. QED
      BY <2>2, <3>1 DEF Steering!Inbox!Next
  <2>6. QED
    BY <2>4, <2>5
<1>7. CASE Steering!Restart
  <2>1. UNCHANGED <<told, pending, sealed>> /\ (activeTurn' = activeTurn \/ activeTurn' = 0)
    BY <1>7 DEF Steering!Restart, Steering!inboxVars
  <2>2. Steering!Accepted' = Steering!Accepted
    BY <2>1, AcceptedKept
  <2>3. CASE activeTurn' = activeTurn
    BY <2>1, <2>2, <2>3 DEF Steering!Inbox!vars
  <2>4. CASE activeTurn # 0 /\ activeTurn' = 0
    <3>1. Steering!Inbox!End
      BY <2>1, <2>2, <2>4 DEF Steering!Inbox!End
    <3>2. QED
      BY <3>1 DEF Steering!Inbox!Next
  <2>5. QED
    BY <2>1, <2>3, <2>4
<1>8. ASSUME NEW m \in Adjustments, Steering!Submit(m)
      PROVE  Steering!Inbox!Next
  <2>1. /\ m \notin Steering!ToSet(Steering!Accepted) /\ activeTurn # 0 /\ ~sealed
        /\ pending' = Append(pending, [id |-> m, source |-> "user_adjust", sequence |-> assigned + 1])
        /\ assigned' = assigned + 1 /\ UNCHANGED <<watermark, told, activeTurn, sealed>>
    BY <1>8 DEF Steering!Submit, Steering!turnVars
  <2>2. m \in Steering!Messages
    BY DEF Steering!Messages
  <2>3. Steering!Inbox!Accept(m)
    BY <2>1, <2>2, AcceptSteps DEF Steering!Sources
  <2>4. QED
    BY <2>2, <2>3 DEF Steering!Inbox!Next
<1>9. ASSUME NEW auto \in BOOLEAN, Steering!StartTurn(auto)
      PROVE  Steering!Inbox!Next
  <2>1. UNCHANGED <<told, pending>> /\ activeTurn = 0 /\ activeTurn' = turns + 1 /\ sealed' = FALSE
    BY <1>9 DEF Steering!StartTurn, Steering!inboxVars
  <2>2. Steering!Accepted' = Steering!Accepted
    BY <2>1, AcceptedKept
  <2>3. activeTurn' # 0
    BY <1>1, <2>1
  <2>4. Steering!Inbox!Open
    BY <2>1, <2>2, <2>3 DEF Steering!Inbox!Open
  <2>5. QED
    BY <2>4 DEF Steering!Inbox!Next
<1>10. QED
  BY <1>2, <1>3, <1>4, <1>5, <1>6, <1>7, <1>8, <1>9, QuietSteps

LEMMA TypeFollows == SteeringInv => Steering!TypeOK
BY DEF SteeringInv

LEMMA KeepsUpFollows == SteeringInv => Steering!ConversationKeepsUp
BY DEF SteeringInv, Heard

-----------------------------------------------------------------------------
(* The two side by side *)

LEMMA LockRuns == SideBySide => Spec
<1>1. Start => Init
  BY DEF Start
<1>2. [Move]_all => [Next]_vars
  BY DEF Move, LockMoves, SteeringMoves, all, lock
<1>3. QED
  BY <1>1, <1>2, PTL DEF SideBySide, Spec

\* The lock of the run is exclusive (WorkspaceMutationLock).
THEOREM RunImplementsExclusion == SideBySide => ImplementsExclusion
BY LockRuns, LockImplementsExclusion, PTL

LEMMA SteeringRuns == SideBySide => Steering!Init /\ [][Steering!Next]_(Steering!vars)
<1>1. Start => Steering!Init
  BY DEF Start
<1>2. [Move]_all => [Steering!Next]_(Steering!vars)
  BY DEF Move, LockMoves, SteeringMoves, all, steering, Steering!vars, Steering!inboxVars, Steering!turnVars,
     Steering!callVars, Steering!peerVars, Steering!talkVars, Steering!flowVars
<1>3. QED
  BY <1>1, <1>2, PTL DEF SideBySide

THEOREM SteeringInvariant == SideBySide => []SteeringInv
BY SteeringRuns, SteeringStarts, SteeringKept, PTL

\* Every variable of the turn keeps its type.
THEOREM SteeringTypeCorrect == SideBySide => []Steering!TypeOK
BY SteeringInvariant, TypeFollows, PTL

\* A provider request or a waiting tool never runs on over an adjustment that waits, in whatever order the adjustment,
\* the request, the drains, their application and crashes come (TurnSteeringAttemptNotifier).
THEOREM NoAttemptIsDeaf == SideBySide => []NoDeafAttempt
<1>1. SteeringInv => NoDeafAttempt
  BY NotDeaf DEF NoDeafAttempt
<1>2. QED
  BY <1>1, SteeringInvariant, PTL

\* The conversation sent to the model has the messages of the journal's history, all but those in hand, as long as the
\* images of the history fit one turn (takeAndApplySteering, recovery).
THEOREM ConversationIsKept == SideBySide => []ConversationKeepsUp
<1>1. SteeringInv => ConversationKeepsUp
  BY KeepsUpFollows DEF ConversationKeepsUp
<1>2. QED
  BY <1>1, SteeringInvariant, PTL

\* No message joins the history behind a tool call that waits for its result, unless an earlier turn ended over that
\* call, which only a failed checkpoint brings about (skipCallsForSteering, finish).
THEOREM ProtocolStaysClosed == SideBySide => ProtocolClosed
<1>1. SteeringInv /\ [Steering!Next]_(Steering!vars) =>
        [/\ told' # told => openCalls = 0 \/ abandoned
         /\ abandoned' /\ ~abandoned => forked]_(Steering!vars)
  BY ClosedSteps
<1>2. QED
  BY SteeringRuns, SteeringInvariant, <1>1, PTL DEF ProtocolClosed, Steering!ProtocolClosed

\* Every accepted message reaches the history exactly once and in order, and a turn that answers has been given all of
\* those it accepted (SteeringInbox).
THEOREM MessagesArriveInOrder == SideBySide => DeliversInOrder
<1>1. SteeringInv /\ [Steering!Next]_(Steering!vars) => [Steering!Inbox!Next]_(Steering!Inbox!vars)
  BY InboxSteps
<1>2. QED
  BY SteeringRuns, SteeringInvariant, InboxStarts, <1>1, PTL DEF DeliversInOrder, Steering!DeliversInOrder,
     Steering!Inbox!Spec
=============================================================================
