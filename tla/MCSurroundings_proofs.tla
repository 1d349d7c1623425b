------------------------ MODULE MCSurroundings_proofs ------------------------
(***************************************************************************)
(* Proofs for the components that MCSurroundings runs side by side.  What  *)
(* is written of a component, in terms of the instance that names it,      *)
(* holds of the component; the theorems at the end say so of the whole.    *)
(*                                                                         *)
(* The local decision service (Decisions!) ends when nobody uses it. The   *)
(* property is inductive once it is known what the clients, the service    *)
(* and the connections hold (DecisionInv): the work of the proof is that   *)
(* every way a connection, a request or a worker goes away, alone or with  *)
(* what it leaves on a connection, leaves the timer armed that it should.  *)
(* It is said of a service that was not stopped before it had its worker.  *)
(*                                                                         *)
(* Of a command (Terminal!) three things are inductive together            *)
(* (CommandsInv): what the journal and its process know of the target is   *)
(* so (TruthInv), a result is shown only when there is one (HandleInv),    *)
(* and what may still run has a lease that no evidence removes and, once   *)
(* its process gives it up, a quarantine or an error on the way to one     *)
(* (LeaseInv). Each step is first shown on a command's record, and then    *)
(* for all commands.                                                       *)
(*                                                                         *)
(* Of the Web interface (Web!) each conversation and each page are related *)
(* (Linked): every change is on its way to the page or behind it (Cover),  *)
(* and there is a history of what the conversation showed at each number   *)
(* of its changes with which snapshots, patches and the page agree         *)
(* (Traced). A page with nothing on its way is then at the last of them.   *)
(***************************************************************************)
EXTENDS MCSurroundings, FiniteSetTheorems, SequenceTheorems, WellFoundedInduction, TLAPS

-----------------------------------------------------------------------------
(* The local decision service *)

DecisionsConstants ==
  /\ None \notin Threads /\ None \notin Processes
  /\ None \notin [id : Requests, via : Decisions!Conns]
  /\ MaxConns \in Nat /\ IsFiniteSet(Requests)

Timers == {"initial", "empty", "idle"}
Job == [id : Requests, via : Decisions!Conns]
Stages == {"off", "listen", "probe", "lock", "steal", "verify", "inspect", "unlink", "again", "bound", "up",
           "halted", "stopping", "stray"}
Asked == [type : {"decide", "cancel"}, id : Requests]
Said == [type : {"ready", "fatal", "result"}, id : Requests \cup {None}]
Link == [by : Threads \cup {None}, to : Processes \cup {None}, held : SUBSET {"client", "service"},
         up : Seq(Asked), down : Seq(Said)]
Calling == [at : {"away", "connecting", "starting", "ready", "closed"}, conn : Decisions!Conns \cup {0},
            ready : BOOLEAN, launched : BOOLEAN]
Question == [at : {"new", "waiting", "pending", "answered", "failed"}, by : Threads \cup {None},
     via : Decisions!Conns \cup {0}]
Serving == [at : Stages, ready : BOOLEAN, queue : Seq(Job), active : Job \cup {None},
            canceled : SUBSET Requests, timers : SUBSET Timers, used : BOOLEAN]

\* What the clients and their requests are; who is served has a connection.
ClientTyped ==
  /\ client \in [Threads -> Calling] /\ request \in [Requests -> Question]
  /\ \A c \in Threads : /\ client[c].at \in {"starting", "ready"} => client[c].conn # 0
                        /\ client[c].ready => client[c].at = "ready"
  /\ \A r \in Requests : request[r].at = "pending" => request[r].via # 0
\* What the connections and the services hold.
ServiceTyped == conn \in [Decisions!Conns -> Link] /\ service \in [Processes -> Serving]
\* An end that a service holds is of a connection that was made.
HeldIsMade == \A k \in Decisions!Conns : conn[k].by = None => "service" \notin conn[k].held
\* A service whose worker runs has been armed.
ReadyIsUp == \A s \in Processes : service[s].at # "up" => ~service[s].ready

DecisionInv == ClientTyped /\ ServiceTyped /\ HeldIsMade /\ ReadyIsUp /\ Decisions!UnusedServiceEnds

\* The least element of a nonempty set of numbers.
LEMMA MinOfSome ==
  ASSUME NEW S, S \subseteq Nat, S # {}
  PROVE  /\ Decisions!Min(S) \in S
         /\ \A y \in S : Decisions!Min(S) <= y
<1> DEFINE Below(x) == {y \in S : y <= x}
           Belows == {Below(x) : x \in S}
<1>1. Belows # {} /\ Belows \subseteq FiniteSubsetsOf(S)
  <2>1. ASSUME NEW x \in S
        PROVE  IsFiniteSet(Below(x))
    <3>1. Below(x) \in SUBSET Nat /\ x \in Nat /\ \A y \in Below(x) : y <= x
      OBVIOUS
    <3>2. QED
      BY <3>1, FS_BoundedSetOfNaturals
  <2>2. QED
    BY <2>1 DEF FiniteSubsetsOf
<1>2. PICK U \in Belows : \A V \in Belows : ~(<<V, U>> \in StrictSubsetOrdering(S))
  BY <1>1, FS_StrictSubsetOrderingWellFounded, WFMin
<1>3. PICK x \in S : U = Below(x)
  OBVIOUS
<1>4. ASSUME NEW y \in S, y < x
      PROVE  FALSE
  <2>1. x \in Nat /\ y \in Nat /\ S \subseteq Nat
    OBVIOUS
  <2>2. \A z \in Below(y) : z \in U
    <3> SUFFICES ASSUME NEW z \in S, z <= y PROVE z <= x
      BY <1>3
    <3>1. z \in Nat
      BY <2>1
    <3>2. QED
      BY <1>4, <2>1, <3>1
  <2>3. x \in U /\ x \notin Below(y)
    BY <1>3, <1>4, <2>1
  <2>4. <<Below(y), U>> \in StrictSubsetOrdering(S)
    BY <1>3, <2>2, <2>3 DEF StrictSubsetOrdering
  <2>5. QED
    BY <1>2, <2>4
<1>5. \A y \in S : x <= y
  BY <1>4
<1>6. QED
  BY <1>5 DEF Decisions!Min

\* A finite set in some order.
LEMMA SetInOrder ==
  ASSUME NEW S, IsFiniteSet(S)
  PROVE  Decisions!SetToSeq(S) \in Seq(S)
<1> DEFINE n == Cardinality(S)
<1>1. n \in Nat /\ ExistsBijection(1..n, S)
  BY FS_CardinalityType
<1>2. PICK f \in [1..n -> S] : Decisions!IsInjective(f)
  BY <1>1 DEF ExistsBijection, Bijection, Injection, IsInjective, Decisions!IsInjective
<1>3. Decisions!SetToSeq(S) \in [1..n -> S]
  <2>1. n = Decisions!Cardinality(S)
    BY DEF Cardinality, Decisions!Cardinality
  <2>2. QED
    BY <1>2, <2>1 DEF Decisions!SetToSeq
<1>4. QED
  BY <1>1, <1>3

LEMMA NothingSent ==
  /\ <<>> \in Seq(Asked) /\ <<>> \in Seq(Said) /\ <<>> \in Seq(Job)
BY EmptySeq


\* Another queue for the service.
LEMMA UpSet ==
  ASSUME DecisionInv, NEW k \in Decisions!Conns, NEW u \in Seq(Asked)
  PROVE  /\ [conn EXCEPT ![k].up = u] \in [Decisions!Conns -> Link]
         /\ \A j \in Decisions!Conns : /\ [conn EXCEPT ![k].up = u][j].to = conn[j].to
                                       /\ [conn EXCEPT ![k].up = u][j].by = conn[j].by
                                       /\ [conn EXCEPT ![k].up = u][j].held = conn[j].held
                                       /\ [conn EXCEPT ![k].up = u][j].down = conn[j].down
BY DEF DecisionInv, ServiceTyped, Link

\* Other messages on their way to a client.
LEMMA DownSet ==
  ASSUME NEW f \in [Decisions!Conns -> Link], NEW k \in Decisions!Conns, NEW d \in Seq(Said)
  PROVE  /\ [f EXCEPT ![k].down = d] \in [Decisions!Conns -> Link]
         /\ \A j \in Decisions!Conns : /\ [f EXCEPT ![k].down = d][j].to = f[j].to
                                       /\ [f EXCEPT ![k].down = d][j].by = f[j].by
                                       /\ [f EXCEPT ![k].down = d][j].held = f[j].held
BY DEF Link

\* What a client sends, one request each.
LEMMA SentTyped ==
  ASSUME DecisionsConstants, DecisionInv, NEW k \in Decisions!Conns, NEW S \in SUBSET Requests
  PROVE  /\ Decisions!Sent(k, S) \in [Decisions!Conns -> Link]
         /\ \A j \in Decisions!Conns : /\ Decisions!Sent(k, S)[j].to = conn[j].to
                                          /\ Decisions!Sent(k, S)[j].by = conn[j].by
                                       /\ Decisions!Sent(k, S)[j].held = conn[j].held
                                       /\ Decisions!Sent(k, S)[j].down = conn[j].down
<1> DEFINE M == {[type |-> "decide", id |-> r] : r \in S}
<1>1. IsFiniteSet(M)
  <2>1. IsFiniteSet(S)
    BY FS_Subset DEF DecisionsConstants
  <2>2. [r \in S |-> [type |-> "decide", id |-> r]] \in Surjection(S, M)
    BY DEF Surjection
  <2>3. QED
    BY <2>1, <2>2, FS_Surjection
<1>2. Decisions!SetToSeq(M) \in Seq(Asked)
  <2>1. Decisions!SetToSeq(M) \in Seq(M)
    BY <1>1, SetInOrder
  <2>2. M \subseteq Asked
    BY DEF Asked
  <2>3. QED
    BY <2>1, <2>2
<1> DEFINE asks == conn[k].up \o Decisions!SetToSeq(M)
<1>3. asks \in Seq(Asked)
  BY <1>2, ConcatProperties DEF DecisionInv, ServiceTyped, Link
<1>4. Decisions!Sent(k, S) = [conn EXCEPT ![k].up = asks]
  BY DEF Decisions!Sent
<1> HIDE DEF asks
<1>5. QED
  BY <1>3, <1>4, UpSet

\* What a service keeps has a timer when nobody uses it.
Watched(v, held) ==
  v.at = "up" => /\ held = {} => v.timers # {}
                 /\ v.ready /\ v.active = None /\ v.queue = <<>> => "idle" \in v.timers

\* After dispatch a worker has something to do or its service has a timer.
LEMMA DispatchWatches ==
  ASSUME DecisionsConstants, DecisionInv, NEW s \in Processes, NEW v \in Serving
  PROVE  /\ Decisions!Dispatch(v, s) \in Serving
         /\ Decisions!Dispatch(v, s).at = v.at /\ Decisions!Dispatch(v, s).ready = v.ready
         /\ v.timers \subseteq Decisions!Dispatch(v, s).timers
         /\ (Decisions!Dispatch(v, s).ready /\ Decisions!Dispatch(v, s).active = None)
              => "idle" \in Decisions!Dispatch(v, s).timers
<1>1. CASE ~v.ready \/ v.active # None
  BY <1>1 DEF Decisions!Dispatch
<1>2. CASE v.ready /\ v.active = None /\ Decisions!Wanted(v, s) = {}
  <2>1. Decisions!Dispatch(v, s) = [v EXCEPT !.queue = <<>>, !.timers = @ \cup {"idle"}]
    BY <1>2 DEF Decisions!Dispatch
  <2>2. QED
    BY <1>2, <2>1, NothingSent DEF Serving, Timers
<1>3. CASE v.ready /\ v.active = None /\ Decisions!Wanted(v, s) # {}
  <2> DEFINE first == Decisions!Min(Decisions!Wanted(v, s))
  <2>1. v.queue \in Seq(Job) /\ Decisions!Wanted(v, s) \subseteq 1..Len(v.queue)
    BY DEF Serving, Decisions!Wanted
  <2>2. first \in 1..Len(v.queue)
    BY <1>3, <2>1, MinOfSome
  <2>3. v.queue[first] \in Job
    BY <2>1, <2>2
  <2>4. SubSeq(v.queue, first + 1, Len(v.queue)) \in Seq(Job)
    BY <2>1, <2>2
  <2>5. Decisions!Dispatch(v, s) = [v EXCEPT !.active = v.queue[first], !.queue = SubSeq(@, first + 1, Len(@))]
    BY <1>3 DEF Decisions!Dispatch, Decisions!Taken
  <2>6. v.queue[first] # None
    BY <2>3 DEF DecisionsConstants, Job
  <2> DEFINE a == v.queue[first]
             rest == SubSeq(v.queue, first + 1, Len(v.queue))
  <2>7. Decisions!Dispatch(v, s) = [v EXCEPT !.active = a, !.queue = rest]
    BY <2>5
  <2> HIDE DEF a, rest, first
  <2>8. a \in Job /\ a # None /\ rest \in Seq(Job)
    BY <2>3, <2>4, <2>6 DEF a, rest, first
  <2>9. QED
    BY <1>3, <2>7, <2>8 DEF Serving
<1>4. QED
  BY <1>1, <1>2, <1>3 DEF Serving

\* A step that changes no service, and on connections only what is on the way and
\* what the client holds.
LEMMA ClientStep ==
  ASSUME DecisionsConstants, DecisionInv, ClientTyped', UNCHANGED service, conn' \in [Decisions!Conns -> Link],
         \A k \in Decisions!Conns : /\ conn'[k].by = conn[k].by /\ conn'[k].to = conn[k].to
                                    /\ "service" \in conn'[k].held <=> "service" \in conn[k].held
  PROVE  DecisionInv'
<1>1. \A s \in Processes : Decisions!Held(s)' = Decisions!Held(s)
  BY DEF Decisions!Held
<1>2. ServiceTyped' /\ HeldIsMade' /\ ReadyIsUp'
  BY DEF DecisionInv, ServiceTyped, HeldIsMade, ReadyIsUp
<1>3. Decisions!UnusedServiceEnds'
  BY <1>1 DEF DecisionInv, Decisions!UnusedServiceEnds
<1>4. QED
  BY <1>2, <1>3 DEF DecisionInv

\* A step of one service.
LEMMA ServiceStep ==
  ASSUME DecisionsConstants, DecisionInv, NEW s \in Processes, NEW v \in Serving, ClientTyped',
         service' = [service EXCEPT ![s] = v], conn' \in [Decisions!Conns -> Link], HeldIsMade',
         \A z \in Processes \ {s} : Decisions!Held(z)' = Decisions!Held(z),
         v.at # "up" => ~v.ready,
         Watched(v, Decisions!Held(s)')
  PROVE  DecisionInv'
<1>1. service' \in [Processes -> Serving] /\ service'[s] = v /\ \A z \in Processes \ {s} : service'[z] = service[z]
  BY DEF DecisionInv, ServiceTyped
<1>2. ServiceTyped' /\ ReadyIsUp'
  BY <1>1 DEF DecisionInv, ServiceTyped, ReadyIsUp
<1>3. Decisions!UnusedServiceEnds'
  <2> SUFFICES ASSUME NEW z \in Processes, service'[z].at = "up"
               PROVE  Watched(service'[z], Decisions!Held(z)')
    BY DEF Decisions!UnusedServiceEnds, Watched
  <2>1. CASE z = s
    BY <1>1, <2>1
  <2>2. CASE z # s
    BY <1>1, <2>2 DEF DecisionInv, Decisions!UnusedServiceEnds, Watched
  <2>3. QED
    BY <2>1, <2>2
<1>4. QED
  BY <1>2, <1>3 DEF DecisionInv

\* A step of one service that touches no connection.
LEMMA AloneStep ==
  ASSUME DecisionsConstants, DecisionInv, NEW s \in Processes, NEW v \in Serving, ClientTyped',
         service' = [service EXCEPT ![s] = v], UNCHANGED conn,
         v.at # "up" => ~v.ready,
         Watched(v, Decisions!Held(s))
  PROVE  DecisionInv'
<1>1. \A z \in Processes : Decisions!Held(z)' = Decisions!Held(z)
  BY DEF Decisions!Held
<1>2. HeldIsMade' /\ conn' \in [Decisions!Conns -> Link]
  BY DEF DecisionInv, HeldIsMade, ServiceTyped
<1>3. QED
  BY <1>1, <1>2, ServiceStep

-----------------------------------------------------------------------------
(* Initially, and the clients' steps *)

LEMMA InitDecision ==
  ASSUME DecisionsConstants, Decisions!Init
  PROVE  DecisionInv
<1>1. Decisions!Unused \in Link /\ Decisions!Off \in Serving
  BY NothingSent DEF Decisions!Unused, Decisions!Off, Link, Serving, Stages
<1>2. ServiceTyped /\ HeldIsMade /\ ReadyIsUp /\ Decisions!UnusedServiceEnds
  BY <1>1 DEF Decisions!Init, ServiceTyped, HeldIsMade, ReadyIsUp, Decisions!UnusedServiceEnds, Decisions!Unused,
    Decisions!Off
<1>3. ClientTyped
  BY DEF Decisions!Init, ClientTyped, Decisions!Away, Calling, Question
<1>4. QED
  BY <1>2, <1>3 DEF DecisionInv

LEMMA ClosedTyped ==
  ASSUME DecisionInv, NEW k \in Decisions!Conns, NEW side \in {"client", "service"}
  PROVE  Decisions!Closed(k, side) \in [Decisions!Conns -> Link]
         /\ \A j \in Decisions!Conns : /\ Decisions!Closed(k, side)[j].by = conn[j].by
                                          /\ Decisions!Closed(k, side)[j].to = conn[j].to
                                       /\ Decisions!Closed(k, side)[j].held = IF j
                                            = k THEN conn[j].held \ {side} ELSE conn[j].held
<1>1. conn \in [Decisions!Conns -> Link]
  BY DEF DecisionInv, ServiceTyped
<1> DEFINE u == IF side = "service" THEN <<>> ELSE conn[k].up
           d == IF side = "client" THEN <<>> ELSE conn[k].down
           h == conn[k].held \ {side}
<1>2. u \in Seq(Asked) /\ d \in Seq(Said) /\ h \in SUBSET {"client", "service"}
  BY <1>1, NothingSent DEF Link
<1>3. Decisions!Closed(k, side) = [conn EXCEPT ![k] = [by |-> conn[k].by, to |-> conn[k].to, held |-> h, up |-> u,
              down |-> d]]
  BY <1>1 DEF Decisions!Closed, Link
<1> HIDE DEF u, d, h
<1> DEFINE new == [by |-> conn[k].by, to |-> conn[k].to, held |-> h, up |-> u, down |-> d]
<1>4. new \in Link
  BY <1>1, <1>2 DEF Link
<1>5. Decisions!Closed(k, side) = [conn EXCEPT ![k] = new]
  BY <1>3
<1>6. new.by = conn[k].by /\ new.to = conn[k].to /\ new.held = conn[k].held \ {side}
  BY DEF h
<1> HIDE DEF new
<1>7. QED
  BY <1>1, <1>4, <1>5, <1>6

LEMMA RejectedTyped ==
  ASSUME DecisionInv, NEW S
  PROVE  /\ Decisions!Rejected(S) \in [Requests -> Question]
         /\ \A r \in Requests : Decisions!Rejected(S)[r].at = "pending" => Decisions!Rejected(S)[r].via # 0
BY DEF Decisions!Rejected, DecisionInv, ClientTyped, Question

\* What a client does next has the type it has.
LEMMA CallingStep ==
  ASSUME DecisionInv, NEW c \in Threads, NEW v \in Calling, client' = [client EXCEPT ![c] = v],
         v.at \in {"starting", "ready"} => v.conn # 0, v.ready => v.at = "ready",
         request' \in [Requests -> Question],
         \A r \in Requests : request'[r].at = "pending" => request'[r].via # 0
  PROVE  ClientTyped'
BY DEF DecisionInv, ClientTyped

LEMMA FailedStep ==
  ASSUME DecisionsConstants, DecisionInv, NEW c \in Threads, client[c].conn # 0, Decisions!Failed(c), UNCHANGED service
  PROVE  DecisionInv'
<1>1. conn' = Decisions!Closed(client[c].conn, "client") /\ client[c].conn \in Decisions!Conns
  BY DEF Decisions!Failed, DecisionInv, ClientTyped, Calling
<1>2. ClientTyped'
  <2>1. Decisions!Away \in Calling /\ Decisions!Away.at = "away" /\ ~Decisions!Away.ready
    BY DEF Decisions!Away, Calling
  <2>2. client' = [client EXCEPT ![c] = Decisions!Away]
    BY DEF Decisions!Failed
  <2>3. QED
    BY <2>1, <2>2, CallingStep, RejectedTyped DEF Decisions!Failed
<1>3. QED
  BY <1>1, <1>2, ClosedTyped, ClientStep

LEMMA AskStep ==
  ASSUME DecisionsConstants, DecisionInv, NEW c \in Threads, NEW r \in Requests, Decisions!Ask(c, r)
  PROVE  DecisionInv'
<1> DEFINE k == client[c].conn
<1>1. CASE client[c].ready
  <2>1. conn' = Decisions!Sent(k, {r}) /\ UNCHANGED <<service, client>>
        /\ request' = [request EXCEPT ![r] = [at |-> "pending", by |-> c, via |-> k]]
    BY <1>1 DEF Decisions!Ask
  <2>2. k \in Decisions!Conns /\ k # 0
    BY <1>1 DEF DecisionInv, ClientTyped, Calling
  <2>3. ClientTyped'
    BY <2>1, <2>2 DEF DecisionInv, ClientTyped, Question
  <2>4. QED
    BY <2>1, <2>2, <2>3, SentTyped, ClientStep
<1>2. CASE ~client[c].ready
  <2>1. /\ client' = [client EXCEPT ![c].at = IF @ = "away" THEN "connecting" ELSE @]
        /\ request' = [request EXCEPT ![r] = [at |-> "waiting", by |-> c, via |-> 0]]
        /\ UNCHANGED <<conn, service>>
    BY <1>2 DEF Decisions!Ask
  <2> DEFINE at == IF client[c].at = "away" THEN "connecting" ELSE client[c].at
  <2>4. client' = [client EXCEPT ![c].at = at]
    BY <2>1
  <2>5. /\ at \in {"away", "connecting", "starting", "ready", "closed"}
        /\ at \in {"starting", "ready"} => client[c].at = at
    BY DEF DecisionInv, ClientTyped, Calling
  <2>6. client[c].ready => at = "ready"
    BY DEF DecisionInv, ClientTyped, Calling
  <2> HIDE DEF at
  <2>7. [client[c] EXCEPT !.at = at] \in Calling
    BY <2>5 DEF DecisionInv, ClientTyped, Calling
  <2>2. ClientTyped'
    BY <2>1, <2>4, <2>5, <2>6, <2>7 DEF DecisionInv, ClientTyped, Question, Calling
  <2>3. QED
    BY <2>1, <2>2, ClientStep DEF DecisionInv, ServiceTyped
<1>3. QED
  BY <1>1, <1>2

LEMMA ReceiveStep ==
  ASSUME DecisionsConstants, DecisionInv, NEW c \in Threads, Decisions!Receive(c)
  PROVE  DecisionInv'
<1> DEFINE k == client[c].conn
           m == Head(conn[k].down)
<1>1. UNCHANGED service /\ conn[k].down # <<>> /\ k # 0 /\ k \in Decisions!Conns
  BY DEF Decisions!Receive, DecisionInv, ClientTyped, Calling
<1>2. Tail(conn[k].down) \in Seq(Said) /\ m \in Said
  BY <1>1 DEF DecisionInv, ServiceTyped, Link
<1>3. CASE m.type = "ready"
  <2>1. /\ conn' = [Decisions!Sent(k, Decisions!Mine(c, "waiting")) EXCEPT ![k].down = Tail(@)]
        /\ client' = [client EXCEPT ![c].at = "ready", ![c].ready = TRUE]
        /\ request' = [r \in Requests |-> IF r \in Decisions!Mine(c, "waiting")
                         THEN [at |-> "pending", by |-> c, via |-> k] ELSE request[r]]
    BY <1>3 DEF Decisions!Receive
  <2> DEFINE one == [client EXCEPT ![c].at = "ready"]
  <2>9. client \in [Threads -> Calling]
    BY DEF DecisionInv, ClientTyped
  <2>10. /\ one \in [Threads -> Calling] /\ one[c].at = "ready" /\ one[c].conn = client[c].conn
         /\ \A d \in Threads \ {c} : one[d] = client[d]
    BY <2>9 DEF Calling
  <2>11. client' = [one EXCEPT ![c].ready = TRUE]
    BY <2>1
  <2> HIDE DEF one
  <2>12. /\ client' \in [Threads -> Calling] /\ client'[c].at = "ready" /\ client'[c].conn = client[c].conn
         /\ \A d \in Threads \ {c} : client'[d] = client[d]
    BY <2>10, <2>11 DEF Calling
  <2>13. /\ request' \in [Requests -> Question]
         /\ \A r \in Requests : request'[r].at = "pending" => request'[r].via # 0
    BY <1>1, <2>1 DEF DecisionInv, ClientTyped, Question
  <2>2. ClientTyped'
    BY <1>1, <2>12, <2>13 DEF DecisionInv, ClientTyped
  <2>3. Decisions!Mine(c, "waiting") \in SUBSET Requests
    BY DEF Decisions!Mine
  <2> DEFINE sent == Decisions!Sent(k, Decisions!Mine(c, "waiting"))
  <2>4. sent \in [Decisions!Conns -> Link]
         /\ \A j \in Decisions!Conns : /\ sent[j].to = conn[j].to /\ sent[j].by = conn[j].by
                                       /\ sent[j].held = conn[j].held
                                       /\ sent[j].down = conn[j].down
    BY <1>1, <2>3, SentTyped
  <2> HIDE DEF sent
  <2>5. conn' = [sent EXCEPT ![k].down = Tail(@)]
    BY <2>1 DEF sent
  <2> DEFINE rest == Tail(conn[k].down)
  <2>8. conn' = [sent EXCEPT ![k].down = rest] /\ rest \in Seq(Said)
    BY <1>1, <1>2, <2>4, <2>5
  <2> HIDE DEF rest
  <2>6. /\ conn' \in [Decisions!Conns -> Link]
        /\ \A j \in Decisions!Conns : conn'[j].to = sent[j].to /\ conn'[j].by = sent[j].by
             /\ conn'[j].held = sent[j].held
    BY <1>1, <2>4, <2>8, DownSet
  <2>7. QED
    BY <1>1, <2>2, <2>4, <2>6, ClientStep
<1>4. CASE m.type = "fatal"
  BY <1>1, <1>4, FailedStep DEF Decisions!Receive
<1>5. CASE m.type = "result"
  <2>1. /\ conn' = [conn EXCEPT ![k].down = Tail(@)] /\ UNCHANGED client
        /\ request' = IF m.id \in Decisions!Mine(c, "pending")
                      THEN [request EXCEPT ![m.id] = [at |-> "answered", by |-> None, via |-> 0]] ELSE request
    BY <1>5 DEF Decisions!Receive
  <2>2. /\ conn' \in [Decisions!Conns -> Link]
        /\ \A j \in Decisions!Conns : conn'[j].to = conn[j].to /\ conn'[j].by = conn[j].by
             /\ conn'[j].held = conn[j].held
    BY <1>1, <1>2, <2>1 DEF DecisionInv, ServiceTyped, Link
  <2>3. ClientTyped'
    BY <2>1 DEF DecisionInv, ClientTyped, Question, Decisions!Mine
  <2>4. QED
    BY <1>1, <2>2, <2>3, ClientStep
<1>6. QED
  BY <1>2, <1>3, <1>4, <1>5 DEF Said

LEMMA ConnectStep ==
  ASSUME DecisionsConstants, DecisionInv, NEW c \in Threads, Decisions!Connect(c)
  PROVE  DecisionInv'
<1>0. PICK s \in Processes : s = file
  BY DEF Decisions!Connect
<1> DEFINE k == Decisions!Min(Decisions!FreeConns)
           new == [at |-> "starting", conn |-> k, ready |-> FALSE, launched |-> FALSE]
           down == IF service[s].ready THEN <<[type |-> "ready", id |-> None]>> ELSE <<>>
           link == [by |-> c, to |-> s, held |-> {"client", "service"}, up |-> <<>>, down |-> down]
           v == [service[s] EXCEPT !.timers = @ \ {"empty", "initial"}]
<1>1. /\ Decisions!FreeConns # {}
      /\ client' = [client EXCEPT ![c] = new] /\ conn' = [conn EXCEPT ![k] = link]
      /\ service' = [service EXCEPT ![s] = v] /\ UNCHANGED request
  BY <1>0 DEF Decisions!Connect
<1>2. k \in Decisions!Conns /\ conn[k].by = None /\ k # 0
  <2>1. Decisions!FreeConns \subseteq Decisions!Conns /\ Decisions!Conns \subseteq Nat /\ 0 \notin Decisions!Conns
    BY DEF Decisions!FreeConns, Decisions!Conns, DecisionsConstants
  <2>2. k \in Decisions!FreeConns
    BY <1>1, <2>1, MinOfSome
  <2>3. QED
    BY <2>1, <2>2 DEF Decisions!FreeConns
<1>3. down \in Seq(Said)
  <2>1. [type |-> "ready", id |-> None] \in Said
    BY DEF Said
  <2>2. <<[type |-> "ready", id |-> None]>> \in Seq(Said)
    BY <2>1
  <2>3. QED
    BY <2>2, NothingSent
<1>4. link \in Link /\ new \in Calling
  BY <1>1, <1>2, <1>3, NothingSent DEF Link, Calling
<1>5. v \in Serving /\ v.at = service[s].at /\ v.ready = service[s].ready /\ v.active = service[s].active
      /\ v.queue = service[s].queue /\ v.timers = service[s].timers \ {"empty", "initial"}
  BY <1>1 DEF DecisionInv, ServiceTyped, Serving
<1>6. ClientTyped'
  BY <1>1, <1>2, <1>4 DEF DecisionInv, ClientTyped
<1>7. link.by = c /\ link.to = s /\ "service" \in link.held
  OBVIOUS
<1> HIDE DEF link, v, k, new, down
<1>8. conn' \in [Decisions!Conns -> Link] /\ conn'[k] = link /\ \A j \in Decisions!Conns \ {k} : conn'[j] = conn[j]
  BY <1>1, <1>2, <1>4 DEF DecisionInv, ServiceTyped
<1>9. HeldIsMade'
  BY <1>7, <1>8 DEF DecisionInv, HeldIsMade, DecisionsConstants
<1>10. "service" \notin conn[k].held
  BY <1>2 DEF DecisionInv, HeldIsMade
<1>11. \A z \in Processes \ {s} : Decisions!Held(z)' = Decisions!Held(z)
  BY <1>2, <1>7, <1>8, <1>10 DEF Decisions!Held
<1>12. k \in Decisions!Held(s)'
  BY <1>1, <1>2, <1>7, <1>8 DEF Decisions!Held
<1>13. Watched(v, Decisions!Held(s)')
  BY <1>1, <1>5, <1>12 DEF Watched, DecisionInv, Decisions!UnusedServiceEnds
<1>14. v.at # "up" => ~v.ready
  BY <1>1, <1>5 DEF DecisionInv, ReadyIsUp
<1>15. QED
  BY <1>1, <1>5, <1>6, <1>8, <1>9, <1>11, <1>13, <1>14, ServiceStep

LEMMA LaunchStep ==
  ASSUME DecisionsConstants, DecisionInv, NEW c \in Threads, Decisions!Launch(c)
  PROVE  DecisionInv'
<1>1. PICK s \in Processes : service[s].at = "off" /\ service' = [service EXCEPT ![s].at = "listen"]
  BY DEF Decisions!Launch
<1>2. client' = [client EXCEPT ![c].launched = TRUE] /\ UNCHANGED <<request, conn>>
  BY DEF Decisions!Launch
<1>3. ClientTyped'
  BY <1>2 DEF DecisionInv, ClientTyped, Calling
<1> DEFINE v == [service[s] EXCEPT !.at = "listen"]
<1>4. v \in Serving /\ v.at = "listen" /\ v.ready = service[s].ready /\ service' = [service EXCEPT ![s] = v]
  BY <1>1 DEF DecisionInv, ServiceTyped, Serving, Stages
<1>5. ~service[s].ready
  BY <1>1 DEF DecisionInv, ReadyIsUp
<1>6. Watched(v, Decisions!Held(s))
  BY <1>4 DEF Watched
<1> HIDE DEF v
<1>7. QED
  BY <1>2, <1>3, <1>4, <1>5, <1>6, AloneStep

LEMMA LeavingStep ==
  ASSUME DecisionsConstants, DecisionInv, NEW c \in Threads, Decisions!GiveUp(c) \/ Decisions!Close(c)
      \/ Decisions!StartTimeout(c) \/ Decisions!Disconnected(c)
  PROVE  DecisionInv'
<1>1. CASE Decisions!GiveUp(c)
  <2> DEFINE v == Decisions!Away
  <2>1. v \in Calling /\ v.at = "away" /\ ~v.ready
    BY DEF Decisions!Away, Calling
  <2>2. /\ client' = [client EXCEPT ![c] = v]
        /\ request' = Decisions!Rejected(Decisions!Mine(c, "waiting"))
    BY <1>1 DEF Decisions!GiveUp
  <2>3. /\ request' \in [Requests -> Question]
        /\ \A r \in Requests : request'[r].at = "pending" => request'[r].via # 0
    BY <2>2, RejectedTyped
  <2> HIDE DEF v
  <2>4. ClientTyped'
    BY <2>1, <2>2, <2>3, CallingStep
  <2>5. QED
    BY <1>1, <2>4, ClientStep DEF Decisions!GiveUp, DecisionInv, ServiceTyped
<1>2. CASE Decisions!Close(c)
  <2> DEFINE v == [Decisions!Away EXCEPT !.at = "closed"]
  <2>1. v \in Calling /\ v.at = "closed" /\ ~v.ready
    BY DEF Decisions!Away, Calling
  <2>2. /\ client' = [client EXCEPT ![c] = v]
        /\ \E S : request' = Decisions!Rejected(S)
    BY <1>2 DEF Decisions!Close
  <2> HIDE DEF v
  <2>3. ClientTyped'
    <3>1. /\ request' \in [Requests -> Question]
          /\ \A r \in Requests : request'[r].at = "pending" => request'[r].via # 0
      BY <2>2, RejectedTyped
    <3>2. QED
      BY <2>1, <2>2, <3>1, CallingStep
  <2>4. UNCHANGED service
    BY <1>2 DEF Decisions!Close
  <2>5. CASE client[c].conn = 0
    BY <1>2, <2>3, <2>4, <2>5, ClientStep DEF Decisions!Close, DecisionInv, ServiceTyped
  <2>6. CASE client[c].conn # 0
    <3>1. conn' = Decisions!Closed(client[c].conn, "client") /\ client[c].conn \in Decisions!Conns
      BY <1>2, <2>6 DEF Decisions!Close, DecisionInv, ClientTyped, Calling
    <3>2. QED
      BY <2>3, <2>4, <3>1, ClosedTyped, ClientStep
  <2>7. QED
    BY <2>5, <2>6
<1>3. CASE Decisions!StartTimeout(c)
  BY <1>3, FailedStep DEF Decisions!StartTimeout, DecisionInv, ClientTyped
<1>4. CASE Decisions!Disconnected(c)
  BY <1>4, FailedStep DEF Decisions!Disconnected
<1>5. QED
  BY <1>1, <1>2, <1>3, <1>4

LEMMA CancelStep ==
  ASSUME DecisionsConstants, DecisionInv, NEW r \in Requests, Decisions!Cancel(r)
  PROVE  DecisionInv'
<1>1. UNCHANGED <<client, service>> /\ request' = Decisions!Rejected({r})
  BY DEF Decisions!Cancel
<1>2. ClientTyped'
  BY <1>1, RejectedTyped DEF DecisionInv, ClientTyped
<1>3. CASE request[r].at = "pending"
  <2> DEFINE k == request[r].via
             m == [type |-> "cancel", id |-> r]
             u == Append(conn[k].up, m)
  <2>1. k \in Decisions!Conns
    BY <1>3 DEF DecisionInv, ClientTyped, Question
  <2>2. m \in Asked /\ conn[k].up \in Seq(Asked)
    BY <2>1 DEF Asked, DecisionInv, ServiceTyped, Link
  <2>3. u \in Seq(Asked)
    BY <2>2
  <2>4. conn' = [conn EXCEPT ![k].up = u]
    BY <1>3 DEF Decisions!Cancel
  <2> HIDE DEF k, u
  <2>5. QED
    BY <1>1, <1>2, <2>1, <2>3, <2>4, UpSet, ClientStep
<1>4. CASE request[r].at # "pending"
  BY <1>1, <1>2, <1>4, ClientStep DEF Decisions!Cancel, DecisionInv, ServiceTyped
<1>5. QED
  BY <1>3, <1>4

-----------------------------------------------------------------------------
(* The steps of a service *)

\* What a service does next about its endpoint, before its worker runs.
LEMMA GoesStep ==
  ASSUME DecisionsConstants, DecisionInv, NEW s \in Processes, NEW at \in Stages \ {"up"}, service[s].at # "up",
         service' = [service EXCEPT ![s].at = at], UNCHANGED <<client, request, conn>>
  PROVE  DecisionInv'
<1> DEFINE v == [service[s] EXCEPT !.at = at]
<1>1. v \in Serving /\ v.at = at /\ v.ready = service[s].ready /\ service' = [service EXCEPT ![s] = v]
  BY DEF DecisionInv, ServiceTyped, Serving
<1>2. ~service[s].ready
  BY DEF DecisionInv, ReadyIsUp
<1>3. ClientTyped'
  BY DEF DecisionInv, ClientTyped
<1> HIDE DEF v
<1>4. Watched(v, Decisions!Held(s))
  BY <1>1 DEF Watched
<1>5. QED
  BY <1>1, <1>2, <1>3, <1>4, AloneStep

LEMMA OffServing ==
  Decisions!Off \in Serving /\ Decisions!Off.at = "off" /\ ~Decisions!Off.ready
BY NothingSent DEF Decisions!Off, Serving, Stages

\* What a stopped service is: gone, or still to learn that its file has its mode.
LEMMA StoppingServing ==
  ASSUME NEW v \in {Decisions!Off, [Decisions!Off EXCEPT !.at = "stopping"]}
  PROVE  v \in Serving /\ v.at # "up" /\ ~v.ready
BY OffServing DEF Decisions!Off, Serving, Stages

LEMMA EndsStep ==
  ASSUME DecisionsConstants, DecisionInv, NEW s \in Processes, Decisions!Ends(s), UNCHANGED <<client, request, conn>>
  PROVE  DecisionInv'
<1>1. Watched(Decisions!Off, Decisions!Held(s))
  BY OffServing DEF Watched
<1>2. ClientTyped'
  BY DEF DecisionInv, ClientTyped
<1>3. QED
  BY <1>1, <1>2, OffServing, AloneStep DEF Decisions!Ends

\* Another service answers a probe: its timers change, and the one that probed ends.
LEMMA AnsweredStep ==
  ASSUME DecisionsConstants, DecisionInv, NEW s \in Processes, service[s].at # "up", Decisions!Alive,
         Decisions!Answered(s), UNCHANGED <<client, request, conn>>
  PROVE  DecisionInv'
<1> DEFINE f == file
           e == IF Decisions!Held(f) = {} THEN {"empty"} ELSE {}
           left == [service EXCEPT ![s] = Decisions!Off]
           v == [left[f] EXCEPT !.timers = (@ \ {"empty", "initial"}) \cup e]
<1>1. f \in Processes
  BY DEF Decisions!Alive
<1>2. left \in [Processes -> Serving] /\ left[s] = Decisions!Off /\ \A z \in Processes \ {s} : left[z] = service[z]
  BY OffServing DEF DecisionInv, ServiceTyped
<1>3. service' = [left EXCEPT ![f] = v]
  BY Zenon DEF Decisions!Answered
<1> HIDE DEF f, left
<1>4. left[f] \in Serving
  BY <1>1, <1>2
<1>5. v \in Serving /\ v.at = left[f].at /\ v.ready = left[f].ready /\ v.active = left[f].active
      /\ v.queue = left[f].queue /\ v.timers = (left[f].timers \ {"empty", "initial"}) \cup e
  BY <1>4 DEF Serving, Timers
<1> HIDE DEF v
<1>6. service' \in [Processes -> Serving] /\ service'[f] = v /\ \A z \in Processes \ {f} : service'[z] = left[z]
  BY <1>1, <1>2, <1>3, <1>5
<1>7. \A z \in Processes : Decisions!Held(z)' = Decisions!Held(z)
  BY DEF Decisions!Held
<1>8. \A z \in Processes : Watched(left[z], Decisions!Held(z)) /\ (left[z].at # "up" => ~left[z].ready)
  BY <1>2, OffServing DEF Watched, DecisionInv, ReadyIsUp, Decisions!UnusedServiceEnds
<1>9. Watched(v, Decisions!Held(f)) /\ (v.at # "up" => ~v.ready)
  BY <1>1, <1>5, <1>8 DEF Watched
<1>10. \A z \in Processes : Watched(service'[z], Decisions!Held(z)') /\ (service'[z].at # "up" => ~service'[z].ready)
  BY <1>6, <1>7, <1>8, <1>9
<1>11. ServiceTyped' /\ HeldIsMade' /\ ReadyIsUp' /\ ClientTyped'
  BY <1>6, <1>10 DEF DecisionInv, ServiceTyped, HeldIsMade, ReadyIsUp, ClientTyped
<1>12. Decisions!UnusedServiceEnds'
  BY <1>10 DEF Decisions!UnusedServiceEnds, Watched
<1>13. QED
  BY <1>11, <1>12 DEF DecisionInv

LEMMA EndpointStep ==
  ASSUME DecisionsConstants, DecisionInv, NEW s \in Processes,
         Decisions!Listen(s) \/ Decisions!Probe(s) \/ Decisions!Lock(s) \/ Decisions!Steal(s) \/ Decisions!Verify(s)
             \/ Decisions!Inspect(s) \/ Decisions!Unlink(s) \/ Decisions!ListenAgain(s)
  PROVE  DecisionInv'
<1>1. service[s].at # "up" /\ UNCHANGED <<client, request, conn>>
  BY DEF Decisions!Listen, Decisions!Probe, Decisions!Lock, Decisions!Steal, Decisions!Verify, Decisions!Inspect,
    Decisions!Unlink, Decisions!ListenAgain
<1>2. \/ Decisions!Ends(s)
      \/ \E at \in Stages \ {"up"} : service' = [service EXCEPT ![s].at = at]
      \/ Decisions!Alive /\ Decisions!Answered(s)
  <2>1. "bound" \in Stages \ {"up"} /\ "probe" \in Stages \ {"up"} /\ "lock" \in Stages \ {"up"}
        /\ "verify" \in Stages \ {"up"} /\ "steal" \in Stages \ {"up"} /\ "inspect" \in Stages \ {"up"}
        /\ "again" \in Stages \ {"up"} /\ "unlink" \in Stages \ {"up"}
    BY DEF Stages
  <2>2. CASE Decisions!Listen(s)
    BY <2>1, <2>2 DEF Decisions!Listen, Decisions!Bind, Decisions!Goes
  <2>3. CASE Decisions!Probe(s)
    BY <2>1, <2>3 DEF Decisions!Probe, Decisions!Goes
  <2>4. CASE Decisions!Lock(s)
    BY <2>1, <2>4 DEF Decisions!Lock, Decisions!Goes
  <2>5. CASE Decisions!Steal(s)
    BY <2>1, <2>5 DEF Decisions!Steal, Decisions!Goes
  <2>6. CASE Decisions!Verify(s)
    BY <2>1, <2>6 DEF Decisions!Verify, Decisions!Goes
  <2>7. CASE Decisions!Inspect(s)
    BY <2>1, <2>7 DEF Decisions!Inspect, Decisions!Goes
  <2>8. CASE Decisions!Unlink(s)
    BY <2>1, <2>8 DEF Decisions!Unlink, Decisions!Goes
  <2>9. CASE Decisions!ListenAgain(s)
    BY <2>1, <2>9 DEF Decisions!ListenAgain, Decisions!Bind, Decisions!Goes
  <2>10. QED
    BY <2>2, <2>3, <2>4, <2>5, <2>6, <2>7, <2>8, <2>9
<1>3. QED
  BY <1>1, <1>2, GoesStep, EndsStep, AnsweredStep

\* A service that leaves: what its clients receive last changes nothing else.
LEMMA LeavesStep ==
  ASSUME DecisionsConstants, DecisionInv, NEW s \in Processes, UNCHANGED <<client, request>>,
         NEW v \in {Decisions!Off, [Decisions!Off EXCEPT !.at = "stopping"]}, service' = [service EXCEPT ![s] = v],
         conn' \in [Decisions!Conns -> Link],
         \A k \in Decisions!Conns : /\ conn'[k].by = conn[k].by /\ conn'[k].to = conn[k].to
                                    /\ "service" \in conn'[k].held => "service" \in conn[k].held
                                    /\ conn[k].to # s => conn'[k] = conn[k]
  PROVE  DecisionInv'
<1>1. \A z \in Processes \ {s} : Decisions!Held(z)' = Decisions!Held(z)
  BY DEF Decisions!Held
<1>2. HeldIsMade'
  BY DEF DecisionInv, HeldIsMade
<1>3. ClientTyped'
  BY DEF DecisionInv, ClientTyped
<1>4. v \in Serving /\ v.at # "up" /\ ~v.ready
  BY StoppingServing
<1>5. Watched(v, Decisions!Held(s)')
  BY <1>4 DEF Watched
<1> HIDE DEF HeldIsMade, ClientTyped
<1>6. QED
  BY <1>1, <1>2, <1>3, <1>4, <1>5, ServiceStep

LEMMA StoppedStep ==
  ASSUME DecisionsConstants, DecisionInv, NEW s \in Processes, NEW last \in Seq(Said), Decisions!Stopped(s, last),
          UNCHANGED <<client, request>>
  PROVE  DecisionInv'
<1> DEFINE left(k) == [conn[k] EXCEPT !.held = @ \ {"service"}, !.up = <<>>, !.down = @ \o last]
<1>1. \A k \in Decisions!Conns : conn'[k] = IF k \in Decisions!Held(s) THEN left(k) ELSE conn[k]
  BY DEF Decisions!Stopped
<1>2. DOMAIN conn' = Decisions!Conns /\ conn' = [k \in Decisions!Conns |-> conn'[k]]
  BY DEF Decisions!Stopped
<1>3. ASSUME NEW k \in Decisions!Conns
      PROVE  left(k) \in Link /\ left(k).by = conn[k].by /\ left(k).to = conn[k].to /\ "service" \notin left(k).held
  <2> DEFINE d == conn[k].down \o last
  <2>1. conn[k] \in Link
    BY DEF DecisionInv, ServiceTyped
  <2>2. d \in Seq(Said)
    BY <2>1, ConcatProperties DEF Link
  <2>3. left(k) = [conn[k] EXCEPT !.held = @ \ {"service"}, !.up = <<>>, !.down = d]
    OBVIOUS
  <2> HIDE DEF d
  <2>4. QED
    BY <2>1, <2>2, <2>3, NothingSent DEF Link
<1> HIDE DEF left
<1>4. conn' \in [Decisions!Conns -> Link]
  BY <1>1, <1>2, <1>3 DEF DecisionInv, ServiceTyped
<1>5. \A k \in Decisions!Conns : /\ conn'[k].by = conn[k].by /\ conn'[k].to = conn[k].to
                                 /\ "service" \in conn'[k].held => "service" \in conn[k].held
                                 /\ conn[k].to # s => conn'[k] = conn[k]
  BY <1>1, <1>3 DEF Decisions!Held
<1>6. \E v \in {Decisions!Off, [Decisions!Off EXCEPT !.at = "stopping"]} : service' = [service EXCEPT ![s] = v]
  BY DEF Decisions!Stopped, DecisionInv, ServiceTyped
<1>7. QED
  BY <1>4, <1>5, <1>6, LeavesStep

LEMMA CrashStep ==
  ASSUME DecisionsConstants, DecisionInv, NEW s \in Processes, Decisions!Crash(s)
  PROVE  DecisionInv'
<1> DEFINE left(k) == [conn[k] EXCEPT !.held = @ \ {"service"}, !.up = <<>>]
<1>1. \A k \in Decisions!Conns : conn'[k] = IF k \in Decisions!Held(s) THEN left(k) ELSE conn[k]
  BY DEF Decisions!Crash
<1>2. conn' = [k \in Decisions!Conns |-> conn'[k]]
  BY DEF Decisions!Crash
<1>3. ASSUME NEW k \in Decisions!Conns
      PROVE  left(k) \in Link /\ left(k).by = conn[k].by /\ left(k).to = conn[k].to /\ "service" \notin left(k).held
  BY NothingSent DEF Link, DecisionInv, ServiceTyped
<1> HIDE DEF left
<1>4. conn' \in [Decisions!Conns -> Link]
  BY <1>1, <1>2, <1>3 DEF DecisionInv, ServiceTyped
<1>5. \A k \in Decisions!Conns : /\ conn'[k].by = conn[k].by /\ conn'[k].to = conn[k].to
                                 /\ "service" \in conn'[k].held => "service" \in conn[k].held
                                 /\ conn[k].to # s => conn'[k] = conn[k]
  BY <1>1, <1>3 DEF Decisions!Held
<1>6. service' = [service EXCEPT ![s] = Decisions!Off] /\ UNCHANGED <<client, request>>
  BY DEF Decisions!Crash, Decisions!Ends
<1>7. QED
  BY <1>4, <1>5, <1>6, LeavesStep

LEMMA ArmStep ==
  ASSUME DecisionsConstants, DecisionInv, NEW s \in Processes, Decisions!Arm(s)
  PROVE  DecisionInv'
<1> DEFINE v == [service[s] EXCEPT !.at = "up", !.timers = @ \cup {"initial"}]
<1>1. service[s] \in Serving /\ ~service[s].ready /\ service[s].at # "up" /\ UNCHANGED <<client, request, conn>>
  BY DEF Decisions!Arm, DecisionInv, ServiceTyped, ReadyIsUp
<1>2. CASE service' = [service EXCEPT ![s].at = "up", ![s].timers = @ \cup {"initial"}]
  <2>1. v \in Serving /\ ~v.ready /\ "initial" \in v.timers /\ v.at = "up"
    BY <1>1 DEF Serving, Stages, Timers
  <2>2. service' = [service EXCEPT ![s] = v]
    BY <1>2 DEF DecisionInv, ServiceTyped, Serving
  <2>3. ClientTyped'
    BY <1>1 DEF DecisionInv, ClientTyped
  <2> HIDE DEF v
  <2>4. Watched(v, Decisions!Held(s))
    BY <2>1 DEF Watched
  <2>5. QED
    BY <1>1, <2>1, <2>2, <2>3, <2>4, AloneStep
<1>3. CASE Decisions!Goes(s, "halted") \/ Decisions!Goes(s, "stray")
  <2>1. "halted" \in Stages \ {"up"} /\ "stray" \in Stages \ {"up"}
    BY DEF Stages
  <2>2. QED
    BY <1>1, <1>3, <2>1, GoesStep DEF Decisions!Goes
<1>4. CASE Decisions!Ends(s)
  BY <1>1, <1>4, EndsStep
<1>5. QED
  BY <1>2, <1>3, <1>4 DEF Decisions!Arm

\* A step on connections that leaves who holds them.
LEMMA HeldAlike ==
  ASSUME DecisionInv,
         \A k \in Decisions!Conns : conn'[k].by = conn[k].by /\ conn'[k].to = conn[k].to /\ conn'[k].held = conn[k].held
  PROVE  HeldIsMade' /\ \A z \in Processes : Decisions!Held(z)' = Decisions!Held(z)
BY DEF DecisionInv, HeldIsMade, Decisions!Held

LEMMA ServeStep ==
  ASSUME DecisionsConstants, DecisionInv, NEW s \in Processes, NEW k \in Decisions!Conns, Decisions!Serve(s, k)
  PROVE  DecisionInv'
<1> DEFINE m == Head(conn[k].up)
           v == service[s]
           new == [v EXCEPT !.queue = Append(@, [id |-> m.id, via |-> k]), !.used = TRUE, !.timers = @ \ {"idle"}]
           rest == Tail(conn[k].up)
           canceling == [v EXCEPT !.canceled = @ \cup {m.id}]
           next == IF m.type = "cancel" THEN canceling ELSE Decisions!Dispatch(new, s)
<1>1. /\ v \in Serving /\ conn[k].up \in Seq(Asked) /\ conn[k].up # <<>> /\ k \in Decisions!Held(s)
      /\ v.at # "up" => ~v.ready
  BY DEF Decisions!Serve, DecisionInv, ServiceTyped, Link, ReadyIsUp
<1>2. m \in Asked /\ rest \in Seq(Asked)
  BY <1>1
<1>3. conn' = [conn EXCEPT ![k].up = rest] /\ service' = [service EXCEPT ![s] = next] /\ ClientTyped'
  BY DEF Decisions!Serve, DecisionInv, ClientTyped
<1>4. HeldIsMade' /\ conn' \in [Decisions!Conns -> Link] /\ \A z \in Processes : Decisions!Held(z)' = Decisions!Held(z)
  <2> HIDE DEF rest
  <2>1. /\ conn' \in [Decisions!Conns -> Link]
        /\ \A j \in Decisions!Conns : conn'[j].by = conn[j].by /\ conn'[j].to = conn[j].to
             /\ conn'[j].held = conn[j].held
    BY <1>2, <1>3, UpSet
  <2>2. QED
    BY <2>1, HeldAlike
<1>5. new \in Serving /\ new.at = v.at /\ new.ready = v.ready
  <2> DEFINE q == Append(v.queue, [id |-> m.id, via |-> k])
  <2>1. [id |-> m.id, via |-> k] \in Job
    BY <1>2 DEF Asked, Job
  <2>2. v.queue \in Seq(Job)
    BY <1>1 DEF Serving
  <2>3. q \in Seq(Job)
    BY <2>1, <2>2
  <2>4. new = [v EXCEPT !.queue = q, !.used = TRUE, !.timers = @ \ {"idle"}]
    OBVIOUS
  <2> HIDE DEF q, v
  <2>5. QED
    BY <1>1, <2>3, <2>4 DEF Serving
<1>6. CASE m.type = "cancel"
  <2>1. canceling \in Serving /\ canceling.at = v.at /\ canceling.ready = v.ready /\ canceling.timers = v.timers
        /\ canceling.active = v.active /\ canceling.queue = v.queue
    BY <1>1, <1>2 DEF Serving, Asked
  <2>2. Watched(canceling, Decisions!Held(s))
    BY <2>1 DEF Watched, DecisionInv, Decisions!UnusedServiceEnds
  <2>3. service' = [service EXCEPT ![s] = canceling]
    BY <1>3, <1>6
  <2>4. conn' \in [Decisions!Conns -> Link] /\ HeldIsMade' /\ ClientTyped'
    BY <1>3, <1>4
  <2>5. \A z \in Processes : Decisions!Held(z)' = Decisions!Held(z)
    BY <1>4
  <2>6. canceling.at # "up" => ~canceling.ready
    BY <1>1, <2>1
  <2>7. Watched(canceling, Decisions!Held(s)')
    BY <2>2, <2>5
  <2> HIDE DEF canceling
  <2>8. QED
    BY <2>1, <2>3, <2>4, <2>5, <2>6, <2>7, ServiceStep
<1>7. CASE m.type # "cancel"
  <2>1. service' = [service EXCEPT ![s] = Decisions!Dispatch(new, s)]
    BY <1>3, <1>7
  <2> HIDE DEF new, v
  <2>2. /\ Decisions!Dispatch(new, s) \in Serving
        /\ Decisions!Dispatch(new, s).at = new.at /\ Decisions!Dispatch(new, s).ready = new.ready
        /\ (Decisions!Dispatch(new, s).ready /\ Decisions!Dispatch(new, s).active = None)
             => "idle" \in Decisions!Dispatch(new, s).timers
    BY <1>5, DispatchWatches
  <2>3. Watched(Decisions!Dispatch(new, s), Decisions!Held(s)')
    BY <1>1, <1>4, <2>2 DEF Watched
  <2>4. QED
    BY <1>1, <1>3, <1>4, <1>5, <2>1, <2>2, <2>3, ServiceStep
<1>8. QED
  BY <1>6, <1>7

LEMMA ClosesStep ==
  ASSUME DecisionsConstants, DecisionInv, NEW s \in Processes, NEW k \in Decisions!Conns, Decisions!Closes(s, k)
  PROVE  DecisionInv'
<1> DEFINE v == service[s]
           gone == {q.id : q \in {q \in Decisions!ToSet(v.queue) \cup (IF v.active = None THEN {}
               ELSE {v.active}) : q.via = k}}
<1>1. v \in Serving /\ k \in Decisions!Held(s) /\ UNCHANGED <<client, request>> /\ (v.at # "up" => ~v.ready)
  BY DEF Decisions!Closes, DecisionInv, ServiceTyped, ReadyIsUp
<1>2. gone \in SUBSET Requests
  <2>1. \A q \in Decisions!ToSet(v.queue) : q \in Job
    <3>1. v.queue \in Seq(Job)
      BY <1>1 DEF Serving
    <3> HIDE DEF v
    <3>2. QED
      BY <3>1 DEF Decisions!ToSet
  <2>2. v.active # None => v.active \in Job
    BY <1>1 DEF Serving
  <2>3. QED
    BY <2>1, <2>2 DEF Job
<1>3. ClientTyped'
  BY <1>1 DEF DecisionInv, ClientTyped
<1>4. ASSUME conn' = Decisions!Closed(k, "service")
      PROVE  /\ HeldIsMade' /\ conn' \in [Decisions!Conns -> Link] /\ Decisions!Held(s)' = Decisions!Held(s) \ {k}
             /\ \A z \in Processes \ {s} : Decisions!Held(z)' = Decisions!Held(z)
  <2>1. /\ conn' \in [Decisions!Conns -> Link]
        /\ \A j \in Decisions!Conns : /\ conn'[j].by = conn[j].by /\ conn'[j].to = conn[j].to
                                      /\ conn'[j].held = IF j = k THEN conn[j].held \ {"service"} ELSE conn[j].held
    BY <1>4, ClosedTyped
  <2>2. conn[k].to = s
    BY <1>1 DEF Decisions!Held
  <2>3. QED
    BY <2>1, <2>2 DEF Decisions!Held, DecisionInv, HeldIsMade
<1>5. CASE Decisions!Held(s) # {k}
  <2> DEFINE new == [v EXCEPT !.canceled = @ \cup gone]
  <2>1. service' = [service EXCEPT ![s] = new] /\ conn' = Decisions!Closed(k, "service")
    BY <1>5 DEF Decisions!Closes
  <2> HIDE DEF gone
  <2>2. new \in Serving /\ new.at = v.at /\ new.ready = v.ready /\ new.timers = v.timers
        /\ new.active = v.active /\ new.queue = v.queue
    BY <1>1, <1>2 DEF Serving
  <2>3. Decisions!Held(s)' # {}
    BY <1>1, <1>4, <1>5, <2>1
  <2>4. Watched(new, Decisions!Held(s)')
    BY <2>2, <2>3 DEF Watched, DecisionInv, Decisions!UnusedServiceEnds
  <2> HIDE DEF new, v
  <2>5. QED
    BY <1>1, <1>3, <1>4, <2>1, <2>2, <2>4, ServiceStep
<1>6. CASE Decisions!Held(s) = {k} /\ v.used
  <2>1. Decisions!Stopped(s, <<>>)
    BY <1>6 DEF Decisions!Closes
  <2>2. QED
    BY <1>1, <2>1, NothingSent, StoppedStep
<1>7. CASE Decisions!Held(s) = {k} /\ ~v.used
  <2> DEFINE new == [v EXCEPT !.canceled = @ \cup gone, !.timers = @ \cup {"empty"}]
  <2>1. service' = [service EXCEPT ![s].canceled = @ \cup gone, ![s].timers = @ \cup {"empty"}]
        /\ conn' = Decisions!Closed(k, "service")
    BY <1>7 DEF Decisions!Closes
  <2> HIDE DEF gone
  <2>2. service' = [service EXCEPT ![s] = new]
    BY <1>2, <2>1 DEF DecisionInv, ServiceTyped, Serving
  <2>3. new \in Serving /\ new.at = v.at /\ new.ready = v.ready /\ new.timers = v.timers \cup {"empty"}
        /\ new.active = v.active /\ new.queue = v.queue
    BY <1>1, <1>2 DEF Serving, Timers
  <2>4. Watched(new, Decisions!Held(s)')
    BY <2>3 DEF Watched, DecisionInv, Decisions!UnusedServiceEnds
  <2> HIDE DEF new, v
  <2>5. QED
    BY <1>1, <1>3, <1>4, <2>1, <2>2, <2>3, <2>4, ServiceStep
<1>8. QED
  BY <1>5, <1>6, <1>7

LEMMA TimerStep ==
  ASSUME DecisionsConstants, DecisionInv, NEW s \in Processes, Decisions!TimerFires(s)
  PROVE  DecisionInv'
<1>1. PICK t \in service[s].timers :
        IF t = "initial" /\ Decisions!Held(s) # {}
        THEN service' = [service EXCEPT ![s].timers = @ \ {t}] /\ UNCHANGED <<file, conn>>
        ELSE Decisions!Stopped(s, <<>>)
  BY DEF Decisions!TimerFires
<1>2. UNCHANGED <<client, request>>
  BY DEF Decisions!TimerFires
<1>3. CASE t = "initial" /\ Decisions!Held(s) # {}
  <2> DEFINE v == [service[s] EXCEPT !.timers = @ \ {"initial"}]
  <2>1. service' = [service EXCEPT ![s] = v] /\ UNCHANGED conn
    BY <1>1, <1>3
  <2>2. service[s] \in Serving /\ (service[s].at # "up" => ~service[s].ready)
    BY DEF DecisionInv, ServiceTyped, ReadyIsUp
  <2>3. v \in Serving /\ v.at = service[s].at /\ v.ready = service[s].ready /\ v.active = service[s].active
        /\ v.queue = service[s].queue /\ v.timers = service[s].timers \ {"initial"}
    BY <2>2 DEF Serving
  <2>4. Watched(v, Decisions!Held(s))
    BY <1>3, <2>3 DEF Watched, DecisionInv, Decisions!UnusedServiceEnds
  <2>5. ClientTyped'
    BY <1>2 DEF DecisionInv, ClientTyped
  <2> HIDE DEF v
  <2>6. QED
    BY <2>1, <2>2, <2>3, <2>4, <2>5, AloneStep
<1>4. CASE ~(t = "initial" /\ Decisions!Held(s) # {})
  <2>1. Decisions!Stopped(s, <<>>)
    BY <1>1, <1>4
  <2>2. QED
    BY <1>2, <2>1, NothingSent, StoppedStep
<1>5. QED
  BY <1>3, <1>4

LEMMA WorkerReadyStep ==
  ASSUME DecisionsConstants, DecisionInv, NEW s \in Processes, Decisions!WorkerReady(s)
  PROVE  DecisionInv'
<1> DEFINE v == [service[s] EXCEPT !.ready = TRUE]
           m == [type |-> "ready", id |-> None]
           sends(k) == [conn[k] EXCEPT !.down = Append(@, m)]
<1>1. service' = [service EXCEPT ![s] = Decisions!Dispatch(v, s)] /\ service[s].at = "up"
          /\ UNCHANGED <<client, request>>
  BY DEF Decisions!WorkerReady
<1>2. v \in Serving /\ v.at = "up" /\ v.ready
  BY <1>1 DEF DecisionInv, ServiceTyped, Serving
<1>3. \A k \in Decisions!Conns : conn'[k] = IF k \in Decisions!Held(s) THEN sends(k) ELSE conn[k]
  BY DEF Decisions!WorkerReady, Decisions!Told
<1>4. conn' = [k \in Decisions!Conns |-> conn'[k]]
  BY DEF Decisions!WorkerReady, Decisions!Told
<1>5. ASSUME NEW k \in Decisions!Conns
      PROVE  sends(k) \in Link /\ sends(k).by = conn[k].by /\ sends(k).to = conn[k].to /\ sends(k).held = conn[k].held
  <2> DEFINE d == Append(conn[k].down, m)
  <2>1. m \in Said /\ conn[k] \in Link
    BY DEF Said, DecisionInv, ServiceTyped
  <2>2. d \in Seq(Said)
    BY <2>1 DEF Link
  <2>3. sends(k) = [conn[k] EXCEPT !.down = d]
    OBVIOUS
  <2> HIDE DEF d
  <2>4. QED
    BY <2>1, <2>2, <2>3 DEF Link
<1> HIDE DEF sends, v
<1>6. /\ conn' \in [Decisions!Conns -> Link]
      /\ \A k \in Decisions!Conns : conn'[k].by = conn[k].by /\ conn'[k].to = conn[k].to /\ conn'[k].held = conn[k].held
  BY <1>3, <1>4, <1>5 DEF DecisionInv, ServiceTyped
<1>7. HeldIsMade' /\ \A z \in Processes : Decisions!Held(z)' = Decisions!Held(z)
  BY <1>6, HeldAlike
<1>8. /\ Decisions!Dispatch(v, s) \in Serving
      /\ Decisions!Dispatch(v, s).at = v.at /\ v.timers \subseteq Decisions!Dispatch(v, s).timers
      /\ (Decisions!Dispatch(v, s).ready /\ Decisions!Dispatch(v, s).active = None)
           => "idle" \in Decisions!Dispatch(v, s).timers
  BY <1>2, DispatchWatches
<1>9. v.timers = service[s].timers
  BY DEF v, DecisionInv, ServiceTyped, Serving
<1>10. Watched(Decisions!Dispatch(v, s), Decisions!Held(s)')
  BY <1>1, <1>7, <1>8, <1>9 DEF Watched, DecisionInv, Decisions!UnusedServiceEnds
<1>11. ClientTyped'
  BY <1>1 DEF DecisionInv, ClientTyped
<1>12. QED
  BY <1>1, <1>2, <1>6, <1>7, <1>8, <1>10, <1>11, ServiceStep

LEMMA WorkerAnswersStep ==
  ASSUME DecisionsConstants, DecisionInv, NEW s \in Processes, Decisions!WorkerAnswers(s)
  PROVE  DecisionInv'
<1> DEFINE v == [service[s] EXCEPT !.active = None]
           a == service[s].active
           m == [type |-> "result", id |-> a.id]
           d == Append(conn[a.via].down, m)
<1>1. service' = [service EXCEPT ![s] = Decisions!Dispatch(v, s)] /\ UNCHANGED <<client, request>> /\ a # None
  BY DEF Decisions!WorkerAnswers
<1>2. service[s] \in Serving /\ (service[s].at # "up" => ~service[s].ready) /\ a \in Job
  BY <1>1 DEF DecisionInv, ServiceTyped, Serving, ReadyIsUp
<1>3. v \in Serving /\ v.at = service[s].at /\ v.ready = service[s].ready /\ v.timers = service[s].timers
  BY <1>2 DEF Serving
<1>4. /\ conn' \in [Decisions!Conns -> Link]
      /\ \A k \in Decisions!Conns : conn'[k].by = conn[k].by /\ conn'[k].to = conn[k].to /\ conn'[k].held = conn[k].held
  <2>1. CASE UNCHANGED conn
    BY <2>1 DEF DecisionInv, ServiceTyped
  <2>2. CASE conn' = [conn EXCEPT ![a.via].down = Append(@, m)]
    <3> DEFINE k == a.via
    <3>1. m \in Said /\ k \in Decisions!Conns /\ conn \in [Decisions!Conns -> Link]
      BY <1>2 DEF Said, Job, DecisionInv, ServiceTyped
    <3>2. conn[k].down \in Seq(Said)
      BY <3>1 DEF Link
    <3>3. d \in Seq(Said)
      BY <3>1, <3>2
    <3>4. conn' = [conn EXCEPT ![k].down = d]
      BY <2>2
    <3> HIDE DEF k, d, a
    <3>5. QED
      BY <3>1, <3>3, <3>4, DownSet
  <2>3. QED
    BY <2>1, <2>2 DEF Decisions!WorkerAnswers
<1>5. HeldIsMade' /\ \A z \in Processes : Decisions!Held(z)' = Decisions!Held(z)
  BY <1>4, HeldAlike
<1> HIDE DEF v
<1>6. /\ Decisions!Dispatch(v, s) \in Serving
      /\ Decisions!Dispatch(v, s).at = v.at /\ Decisions!Dispatch(v, s).ready = v.ready
      /\ v.timers \subseteq Decisions!Dispatch(v, s).timers
      /\ (Decisions!Dispatch(v, s).ready /\ Decisions!Dispatch(v, s).active = None)
           => "idle" \in Decisions!Dispatch(v, s).timers
  BY <1>3, DispatchWatches
<1>7. Watched(Decisions!Dispatch(v, s), Decisions!Held(s)')
  BY <1>3, <1>5, <1>6 DEF Watched, DecisionInv, Decisions!UnusedServiceEnds
<1>8. ClientTyped'
  BY <1>1 DEF DecisionInv, ClientTyped
<1>9. QED
  BY <1>1, <1>2, <1>3, <1>4, <1>5, <1>6, <1>7, <1>8, ServiceStep

LEMMA WorkerFailsStep ==
  ASSUME DecisionsConstants, DecisionInv, NEW s \in Processes, Decisions!WorkerFails(s)
  PROVE  DecisionInv'
<1>1. [type |-> "fatal", id |-> None] \in Said
  BY DEF Said
<1>2. <<[type |-> "fatal", id |-> None]>> \in Seq(Said)
  BY <1>1
<1>3. QED
  BY <1>2, StoppedStep DEF Decisions!WorkerFails

LEMMA StrayStep ==
  ASSUME DecisionsConstants, DecisionInv, NEW s \in Processes, Decisions!StrayEnds(s)
  PROVE  DecisionInv'
BY EndsStep DEF Decisions!StrayEnds

-----------------------------------------------------------------------------
(* The theorem *)

LEMMA NextDecision ==
  ASSUME DecisionsConstants, DecisionInv, [Decisions!Next]_(Decisions!vars)
  PROVE  DecisionInv'
<1>1. CASE \E c \in Threads : \E r \in Requests : Decisions!Ask(c, r)
  BY <1>1, AskStep
<1>2. CASE \E c \in Threads : Decisions!Connect(c) \/ Decisions!Launch(c) \/ Decisions!Receive(c)
  BY <1>2, ConnectStep, LaunchStep, ReceiveStep
<1>3. CASE \E c \in Threads : Decisions!GiveUp(c) \/ Decisions!StartTimeout(c) \/ Decisions!Disconnected(c)
          \/ Decisions!Close(c)
  BY <1>3, LeavingStep
<1>4. CASE \E r \in Requests : Decisions!Cancel(r)
  BY <1>4, CancelStep
<1>5. CASE \E s \in Processes :
             Decisions!Listen(s) \/ Decisions!Probe(s) \/ Decisions!Lock(s) \/ Decisions!Steal(s)
                 \/ Decisions!Verify(s) \/ Decisions!Inspect(s) \/ Decisions!Unlink(s) \/ Decisions!ListenAgain(s)
  BY <1>5, EndpointStep
<1>6. CASE \E s \in Processes : \E k \in Decisions!Conns : Decisions!Serve(s, k) \/ Decisions!Closes(s, k)
  BY <1>6, ServeStep, ClosesStep
<1>7. CASE \E s \in Processes :
             Decisions!Arm(s) \/ Decisions!TimerFires(s) \/ Decisions!WorkerReady(s) \/ Decisions!WorkerAnswers(s)
                 \/ Decisions!WorkerFails(s) \/ Decisions!StrayEnds(s) \/ Decisions!Crash(s)
  BY <1>7, ArmStep, TimerStep, WorkerReadyStep, WorkerAnswersStep, WorkerFailsStep, StrayStep, CrashStep
<1>8. CASE UNCHANGED Decisions!vars
  <2>1. UNCHANGED <<client, request, service, conn>>
    BY <1>8 DEF Decisions!vars
  <2>2. ClientTyped'
    BY <2>1 DEF DecisionInv, ClientTyped
  <2>3. QED
    BY <2>1, <2>2, ClientStep DEF DecisionInv, ServiceTyped
<1>9. QED
  BY <1>1, <1>2, <1>3, <1>4, <1>5, <1>6, <1>7, <1>8 DEF Decisions!Next

-----------------------------------------------------------------------------
(* Commands *)

CommandRecords ==
  [stage : Terminal!Stages, home : Processes, kind : Terminal!Kinds, handle : {"foreground", "pending", "open", "seen"},
   attached : BOOLEAN, aborted : BOOLEAN, worker : {"none", "booting", "executing", "exiting", "gone"},
   running : BOOLEAN, ran : BOOLEAN, events : SUBSET Terminal!Controls, finished : {"no", "spawn_failed", "other"},
   phase : {"none", "initialization", "command", "cleanup"}, stop : {"no", "waiting", "asked", "forced"},
   term : {"none", "confirmed", "unconfirmed"}, error : BOOLEAN, confirmed : BOOLEAN, protocol : BOOLEAN,
   report : {"none", "not_started", "exited", "unknown"}]

\* A command before its launch, and from its launch to its outcome.
Early(r) == r.stage \in {"none", "deciding", "preparing", "prepared"}
Launched(r) == r.stage \in {"supervised", "cleaned", "recorded"}
Ended == {"exited", "timed_out", "canceled"}

\* What the journal and the process know of the target is so.
TruthInv(r) ==
  /\ Early(r) => /\ r.worker = "none" /\ ~r.ran /\ r.events = {} /\ r.term = "none" /\ ~r.protocol
                 /\ r.finished = "no" /\ r.report = "none"
  /\ r.running => r.ran
  /\ r.events \cap Ended # {} => ~r.running /\ r.ran /\ r.worker \in {"exiting", "gone"}
  /\ "spawn_error" \in r.events => ~r.ran /\ r.worker \in {"exiting", "gone"}
  /\ Launched(r) /\ r.kind # "host" /\ (r.ran \/ r.worker = "executing") => "sent" \in r.events \/ r.protocol
  /\ Launched(r) /\ r.kind = "host" =>
       r.ran /\ r.worker \in {"executing", "gone"} /\ (r.worker = "gone" /\ r.term = "none" => ~r.running)
  /\ r.term = "confirmed" => ~r.running /\ r.worker = "gone"
  /\ r.stage \in {"recorded", "closed"} =>
       (r.report = "not_started" => ~r.ran) /\ (r.report = "exited" => r.ran /\ ~r.running)
  /\ r.stage = "recorded" => r.report # "none"

\* A result is only shown when there is one, of a command whose worker is gone.
HandleInv(r) ==
  /\ r.handle = "seen" => r.stage \in {"closed", "lost"}
  /\ r.stage \in {"cleaned", "recorded"} => r.worker = "gone"
  /\ r.stage = "closed" => r.worker \in {"none", "gone"}

\* What may run has a lease that no evidence removes, and blocks its process once that has given it up.
Loose(r) == r.running \/ (r.stage = "lost" /\ r.worker \in {"booting", "executing"} /\ ~r.ran)
LeaseInv(r, held, blocked) ==
  /\ r.stage \in {"preparing", "prepared", "supervised", "cleaned"} => held /\ r.finished = "no"
  /\ Loose(r) => held /\ ~Terminal!NotStarted(r.events, r.finished)
  /\ r.kind # "host" /\ r.stage \in {"deciding", "preparing", "prepared", "supervised"} => ~r.confirmed
  /\ r.running /\ r.stage \in {"cleaned", "recorded"} => r.error \/ ~r.confirmed
  /\ r.running /\ r.stage \in {"cleaned", "recorded", "closed"} => blocked

RecordInv(r, held, blocked) == r \in CommandRecords /\ TruthInv(r) /\ HandleInv(r) /\ LeaseInv(r, held, blocked)

CommandsInv ==
  /\ DOMAIN cmd = Threads /\ cmd = [c \in Threads |-> cmd[c]]
  /\ reason \in [Processes -> BOOLEAN] /\ leases \subseteq Threads
  /\ \A c \in Threads : RecordInv(cmd[c], c \in leases, reason[cmd[c].home])

\* One command changes, and with it its lease and perhaps a quarantine.
LEMMA OneChanges ==
  ASSUME CommandsInv, NEW c \in Threads, NEW r, cmd' = [cmd EXCEPT ![c] = r],
         leases' \subseteq Threads, leases' \ {c} = leases \ {c}, reason' \in [Processes -> BOOLEAN],
         \A p \in Processes : reason[p] => reason'[p],
         RecordInv(r, c \in leases', reason'[r.home])
  PROVE  CommandsInv'
<1>1. cmd' = [d \in Threads |-> cmd'[d]] /\ cmd'[c] = r /\ \A d \in Threads \ {c} : cmd'[d] = cmd[d]
  BY DEF CommandsInv
<1>2. ASSUME NEW d \in Threads \ {c}
      PROVE  RecordInv(cmd[d], d \in leases', reason'[cmd[d].home])
  <2>1. d \in leases' <=> d \in leases
    OBVIOUS
  <2>2. RecordInv(cmd[d], d \in leases, reason[cmd[d].home]) /\ cmd[d].home \in Processes
    BY DEF CommandsInv, RecordInv, CommandRecords
  <2>3. QED
    BY <2>1, <2>2 DEF RecordInv, LeaseInv
<1>3. QED
  BY <1>1, <1>2 DEF CommandsInv

\* The same when nothing but the command changes.
LEMMA OnlyOne ==
  ASSUME CommandsInv, NEW c \in Threads, NEW r, cmd' = [cmd EXCEPT ![c] = r], UNCHANGED <<leases, reason>>,
         \A held, blocked \in BOOLEAN :
           RecordInv(cmd[c], held, blocked) => RecordInv(r, held, blocked) /\ r.home = cmd[c].home
  PROVE  CommandsInv'
<1>1. RecordInv(cmd[c], c \in leases, reason[cmd[c].home]) /\ reason[cmd[c].home] \in BOOLEAN
  BY DEF CommandsInv, RecordInv, CommandRecords
<1>2. (c \in leases) \in BOOLEAN
  OBVIOUS
<1>3. RecordInv(r, c \in leases', reason'[r.home])
  BY <1>1, <1>2
<1>4. QED
  BY <1>3, OneChanges DEF CommandsInv

LEMMA Telling ==
  ASSUME NEW r \in CommandRecords, NEW news \in SUBSET Terminal!Controls, NEW s, s = Terminal!Told(r, news)
  PROVE  s \in CommandRecords /\ s.home = r.home
<1>1. r.events \cup news \in SUBSET Terminal!Controls
  BY DEF CommandRecords
<1>2. QED
  BY <1>1 DEF Terminal!Told, CommandRecords

LEMMA PrepareStep ==
  ASSUME CommandsInv, NEW c \in Threads, Terminal!Prepare(c)
  PROVE  CommandsInv'
<1>1. PICK r : /\ cmd' = [cmd EXCEPT ![c] = r]
               /\ r = [cmd[c] EXCEPT !.stage = "prepared"]
  BY DEF Terminal!Prepare, Terminal!Proceed, Terminal!Native
<1>2. Terminal!At(c, "preparing")
  BY DEF Terminal!Prepare, Terminal!Proceed
<1>3. \A held, blocked \in BOOLEAN :
        RecordInv(cmd[c], held, blocked) => RecordInv(r, held, blocked) /\ r.home = cmd[c].home
  <2> SUFFICES ASSUME NEW held \in BOOLEAN, NEW blocked \in BOOLEAN, RecordInv(cmd[c], held, blocked)
               PROVE  RecordInv(r, held, blocked) /\ r.home = cmd[c].home
    OBVIOUS
  <2>1. r \in CommandRecords /\ r.home = cmd[c].home
    BY <1>1, <1>2 DEF RecordInv, CommandRecords, Terminal!At, Terminal!Stages, Terminal!Controls, Terminal!Outcomes
  <2>2. TruthInv(r) /\ HandleInv(r)
    BY <1>1, <1>2 DEF RecordInv, CommandRecords, TruthInv, HandleInv, Early, Launched, Ended, Terminal!At
  <2>3. LeaseInv(r, held, blocked)
    BY <1>1, <1>2 DEF RecordInv, CommandRecords, TruthInv, LeaseInv, Early, Launched, Loose, Terminal!NotStarted,
      Terminal!At
  <2>4. QED
    BY <2>1, <2>2, <2>3 DEF RecordInv
<1>4. UNCHANGED <<leases, reason>>
  BY DEF Terminal!Prepare, Terminal!disk, Terminal!Proceed
<1>5. QED
  BY <1>1, <1>3, <1>4, OnlyOne

LEMMA SendStep ==
  ASSUME CommandsInv, NEW c \in Threads, Terminal!Send(c)
  PROVE  CommandsInv'
<1>1. PICK r : /\ cmd' = [cmd EXCEPT ![c] = r]
               /\ r = Terminal!Announced(Terminal!Told([cmd[c] EXCEPT !.worker = "executing"], {"sent"}))
  BY DEF Terminal!Send, Terminal!Worker, Terminal!Native
<1>2. Terminal!Working(c, "booting")
  BY DEF Terminal!Send, Terminal!Worker
<1>3. \A held, blocked \in BOOLEAN :
        RecordInv(cmd[c], held, blocked) => RecordInv(r, held, blocked) /\ r.home = cmd[c].home
  <2> SUFFICES ASSUME NEW held \in BOOLEAN, NEW blocked \in BOOLEAN, RecordInv(cmd[c], held, blocked)
               PROVE  RecordInv(r, held, blocked) /\ r.home = cmd[c].home
    OBVIOUS
  <2>1. r \in CommandRecords /\ r.home = cmd[c].home
    BY <1>1, <1>2 DEF RecordInv, CommandRecords, Terminal!At, Terminal!Stages, Terminal!Controls, Terminal!Outcomes,
      Terminal!Working, Terminal!Supervised, Terminal!Announced, Terminal!Told
  <2>2. TruthInv(r) /\ HandleInv(r)
    BY <1>1, <1>2 DEF RecordInv, CommandRecords, TruthInv, HandleInv, Early, Launched, Ended, Terminal!At,
      Terminal!Working, Terminal!Supervised, Terminal!Announced, Terminal!Told
  <2>3. LeaseInv(r, held, blocked)
    BY <1>1, <1>2 DEF RecordInv, CommandRecords, TruthInv, LeaseInv, Early, Launched, Loose, Terminal!NotStarted,
      Terminal!At, Terminal!Working, Terminal!Supervised, Terminal!Announced, Terminal!Told
  <2>4. QED
    BY <2>1, <2>2, <2>3 DEF RecordInv
<1>4. UNCHANGED <<leases, reason>>
  BY DEF Terminal!Send, Terminal!disk, Terminal!Worker
<1>5. QED
  BY <1>1, <1>3, <1>4, OnlyOne

LEMMA InitializationFailsStep ==
  ASSUME CommandsInv, NEW c \in Threads, Terminal!InitializationFails(c)
  PROVE  CommandsInv'
<1>1. PICK r : /\ cmd' = [cmd EXCEPT ![c] = r]
               /\ r = [cmd[c] EXCEPT !.worker = "gone"]
  BY DEF Terminal!InitializationFails, Terminal!Worker, Terminal!Native
<1>2. Terminal!Working(c, "booting")
  BY DEF Terminal!InitializationFails, Terminal!Worker
<1>3. \A held, blocked \in BOOLEAN :
        RecordInv(cmd[c], held, blocked) => RecordInv(r, held, blocked) /\ r.home = cmd[c].home
  <2> SUFFICES ASSUME NEW held \in BOOLEAN, NEW blocked \in BOOLEAN, RecordInv(cmd[c], held, blocked)
               PROVE  RecordInv(r, held, blocked) /\ r.home = cmd[c].home
    OBVIOUS
  <2>1. r \in CommandRecords /\ r.home = cmd[c].home
    BY <1>1, <1>2 DEF RecordInv, CommandRecords, Terminal!At, Terminal!Stages, Terminal!Controls, Terminal!Outcomes,
      Terminal!Working, Terminal!Supervised
  <2>2. TruthInv(r) /\ HandleInv(r)
    BY <1>1, <1>2 DEF RecordInv, CommandRecords, TruthInv, HandleInv, Early, Launched, Ended, Terminal!At,
      Terminal!Working, Terminal!Supervised
  <2>3. LeaseInv(r, held, blocked)
    BY <1>1, <1>2 DEF RecordInv, CommandRecords, TruthInv, LeaseInv, Early, Launched, Loose, Terminal!NotStarted,
      Terminal!At, Terminal!Working, Terminal!Supervised
  <2>4. QED
    BY <2>1, <2>2, <2>3 DEF RecordInv
<1>4. UNCHANGED <<leases, reason>>
  BY DEF Terminal!InitializationFails, Terminal!disk, Terminal!Worker
<1>5. QED
  BY <1>1, <1>3, <1>4, OnlyOne

LEMMA StartTargetStep ==
  ASSUME CommandsInv, NEW c \in Threads, Terminal!StartTarget(c)
  PROVE  CommandsInv'
<1>1. PICK r : /\ cmd' = [cmd EXCEPT ![c] = r]
               /\ \E news \in {{}, {"started"}} : r
                    = Terminal!Told([cmd[c] EXCEPT !.running = TRUE, !.ran = TRUE], news)
  BY DEF Terminal!StartTarget, Terminal!Worker, Terminal!Native
<1>2. Terminal!Native(c) /\ Terminal!Working(c, "executing") /\ ~cmd[c].ran
  BY DEF Terminal!StartTarget, Terminal!Worker
<1>3. \A held, blocked \in BOOLEAN :
        RecordInv(cmd[c], held, blocked) => RecordInv(r, held, blocked) /\ r.home = cmd[c].home
  <2> SUFFICES ASSUME NEW held \in BOOLEAN, NEW blocked \in BOOLEAN, RecordInv(cmd[c], held, blocked)
               PROVE  RecordInv(r, held, blocked) /\ r.home = cmd[c].home
    OBVIOUS
  <2> DEFINE x == [cmd[c] EXCEPT !.running = TRUE, !.ran = TRUE]
  <2>1. x \in CommandRecords /\ x.home = cmd[c].home
    BY DEF RecordInv, CommandRecords
  <2>2. {} \in SUBSET Terminal!Controls /\ {"started"} \in SUBSET Terminal!Controls
    BY DEF Terminal!Controls, Terminal!Outcomes
  <2>3. PICK news \in SUBSET Terminal!Controls : r = Terminal!Told(x, news)
    BY <1>1, <2>2
  <2> HIDE DEF x
  <2>4. r \in CommandRecords /\ r.home = cmd[c].home
    BY <2>1, <2>3, Telling
  <2>5. TruthInv(r) /\ HandleInv(r)
    BY <1>1, <1>2 DEF RecordInv, CommandRecords, TruthInv, HandleInv, Early, Launched, Ended, Terminal!At,
      Terminal!Working, Terminal!Supervised, Terminal!Told, Terminal!Native
  <2>6. LeaseInv(r, held, blocked)
    BY <1>1, <1>2 DEF RecordInv, CommandRecords, TruthInv, LeaseInv, Early, Launched, Loose, Terminal!NotStarted,
      Terminal!At, Terminal!Working, Terminal!Supervised, Terminal!Told, Terminal!Native
  <2>7. QED
    BY <2>4, <2>5, <2>6 DEF RecordInv
<1>4. UNCHANGED <<leases, reason>>
  BY DEF Terminal!StartTarget, Terminal!disk, Terminal!Worker
<1>5. QED
  BY <1>1, <1>3, <1>4, OnlyOne

LEMMA RefuseTargetStep ==
  ASSUME CommandsInv, NEW c \in Threads, Terminal!RefuseTarget(c)
  PROVE  CommandsInv'
<1>1. PICK r : /\ cmd' = [cmd EXCEPT ![c] = r]
               /\ r = Terminal!Told([cmd[c] EXCEPT !.worker = "exiting"], {"spawn_error", "spawn_failed"})
  BY DEF Terminal!RefuseTarget, Terminal!Worker, Terminal!Native
<1>2. cmd[c].kind = "service" /\ Terminal!Working(c, "executing") /\ ~cmd[c].ran
  BY DEF Terminal!RefuseTarget, Terminal!Worker
<1>3. \A held, blocked \in BOOLEAN :
        RecordInv(cmd[c], held, blocked) => RecordInv(r, held, blocked) /\ r.home = cmd[c].home
  <2> SUFFICES ASSUME NEW held \in BOOLEAN, NEW blocked \in BOOLEAN, RecordInv(cmd[c], held, blocked)
               PROVE  RecordInv(r, held, blocked) /\ r.home = cmd[c].home
    OBVIOUS
  <2> DEFINE x == [cmd[c] EXCEPT !.worker = "exiting"]
  <2>1. x \in CommandRecords /\ x.home = cmd[c].home
    BY DEF RecordInv, CommandRecords
  <2>2. {"spawn_error", "spawn_failed"} \in SUBSET Terminal!Controls
    BY DEF Terminal!Controls, Terminal!Outcomes
  <2>3. PICK news \in SUBSET Terminal!Controls : r = Terminal!Told(x, news)
    BY <1>1, <2>2
  <2> HIDE DEF x
  <2>4. r \in CommandRecords /\ r.home = cmd[c].home
    BY <2>1, <2>3, Telling
  <2>5. TruthInv(r) /\ HandleInv(r)
    BY <1>1, <1>2 DEF RecordInv, CommandRecords, TruthInv, HandleInv, Early, Launched, Ended, Terminal!At,
      Terminal!Working, Terminal!Supervised, Terminal!Told
  <2>6. LeaseInv(r, held, blocked)
    BY <1>1, <1>2 DEF RecordInv, CommandRecords, TruthInv, LeaseInv, Early, Launched, Loose, Terminal!NotStarted,
      Terminal!At, Terminal!Working, Terminal!Supervised, Terminal!Told
  <2>7. QED
    BY <2>4, <2>5, <2>6 DEF RecordInv
<1>4. UNCHANGED <<leases, reason>>
  BY DEF Terminal!RefuseTarget, Terminal!disk, Terminal!Worker
<1>5. QED
  BY <1>1, <1>3, <1>4, OnlyOne

LEMMA EndTargetStep ==
  ASSUME CommandsInv, NEW c \in Threads, Terminal!EndTarget(c)
  PROVE  CommandsInv'
<1>1. PICK r : /\ cmd' = [cmd EXCEPT ![c] = r]
               /\ \E outcome \in {"exited", "timed_out", "canceled"} :
                    r = Terminal!Told([cmd[c] EXCEPT !.worker = "exiting", !.running = FALSE], {"started", outcome})
  BY DEF Terminal!EndTarget, Terminal!Worker, Terminal!Native
<1>2. Terminal!Native(c) /\ Terminal!Working(c, "executing") /\ cmd[c].running
  BY DEF Terminal!EndTarget, Terminal!Worker
<1>3. \A held, blocked \in BOOLEAN :
        RecordInv(cmd[c], held, blocked) => RecordInv(r, held, blocked) /\ r.home = cmd[c].home
  <2> SUFFICES ASSUME NEW held \in BOOLEAN, NEW blocked \in BOOLEAN, RecordInv(cmd[c], held, blocked)
               PROVE  RecordInv(r, held, blocked) /\ r.home = cmd[c].home
    OBVIOUS
  <2> DEFINE x == [cmd[c] EXCEPT !.worker = "exiting", !.running = FALSE]
  <2>1. x \in CommandRecords /\ x.home = cmd[c].home
    BY DEF RecordInv, CommandRecords
  <2>2. \A outcome \in {"exited", "timed_out", "canceled"} : {"started", outcome} \in SUBSET Terminal!Controls
    BY DEF Terminal!Controls, Terminal!Outcomes
  <2>3. PICK news \in SUBSET Terminal!Controls : r = Terminal!Told(x, news)
    BY <1>1, <2>2
  <2> HIDE DEF x
  <2>4. r \in CommandRecords /\ r.home = cmd[c].home
    BY <2>1, <2>3, Telling
  <2>5. TruthInv(r) /\ HandleInv(r)
    BY <1>1, <1>2 DEF RecordInv, CommandRecords, TruthInv, HandleInv, Early, Launched, Ended, Terminal!At,
      Terminal!Working, Terminal!Supervised, Terminal!Told, Terminal!Native
  <2>6. LeaseInv(r, held, blocked)
    BY <1>1, <1>2 DEF RecordInv, CommandRecords, TruthInv, LeaseInv, Early, Launched, Loose, Terminal!NotStarted,
      Terminal!At, Terminal!Working, Terminal!Supervised, Terminal!Told, Terminal!Native
  <2>7. QED
    BY <2>4, <2>5, <2>6 DEF RecordInv
<1>4. UNCHANGED <<leases, reason>>
  BY DEF Terminal!EndTarget, Terminal!disk, Terminal!Worker
<1>5. QED
  BY <1>1, <1>3, <1>4, OnlyOne

LEMMA LoseTargetStep ==
  ASSUME CommandsInv, NEW c \in Threads, Terminal!LoseTarget(c)
  PROVE  CommandsInv'
<1>1. PICK r : /\ cmd' = [cmd EXCEPT ![c] = r]
               /\ r = Terminal!Told([cmd[c] EXCEPT !.worker = "exiting", !.error = TRUE], {"unknown"})
  BY DEF Terminal!LoseTarget, Terminal!Native
<1>2. Terminal!Native(c) /\ Terminal!Working(c, "executing")
  BY DEF Terminal!LoseTarget
<1>3. \A held, blocked \in BOOLEAN :
        RecordInv(cmd[c], held, blocked) => RecordInv(r, held, blocked) /\ r.home = cmd[c].home
  <2> SUFFICES ASSUME NEW held \in BOOLEAN, NEW blocked \in BOOLEAN, RecordInv(cmd[c], held, blocked)
               PROVE  RecordInv(r, held, blocked) /\ r.home = cmd[c].home
    OBVIOUS
  <2> DEFINE x == [cmd[c] EXCEPT !.worker = "exiting", !.error = TRUE]
  <2>1. x \in CommandRecords /\ x.home = cmd[c].home
    BY DEF RecordInv, CommandRecords
  <2>2. {"unknown"} \in SUBSET Terminal!Controls
    BY DEF Terminal!Controls, Terminal!Outcomes
  <2>3. PICK news \in SUBSET Terminal!Controls : r = Terminal!Told(x, news)
    BY <1>1, <2>2
  <2> HIDE DEF x
  <2>4. r \in CommandRecords /\ r.home = cmd[c].home
    BY <2>1, <2>3, Telling
  <2>5. TruthInv(r) /\ HandleInv(r)
    BY <1>1, <1>2 DEF RecordInv, CommandRecords, TruthInv, HandleInv, Early, Launched, Ended, Terminal!At,
      Terminal!Working, Terminal!Supervised, Terminal!Told, Terminal!Native
  <2>6. LeaseInv(r, held, blocked)
    BY <1>1, <1>2 DEF RecordInv, CommandRecords, TruthInv, LeaseInv, Early, Launched, Loose, Terminal!NotStarted,
      Terminal!At, Terminal!Working, Terminal!Supervised, Terminal!Told, Terminal!Native
  <2>7. QED
    BY <2>4, <2>5, <2>6 DEF RecordInv
<1>4. UNCHANGED <<leases, reason>>
  BY DEF Terminal!LoseTarget, Terminal!disk
<1>5. QED
  BY <1>1, <1>3, <1>4, OnlyOne

LEMMA ExitWorkerStep ==
  ASSUME CommandsInv, NEW c \in Threads, Terminal!ExitWorker(c)
  PROVE  CommandsInv'
<1>1. PICK r : /\ cmd' = [cmd EXCEPT ![c] = r]
               /\ r = [cmd[c] EXCEPT !.worker = "gone", !.running = @ /\ Terminal!Native(c)]
  BY DEF Terminal!ExitWorker, Terminal!Worker, Terminal!Native
<1>2. IF Terminal!Native(c) THEN Terminal!Working(c, "exiting") ELSE Terminal!Working(c, "executing")
  BY DEF Terminal!ExitWorker, Terminal!Worker
<1>3. \A held, blocked \in BOOLEAN :
        RecordInv(cmd[c], held, blocked) => RecordInv(r, held, blocked) /\ r.home = cmd[c].home
  <2> SUFFICES ASSUME NEW held \in BOOLEAN, NEW blocked \in BOOLEAN, RecordInv(cmd[c], held, blocked)
               PROVE  RecordInv(r, held, blocked) /\ r.home = cmd[c].home
    OBVIOUS
  <2>0. PICK running \in BOOLEAN : r = [cmd[c] EXCEPT !.worker = "gone", !.running = running]
    BY <1>1 DEF RecordInv, CommandRecords
  <2>1. r \in CommandRecords /\ r.home = cmd[c].home
    BY <2>0 DEF RecordInv, CommandRecords
  <2>2. TruthInv(r) /\ HandleInv(r)
    BY <1>1, <1>2 DEF RecordInv, CommandRecords, TruthInv, HandleInv, Early, Launched, Ended, Terminal!At,
      Terminal!Working, Terminal!Supervised, Terminal!Native
  <2>3. LeaseInv(r, held, blocked)
    BY <1>1, <1>2 DEF RecordInv, CommandRecords, TruthInv, LeaseInv, Early, Launched, Loose, Terminal!NotStarted,
      Terminal!At, Terminal!Working, Terminal!Supervised, Terminal!Native
  <2>4. QED
    BY <2>1, <2>2, <2>3 DEF RecordInv
<1>4. UNCHANGED <<leases, reason>>
  BY DEF Terminal!ExitWorker, Terminal!disk, Terminal!Worker
<1>5. QED
  BY <1>1, <1>3, <1>4, OnlyOne

LEMMA TerminateJobStep ==
  ASSUME CommandsInv, NEW c \in Threads, Terminal!TerminateJob(c)
  PROVE  CommandsInv'
<1>1. PICK r : /\ cmd' = [cmd EXCEPT ![c] = r]
               /\ r = [cmd[c] EXCEPT !.worker = "gone"]
  BY DEF Terminal!TerminateJob, Terminal!Worker, Terminal!Native
<1>2. cmd[c].kind = "job" /\ Terminal!Supervised(c)
  BY DEF Terminal!TerminateJob, Terminal!Worker
<1>3. \A held, blocked \in BOOLEAN :
        RecordInv(cmd[c], held, blocked) => RecordInv(r, held, blocked) /\ r.home = cmd[c].home
  <2> SUFFICES ASSUME NEW held \in BOOLEAN, NEW blocked \in BOOLEAN, RecordInv(cmd[c], held, blocked)
               PROVE  RecordInv(r, held, blocked) /\ r.home = cmd[c].home
    OBVIOUS
  <2>1. r \in CommandRecords /\ r.home = cmd[c].home
    BY <1>1, <1>2 DEF RecordInv, CommandRecords, Terminal!At, Terminal!Stages, Terminal!Controls, Terminal!Outcomes,
      Terminal!Supervised
  <2>2. TruthInv(r) /\ HandleInv(r)
    BY <1>1, <1>2 DEF RecordInv, CommandRecords, TruthInv, HandleInv, Early, Launched, Ended, Terminal!At,
      Terminal!Supervised
  <2>3. LeaseInv(r, held, blocked)
    BY <1>1, <1>2 DEF RecordInv, CommandRecords, TruthInv, LeaseInv, Early, Launched, Loose, Terminal!NotStarted,
      Terminal!At, Terminal!Supervised
  <2>4. QED
    BY <2>1, <2>2, <2>3 DEF RecordInv
<1>4. UNCHANGED <<leases, reason>>
  BY DEF Terminal!TerminateJob, Terminal!disk, Terminal!Worker
<1>5. QED
  BY <1>1, <1>3, <1>4, OnlyOne

LEMMA WorkerDiesStep ==
  ASSUME CommandsInv, NEW c \in Threads, Terminal!WorkerDies(c)
  PROVE  CommandsInv'
<1>1. PICK r : /\ cmd' = [cmd EXCEPT ![c] = r]
               /\ r = [cmd[c] EXCEPT !.worker = "gone"]
  BY DEF Terminal!WorkerDies, Terminal!Native
<1>2. Terminal!Native(c) /\ Terminal!Supervised(c)
  BY DEF Terminal!WorkerDies
<1>3. \A held, blocked \in BOOLEAN :
        RecordInv(cmd[c], held, blocked) => RecordInv(r, held, blocked) /\ r.home = cmd[c].home
  <2> SUFFICES ASSUME NEW held \in BOOLEAN, NEW blocked \in BOOLEAN, RecordInv(cmd[c], held, blocked)
               PROVE  RecordInv(r, held, blocked) /\ r.home = cmd[c].home
    OBVIOUS
  <2>1. r \in CommandRecords /\ r.home = cmd[c].home
    BY <1>1, <1>2 DEF RecordInv, CommandRecords, Terminal!At, Terminal!Stages, Terminal!Controls, Terminal!Outcomes,
      Terminal!Supervised, Terminal!Native
  <2>2. TruthInv(r) /\ HandleInv(r)
    BY <1>1, <1>2 DEF RecordInv, CommandRecords, TruthInv, HandleInv, Early, Launched, Ended, Terminal!At,
      Terminal!Supervised, Terminal!Native
  <2>3. LeaseInv(r, held, blocked)
    BY <1>1, <1>2 DEF RecordInv, CommandRecords, TruthInv, LeaseInv, Early, Launched, Loose, Terminal!NotStarted,
      Terminal!At, Terminal!Supervised, Terminal!Native
  <2>4. QED
    BY <2>1, <2>2, <2>3 DEF RecordInv
<1>4. UNCHANGED <<leases, reason>>
  BY DEF Terminal!WorkerDies, Terminal!disk
<1>5. QED
  BY <1>1, <1>3, <1>4, OnlyOne

LEMMA StartOrphanStep ==
  ASSUME CommandsInv, NEW c \in Threads, Terminal!StartOrphan(c)
  PROVE  CommandsInv'
<1>1. PICK r : /\ cmd' = [cmd EXCEPT ![c] = r]
               /\ r = [cmd[c] EXCEPT !.running = TRUE, !.ran = TRUE]
  BY DEF Terminal!StartOrphan, Terminal!Worker, Terminal!Native
<1>2. Terminal!At(c, "lost") /\ cmd[c].worker \in {"booting", "executing"} /\ ~cmd[c].ran
  BY DEF Terminal!StartOrphan, Terminal!Worker
<1>3. \A held, blocked \in BOOLEAN :
        RecordInv(cmd[c], held, blocked) => RecordInv(r, held, blocked) /\ r.home = cmd[c].home
  <2> SUFFICES ASSUME NEW held \in BOOLEAN, NEW blocked \in BOOLEAN, RecordInv(cmd[c], held, blocked)
               PROVE  RecordInv(r, held, blocked) /\ r.home = cmd[c].home
    OBVIOUS
  <2>1. r \in CommandRecords /\ r.home = cmd[c].home
    BY <1>1, <1>2 DEF RecordInv, CommandRecords, Terminal!At, Terminal!Stages, Terminal!Controls, Terminal!Outcomes
  <2>2. TruthInv(r) /\ HandleInv(r)
    BY <1>1, <1>2 DEF RecordInv, CommandRecords, TruthInv, HandleInv, Early, Launched, Ended, Terminal!At
  <2>3. LeaseInv(r, held, blocked)
    BY <1>1, <1>2 DEF RecordInv, CommandRecords, TruthInv, LeaseInv, Early, Launched, Loose, Terminal!NotStarted,
      Terminal!At
  <2>4. QED
    BY <2>1, <2>2, <2>3 DEF RecordInv
<1>4. UNCHANGED <<leases, reason>>
  BY DEF Terminal!StartOrphan, Terminal!disk, Terminal!Worker
<1>5. QED
  BY <1>1, <1>3, <1>4, OnlyOne

LEMMA EndOrphanStep ==
  ASSUME CommandsInv, NEW c \in Threads, Terminal!EndOrphan(c)
  PROVE  CommandsInv'
<1>1. PICK r : /\ cmd' = [cmd EXCEPT ![c] = r]
               /\ r = [cmd[c] EXCEPT !.running = FALSE]
  BY DEF Terminal!EndOrphan, Terminal!Worker, Terminal!Native
<1>2. cmd[c].running /\ (Terminal!At(c, "lost") \/ cmd[c].worker = "gone")
  BY DEF Terminal!EndOrphan, Terminal!Worker
<1>3. \A held, blocked \in BOOLEAN :
        RecordInv(cmd[c], held, blocked) => RecordInv(r, held, blocked) /\ r.home = cmd[c].home
  <2> SUFFICES ASSUME NEW held \in BOOLEAN, NEW blocked \in BOOLEAN, RecordInv(cmd[c], held, blocked)
               PROVE  RecordInv(r, held, blocked) /\ r.home = cmd[c].home
    OBVIOUS
  <2>1. r \in CommandRecords /\ r.home = cmd[c].home
    BY <1>1, <1>2 DEF RecordInv, CommandRecords, Terminal!At, Terminal!Stages, Terminal!Controls, Terminal!Outcomes
  <2>2. TruthInv(r) /\ HandleInv(r)
    BY <1>1, <1>2 DEF RecordInv, CommandRecords, TruthInv, HandleInv, Early, Launched, Ended, Terminal!At
  <2>3. LeaseInv(r, held, blocked)
    BY <1>1, <1>2 DEF RecordInv, CommandRecords, TruthInv, LeaseInv, Early, Launched, Loose, Terminal!NotStarted,
      Terminal!At
  <2>4. QED
    BY <2>1, <2>2, <2>3 DEF RecordInv
<1>4. UNCHANGED <<leases, reason>>
  BY DEF Terminal!EndOrphan, Terminal!disk, Terminal!Worker
<1>5. QED
  BY <1>1, <1>3, <1>4, OnlyOne

LEMMA ForceStopStep ==
  ASSUME CommandsInv, NEW c \in Threads, Terminal!ForceStop(c)
  PROVE  CommandsInv'
<1>1. PICK r : /\ cmd' = [cmd EXCEPT ![c] = r]
               /\ r = [cmd[c] EXCEPT !.stop = "forced"]
  BY DEF Terminal!ForceStop, Terminal!Worker, Terminal!Native
<1>2. Terminal!Supervised(c)
  BY DEF Terminal!ForceStop, Terminal!Worker
<1>3. \A held, blocked \in BOOLEAN :
        RecordInv(cmd[c], held, blocked) => RecordInv(r, held, blocked) /\ r.home = cmd[c].home
  <2> SUFFICES ASSUME NEW held \in BOOLEAN, NEW blocked \in BOOLEAN, RecordInv(cmd[c], held, blocked)
               PROVE  RecordInv(r, held, blocked) /\ r.home = cmd[c].home
    OBVIOUS
  <2>1. r \in CommandRecords /\ r.home = cmd[c].home
    BY <1>1, <1>2 DEF RecordInv, CommandRecords, Terminal!At, Terminal!Stages, Terminal!Controls, Terminal!Outcomes,
      Terminal!Supervised
  <2>2. TruthInv(r) /\ HandleInv(r)
    BY <1>1, <1>2 DEF RecordInv, CommandRecords, TruthInv, HandleInv, Early, Launched, Ended, Terminal!At,
      Terminal!Supervised
  <2>3. LeaseInv(r, held, blocked)
    BY <1>1, <1>2 DEF RecordInv, CommandRecords, TruthInv, LeaseInv, Early, Launched, Loose, Terminal!NotStarted,
      Terminal!At, Terminal!Supervised
  <2>4. QED
    BY <2>1, <2>2, <2>3 DEF RecordInv
<1>4. UNCHANGED <<leases, reason>>
  BY DEF Terminal!ForceStop, Terminal!disk, Terminal!Worker
<1>5. QED
  BY <1>1, <1>3, <1>4, OnlyOne

LEMMA PollStep ==
  ASSUME CommandsInv, NEW c \in Threads, Terminal!Poll(c)
  PROVE  CommandsInv'
<1>1. PICK r : /\ cmd' = [cmd EXCEPT ![c] = r]
               /\ r = [cmd[c] EXCEPT !.handle = "seen"]
  BY DEF Terminal!Poll, Terminal!Native
<1>2. Terminal!At(c, "closed")
  BY DEF Terminal!Poll
<1>3. \A held, blocked \in BOOLEAN :
        RecordInv(cmd[c], held, blocked) => RecordInv(r, held, blocked) /\ r.home = cmd[c].home
  <2> SUFFICES ASSUME NEW held \in BOOLEAN, NEW blocked \in BOOLEAN, RecordInv(cmd[c], held, blocked)
               PROVE  RecordInv(r, held, blocked) /\ r.home = cmd[c].home
    OBVIOUS
  <2>1. r \in CommandRecords /\ r.home = cmd[c].home
    BY <1>1, <1>2 DEF RecordInv, CommandRecords, Terminal!At, Terminal!Stages, Terminal!Controls, Terminal!Outcomes
  <2>2. TruthInv(r) /\ HandleInv(r)
    BY <1>1, <1>2 DEF RecordInv, CommandRecords, TruthInv, HandleInv, Early, Launched, Ended, Terminal!At
  <2>3. LeaseInv(r, held, blocked)
    BY <1>1, <1>2 DEF RecordInv, CommandRecords, TruthInv, LeaseInv, Early, Launched, Loose, Terminal!NotStarted,
      Terminal!At
  <2>4. QED
    BY <2>1, <2>2, <2>3 DEF RecordInv
<1>4. UNCHANGED <<leases, reason>>
  BY DEF Terminal!Poll, Terminal!disk
<1>5. QED
  BY <1>1, <1>3, <1>4, OnlyOne

LEMMA AnnouncingKeeps ==
  ASSUME NEW r, NEW held \in BOOLEAN, NEW blocked \in BOOLEAN, RecordInv(r, held, blocked), NEW s, s
      = Terminal!Announced(r)
  PROVE  RecordInv(s, held, blocked) /\ s.home = r.home
<1>1. r \in CommandRecords
  BY DEF RecordInv
<1>2. PICK handle \in {"foreground", "pending", "open", "seen"} :
        s = [r EXCEPT !.handle = handle] /\ (handle = "seen" => r.handle = "seen")
  BY <1>1 DEF Terminal!Announced, CommandRecords
<1>3. s \in CommandRecords
  BY <1>1, <1>2 DEF CommandRecords
<1>4. /\ s.stage = r.stage /\ s.home = r.home /\ s.kind = r.kind /\ s.handle = handle /\ s.worker = r.worker
      /\ s.running = r.running /\ s.ran = r.ran /\ s.events = r.events /\ s.finished = r.finished
      /\ s.term = r.term /\ s.error = r.error /\ s.confirmed = r.confirmed /\ s.protocol = r.protocol
      /\ s.report = r.report
  BY <1>1, <1>2 DEF CommandRecords
<1>5. TruthInv(s) /\ HandleInv(s)
  BY <1>2, <1>4 DEF RecordInv, TruthInv, HandleInv, Early, Launched, Ended
<1>6. LeaseInv(s, held, blocked)
  BY <1>4 DEF RecordInv, LeaseInv, Loose, Terminal!NotStarted
<1>7. QED
  BY <1>3, <1>4, <1>5, <1>6 DEF RecordInv

\* However a stop is asked for, it changes nothing that is known of the target.
LEMMA StoppingKeeps ==
  ASSUME NEW r, NEW held \in BOOLEAN, NEW blocked \in BOOLEAN, RecordInv(r, held, blocked), NEW s, s = Terminal!Stop(r)
  PROVE  RecordInv(s, held, blocked) /\ s.home = r.home
<1>1. r \in CommandRecords
  BY DEF RecordInv
<1>2. PICK stop \in {"no", "waiting", "asked", "forced"} : s = [r EXCEPT !.stop = stop]
  <2>1. r.stop \in {"no", "waiting", "asked", "forced"}
    BY <1>1 DEF CommandRecords
  <2>2. QED
    BY <2>1 DEF Terminal!Stop
<1>3. s \in CommandRecords
  BY <1>1, <1>2 DEF CommandRecords
<1>4. /\ s.stage = r.stage /\ s.home = r.home /\ s.kind = r.kind /\ s.handle = r.handle /\ s.worker = r.worker
      /\ s.running = r.running /\ s.ran = r.ran /\ s.events = r.events /\ s.finished = r.finished
      /\ s.term = r.term /\ s.error = r.error /\ s.confirmed = r.confirmed /\ s.protocol = r.protocol
      /\ s.report = r.report
  BY <1>1, <1>2 DEF CommandRecords
<1>5. TruthInv(s) /\ HandleInv(s)
  BY <1>2, <1>4 DEF RecordInv, TruthInv, HandleInv, Early, Launched, Ended
<1>6. LeaseInv(s, held, blocked)
  BY <1>4 DEF RecordInv, LeaseInv, Loose, Terminal!NotStarted
<1>7. QED
  BY <1>3, <1>4, <1>5, <1>6 DEF RecordInv

LEMMA AbortingKeeps ==
  ASSUME NEW r, NEW held \in BOOLEAN, NEW blocked \in BOOLEAN, RecordInv(r, held, blocked), NEW s, s
      = Terminal!Aborted(r)
  PROVE  RecordInv(s, held, blocked) /\ s.home = r.home
<1>1. r \in CommandRecords
  BY DEF RecordInv
<1>2. PICK aborted \in BOOLEAN, stop \in {"no", "waiting", "asked", "forced"} :
        s = [r EXCEPT !.aborted = aborted, !.stop = stop]
  <2>1. r.stop \in {"no", "waiting", "asked", "forced"} /\ r.aborted \in BOOLEAN
    BY <1>1 DEF CommandRecords
  <2>2. CASE s = r
    <3>1. r = [r EXCEPT !.aborted = r.aborted, !.stop = r.stop]
      BY <1>1 DEF CommandRecords
    <3>2. QED
      BY <2>1, <2>2, <3>1
  <2>3. CASE s = [r EXCEPT !.aborted = TRUE]
    <3>1. s = [r EXCEPT !.aborted = TRUE, !.stop = r.stop]
      BY <1>1, <2>3 DEF CommandRecords
    <3>2. QED
      BY <2>1, <3>1
  <2>4. CASE s = [r EXCEPT !.aborted = TRUE, !.stop = "forced"]
    BY <2>4
  <2>5. CASE s = Terminal!Stop([r EXCEPT !.aborted = TRUE])
    <3> DEFINE q == [r EXCEPT !.aborted = TRUE]
    <3>1. q.stop = r.stop
      BY <1>1 DEF CommandRecords
    <3>2. PICK stop \in {"no", "waiting", "asked", "forced"} : s = [q EXCEPT !.stop = stop]
      BY <2>1, <2>5, <3>1 DEF Terminal!Stop
    <3>3. s = [r EXCEPT !.aborted = TRUE, !.stop = stop]
      BY <1>1, <3>2 DEF CommandRecords
    <3>4. QED
      BY <3>3
  <2>6. QED
    BY <2>2, <2>3, <2>4, <2>5 DEF Terminal!Aborted
<1>3. s \in CommandRecords
  BY <1>1, <1>2 DEF CommandRecords
<1>4. /\ s.stage = r.stage /\ s.home = r.home /\ s.kind = r.kind /\ s.handle = r.handle /\ s.worker = r.worker
      /\ s.running = r.running /\ s.ran = r.ran /\ s.events = r.events /\ s.finished = r.finished
      /\ s.term = r.term /\ s.error = r.error /\ s.confirmed = r.confirmed /\ s.protocol = r.protocol
      /\ s.report = r.report
  BY <1>1, <1>2 DEF CommandRecords
<1>5. TruthInv(s) /\ HandleInv(s)
  BY <1>2, <1>4 DEF RecordInv, TruthInv, HandleInv, Early, Launched, Ended
<1>6. LeaseInv(s, held, blocked)
  BY <1>4 DEF RecordInv, LeaseInv, Loose, Terminal!NotStarted
<1>7. QED
  BY <1>3, <1>4, <1>5, <1>6 DEF RecordInv

\* A sandboxed command is launched: its worker boots.
LEMMA LaunchedNative ==
  ASSUME NEW r, NEW held \in BOOLEAN, NEW blocked \in BOOLEAN, RecordInv(r, held, blocked), r.stage
      = "prepared", r.kind # "host",
         NEW s, s = [r EXCEPT !.stage = "supervised", !.worker = "booting"]
  PROVE  RecordInv(s, held, blocked) /\ s.home = r.home
<1>1. r \in CommandRecords
  BY DEF RecordInv
<1>2. s \in CommandRecords
  BY <1>1 DEF CommandRecords, Terminal!Stages
<1>3. /\ s.stage = "supervised" /\ s.home = r.home /\ s.kind = r.kind /\ s.handle = r.handle
      /\ s.worker = "booting" /\ s.running = r.running /\ s.ran = r.ran /\ s.events = r.events
      /\ s.finished = r.finished /\ s.term = r.term /\ s.error = r.error /\ s.confirmed = r.confirmed
      /\ s.protocol = r.protocol /\ s.report = r.report
  BY <1>1 DEF CommandRecords
<1>4. TruthInv(s) /\ HandleInv(s)
  BY <1>3 DEF RecordInv, TruthInv, HandleInv, Early, Launched, Ended
<1>5. LeaseInv(s, held, blocked)
  BY <1>3 DEF RecordInv, TruthInv, HandleInv, LeaseInv, Early, Launched, Loose, Terminal!NotStarted, Ended
<1>6. QED
  BY <1>2, <1>3, <1>4, <1>5 DEF RecordInv

\* A command on the host is launched: its target runs.
LEMMA LaunchedHost ==
  ASSUME NEW r, NEW held \in BOOLEAN, NEW blocked \in BOOLEAN, RecordInv(r, held, blocked), r.stage
      = "prepared", r.kind = "host",
         NEW s, s = [r EXCEPT !.stage = "supervised", !.worker = "executing", !.running = TRUE, !.ran = TRUE]
  PROVE  RecordInv(s, held, blocked) /\ s.home = r.home
<1>1. r \in CommandRecords
  BY DEF RecordInv
<1>2. s \in CommandRecords
  BY <1>1 DEF CommandRecords, Terminal!Stages
<1>3. /\ s.stage = "supervised" /\ s.home = r.home /\ s.kind = r.kind /\ s.handle = r.handle
      /\ s.worker = "executing" /\ s.running = TRUE /\ s.ran = TRUE /\ s.events = r.events
      /\ s.finished = r.finished /\ s.term = r.term /\ s.error = r.error /\ s.confirmed = r.confirmed
      /\ s.protocol = r.protocol /\ s.report = r.report
  BY <1>1 DEF CommandRecords
<1>4. TruthInv(s) /\ HandleInv(s)
  BY <1>3 DEF RecordInv, TruthInv, HandleInv, Early, Launched, Ended
<1>5. LeaseInv(s, held, blocked)
  BY <1>3 DEF RecordInv, TruthInv, HandleInv, LeaseInv, Early, Launched, Loose, Terminal!NotStarted, Ended
<1>6. QED
  BY <1>2, <1>3, <1>4, <1>5 DEF RecordInv

LEMMA LaunchCommandStep ==
  ASSUME CommandsInv, NEW c \in Threads, Terminal!Launch(c)
  PROVE  CommandsInv'
<1>1. cmd[c].stage = "prepared" /\ UNCHANGED <<leases, reason>>
  BY DEF Terminal!Launch, Terminal!At, Terminal!disk
<1>2. CASE Terminal!Native(c)
  <2> DEFINE r == [cmd[c] EXCEPT !.stage = "supervised", !.worker = "booting"]
  <2>1. cmd' = [cmd EXCEPT ![c] = r]
    BY <1>2 DEF Terminal!Launch
  <2>2. \A held, blocked \in BOOLEAN :
          RecordInv(cmd[c], held, blocked) => RecordInv(r, held, blocked) /\ r.home = cmd[c].home
    BY <1>1, <1>2, LaunchedNative DEF Terminal!Native
  <2> HIDE DEF r
  <2>3. QED
    BY <1>1, <2>1, <2>2, OnlyOne
<1>3. CASE ~Terminal!Native(c)
  <2> DEFINE r == [cmd[c] EXCEPT !.stage = "supervised", !.worker = "executing", !.running = TRUE, !.ran = TRUE]
  <2>1. cmd' = [cmd EXCEPT ![c] = Terminal!Announced(r)]
    BY <1>3 DEF Terminal!Launch
  <2>2. \A held, blocked \in BOOLEAN :
          RecordInv(cmd[c], held, blocked) => RecordInv(r, held, blocked) /\ r.home = cmd[c].home
    BY <1>1, <1>3, LaunchedHost DEF Terminal!Native
  <2> HIDE DEF r
  <2>3. \A held, blocked \in BOOLEAN :
          RecordInv(cmd[c], held, blocked) => RecordInv(Terminal!Announced(r), held, blocked)
              /\ Terminal!Announced(r).home = cmd[c].home
    BY <2>2, AnnouncingKeeps
  <2>4. QED
    BY <1>1, <2>1, <2>3, OnlyOne
<1>4. QED
  BY <1>2, <1>3

\* s is r with a deadline passed, which may be an error.
PastDeadline(r, s) ==
  \E phase \in {"initialization", "command", "cleanup"}, error \in {r.error, TRUE} :
    s = [r EXCEPT !.phase = phase, !.error = error]

LEMMA DeadlinePassed ==
  ASSUME NEW r, NEW held \in BOOLEAN, NEW blocked \in BOOLEAN, RecordInv(r, held, blocked),
         NEW s, PastDeadline(r, s)
  PROVE  RecordInv(s, held, blocked) /\ s.home = r.home
<1>1. r \in CommandRecords
  BY DEF RecordInv
<1> PICK phase \in {"initialization", "command", "cleanup"}, error \in {r.error, TRUE} :
           s = [r EXCEPT !.phase = phase, !.error = error]
  BY DEF PastDeadline
<1>2. s \in CommandRecords
  <2>1. phase \in {"none", "initialization", "command", "cleanup"}
    OBVIOUS
  <2>2. QED
    BY <1>1, <2>1 DEF CommandRecords, Terminal!Stages
<1>3. /\ s.stage = r.stage /\ s.home = r.home /\ s.kind = r.kind /\ s.handle = r.handle /\ s.worker = r.worker
      /\ s.running = r.running /\ s.ran = r.ran /\ s.events = r.events /\ s.finished = r.finished
      /\ s.term = r.term /\ s.error = error /\ s.confirmed = r.confirmed /\ s.protocol = r.protocol
      /\ s.report = r.report
  BY <1>1 DEF CommandRecords
<1>4. TruthInv(s) /\ HandleInv(s)
  BY <1>3 DEF RecordInv, TruthInv, HandleInv, Early, Launched, Ended
<1>5. LeaseInv(s, held, blocked)
  BY <1>3 DEF RecordInv, TruthInv, HandleInv, LeaseInv, Early, Launched, Loose, Terminal!NotStarted, Ended
<1>6. QED
  BY <1>2, <1>3, <1>4, <1>5 DEF RecordInv

LEMMA PassDeadlineStep ==
  ASSUME CommandsInv, NEW c \in Threads, Terminal!PassDeadline(c)
  PROVE  CommandsInv'
<1>1. PICK phase \in {"initialization", "command", "cleanup"} :
        Terminal!Worker(c, Terminal!Stop([cmd[c] EXCEPT !.phase = phase, !.error = cmd[c].error \/ phase = "cleanup"]))
  BY Zenon DEF Terminal!PassDeadline
<1> DEFINE r == [cmd[c] EXCEPT !.phase = phase, !.error = cmd[c].error \/ phase = "cleanup"]
<1>2. cmd' = [cmd EXCEPT ![c] = Terminal!Stop(r)] /\ UNCHANGED <<leases, reason>>
  BY <1>1 DEF Terminal!Worker, Terminal!disk
<1>3. PastDeadline(cmd[c], r)
  <2>1. cmd[c].error \in BOOLEAN
    BY DEF CommandsInv, RecordInv, CommandRecords
  <2>2. QED
    BY <2>1 DEF PastDeadline
<1> HIDE DEF r
<1>4. ASSUME NEW held \in BOOLEAN, NEW blocked \in BOOLEAN, RecordInv(cmd[c], held, blocked)
      PROVE  RecordInv(r, held, blocked) /\ r.home = cmd[c].home
  BY <1>3, <1>4, DeadlinePassed
<1>5. \A held, blocked \in BOOLEAN :
        RecordInv(cmd[c], held, blocked) => RecordInv(Terminal!Stop(r), held, blocked) /\ Terminal!Stop(r).home
            = cmd[c].home
  BY <1>4, StoppingKeeps
<1>6. QED
  BY <1>2, <1>5, OnlyOne

LEMMA BootGarbled ==
  ASSUME NEW r, NEW held \in BOOLEAN, NEW blocked \in BOOLEAN, RecordInv(r, held, blocked), r.stage
      = "supervised", r.kind # "host",
         r.worker = "booting",
         NEW s, s = [r EXCEPT !.protocol = TRUE, !.worker = "executing"]
  PROVE  RecordInv(s, held, blocked) /\ s.home = r.home
<1>1. r \in CommandRecords
  BY DEF RecordInv
<1>2. s \in CommandRecords
  BY <1>1 DEF CommandRecords, Terminal!Stages
<1>3. /\ s.stage = r.stage /\ s.home = r.home /\ s.kind = r.kind /\ s.handle = r.handle
      /\ s.worker = "executing" /\ s.running = r.running /\ s.ran = r.ran /\ s.events = r.events
      /\ s.finished = r.finished /\ s.term = r.term /\ s.error = r.error /\ s.confirmed = r.confirmed
      /\ s.protocol = TRUE /\ s.report = r.report
  BY <1>1 DEF CommandRecords
<1>4. TruthInv(s) /\ HandleInv(s)
  BY <1>3 DEF RecordInv, TruthInv, HandleInv, Early, Launched, Ended
<1>5. LeaseInv(s, held, blocked)
  BY <1>3 DEF RecordInv, TruthInv, HandleInv, LeaseInv, Early, Launched, Loose, Terminal!NotStarted, Ended
<1>6. QED
  BY <1>2, <1>3, <1>4, <1>5 DEF RecordInv

LEMMA EndGarbled ==
  ASSUME NEW r, NEW held \in BOOLEAN, NEW blocked \in BOOLEAN, RecordInv(r, held, blocked), r.stage
      = "supervised", r.kind # "host",
         r.running,
         NEW s, s = [r EXCEPT !.protocol = TRUE, !.worker = "exiting", !.running = FALSE]
  PROVE  RecordInv(s, held, blocked) /\ s.home = r.home
<1>1. r \in CommandRecords
  BY DEF RecordInv
<1>2. s \in CommandRecords
  BY <1>1 DEF CommandRecords, Terminal!Stages
<1>3. /\ s.stage = r.stage /\ s.home = r.home /\ s.kind = r.kind /\ s.handle = r.handle /\ s.worker = "exiting"
      /\ s.running = FALSE /\ s.ran = r.ran /\ s.events = r.events /\ s.finished = r.finished /\ s.term = r.term
      /\ s.error = r.error /\ s.confirmed = r.confirmed /\ s.protocol = TRUE /\ s.report = r.report
  BY <1>1 DEF CommandRecords
<1>4. TruthInv(s) /\ HandleInv(s)
  BY <1>3 DEF RecordInv, TruthInv, HandleInv, Early, Launched, Ended
<1>5. LeaseInv(s, held, blocked)
  BY <1>3 DEF RecordInv, TruthInv, HandleInv, LeaseInv, Early, Launched, Loose, Terminal!NotStarted, Ended
<1>6. QED
  BY <1>2, <1>3, <1>4, <1>5 DEF RecordInv

LEMMA GarbleReportStep ==
  ASSUME CommandsInv, NEW c \in Threads, Terminal!GarbleReport(c)
  PROVE  CommandsInv'
<1>1. cmd[c].stage = "supervised" /\ cmd[c].kind # "host" /\ UNCHANGED <<leases, reason>>
  BY DEF Terminal!GarbleReport, Terminal!Supervised, Terminal!Native, Terminal!At, Terminal!disk
<1>2. CASE /\ cmd[c].worker = "booting"
           /\ cmd' = [cmd EXCEPT ![c] = Terminal!Stop([cmd[c] EXCEPT !.protocol = TRUE, !.worker = "executing"])]
  <2> DEFINE r == [cmd[c] EXCEPT !.protocol = TRUE, !.worker = "executing"]
  <2>1. r = [cmd[c] EXCEPT !.protocol = TRUE, !.worker = "executing"]
    OBVIOUS
  <2> HIDE DEF r
  <2>2. ASSUME NEW held \in BOOLEAN, NEW blocked \in BOOLEAN, RecordInv(cmd[c], held, blocked)
        PROVE  RecordInv(r, held, blocked) /\ r.home = cmd[c].home
    BY <1>1, <1>2, <2>1, <2>2, BootGarbled
  <2>3. \A held, blocked \in BOOLEAN :
          RecordInv(cmd[c], held, blocked) => RecordInv(Terminal!Stop(r), held, blocked) /\ Terminal!Stop(r).home
              = cmd[c].home
    BY <2>2, StoppingKeeps
  <2>4. QED
    BY <1>1, <1>2, <2>1, <2>3, OnlyOne
<1>3. CASE /\ cmd[c].running
           /\ cmd' = [cmd EXCEPT ![c] =
                Terminal!Stop([cmd[c] EXCEPT !.protocol = TRUE, !.worker = "exiting", !.running = FALSE])]
  <2> DEFINE r == [cmd[c] EXCEPT !.protocol = TRUE, !.worker = "exiting", !.running = FALSE]
  <2>1. r = [cmd[c] EXCEPT !.protocol = TRUE, !.worker = "exiting", !.running = FALSE]
    OBVIOUS
  <2> HIDE DEF r
  <2>2. ASSUME NEW held \in BOOLEAN, NEW blocked \in BOOLEAN, RecordInv(cmd[c], held, blocked)
        PROVE  RecordInv(r, held, blocked) /\ r.home = cmd[c].home
    BY <1>1, <1>3, <2>1, <2>2, EndGarbled
  <2>3. \A held, blocked \in BOOLEAN :
          RecordInv(cmd[c], held, blocked) => RecordInv(Terminal!Stop(r), held, blocked) /\ Terminal!Stop(r).home
              = cmd[c].home
    BY <2>2, StoppingKeeps
  <2>4. QED
    BY <1>1, <1>3, <2>1, <2>3, OnlyOne
<1>4. QED
  BY <1>2, <1>3 DEF Terminal!GarbleReport

LEMMA Killed ==
  ASSUME NEW r, NEW held \in BOOLEAN, NEW blocked \in BOOLEAN, RecordInv(r, held, blocked), r.stage = "supervised",
         NEW s, \E term \in {"confirmed", "unconfirmed"} :
           s = [r EXCEPT !.worker = "gone", !.running = FALSE, !.term = term]
  PROVE  RecordInv(s, held, blocked) /\ s.home = r.home
<1>1. r \in CommandRecords
  BY DEF RecordInv
<1> PICK term \in {"confirmed", "unconfirmed"} :
           s = [r EXCEPT !.worker = "gone", !.running = FALSE, !.term = term]
  OBVIOUS
<1>2. s \in CommandRecords
  <2>1. term \in {"none", "confirmed", "unconfirmed"}
    OBVIOUS
  <2>2. QED
    BY <1>1, <2>1 DEF CommandRecords, Terminal!Stages
<1>3. /\ s.stage = r.stage /\ s.home = r.home /\ s.kind = r.kind /\ s.handle = r.handle /\ s.worker = "gone"
      /\ s.running = FALSE /\ s.ran = r.ran /\ s.events = r.events /\ s.finished = r.finished /\ s.term = term
      /\ s.error = r.error /\ s.confirmed = r.confirmed /\ s.protocol = r.protocol /\ s.report = r.report
  BY <1>1 DEF CommandRecords
<1>4. TruthInv(s) /\ HandleInv(s)
  BY <1>3 DEF RecordInv, TruthInv, HandleInv, Early, Launched, Ended
<1>5. LeaseInv(s, held, blocked)
  BY <1>3 DEF RecordInv, TruthInv, HandleInv, LeaseInv, Early, Launched, Loose, Terminal!NotStarted, Ended
<1>6. QED
  BY <1>2, <1>3, <1>4, <1>5 DEF RecordInv

LEMMA KillMissed ==
  ASSUME NEW r, NEW held \in BOOLEAN, NEW blocked \in BOOLEAN, RecordInv(r, held, blocked), r.stage = "supervised",
         NEW s, s = [r EXCEPT !.worker = "gone", !.term = "unconfirmed"]
  PROVE  RecordInv(s, held, blocked) /\ s.home = r.home
<1>1. r \in CommandRecords
  BY DEF RecordInv
<1>2. s \in CommandRecords
  <2> DEFINE dead == [r EXCEPT !.worker = "gone"]
  <2>1. dead \in CommandRecords
    BY <1>1 DEF CommandRecords
  <2>2. s = [dead EXCEPT !.term = "unconfirmed"]
    BY <1>1 DEF CommandRecords
  <2> HIDE DEF dead
  <2>3. QED
    BY <2>1, <2>2 DEF CommandRecords
<1>3. /\ s.stage = r.stage /\ s.home = r.home /\ s.kind = r.kind /\ s.handle = r.handle /\ s.worker = "gone"
      /\ s.running = r.running /\ s.ran = r.ran /\ s.events = r.events /\ s.finished = r.finished
      /\ s.term = "unconfirmed" /\ s.error = r.error /\ s.confirmed = r.confirmed /\ s.protocol = r.protocol
      /\ s.report = r.report
  BY <1>1 DEF CommandRecords
<1>4. TruthInv(s) /\ HandleInv(s)
  BY <1>3 DEF RecordInv, TruthInv, HandleInv, Early, Launched, Ended
<1>5. LeaseInv(s, held, blocked)
  BY <1>3 DEF RecordInv, TruthInv, HandleInv, LeaseInv, Early, Launched, Loose, Terminal!NotStarted, Ended
<1>6. QED
  BY <1>2, <1>3, <1>4, <1>5 DEF RecordInv

LEMMA KillStep ==
  ASSUME CommandsInv, NEW c \in Threads, Terminal!Kill(c)
  PROVE  CommandsInv'
<1>1. cmd[c].stage = "supervised" /\ UNCHANGED <<leases, reason>>
  BY DEF Terminal!Kill, Terminal!Supervised, Terminal!At, Terminal!disk
<1>2. CASE \E term \in {"confirmed", "unconfirmed"} :
             cmd' = [cmd EXCEPT ![c] = [cmd[c] EXCEPT !.worker = "gone", !.running = FALSE, !.term = term]]
  <2>1. PICK term \in {"confirmed", "unconfirmed"} :
               cmd' = [cmd EXCEPT ![c] = [cmd[c] EXCEPT !.worker = "gone", !.running = FALSE, !.term = term]]
    BY <1>2
  <2> DEFINE r == [cmd[c] EXCEPT !.worker = "gone", !.running = FALSE, !.term = term]
  <2>2. \A held, blocked \in BOOLEAN :
          RecordInv(cmd[c], held, blocked) => RecordInv(r, held, blocked) /\ r.home = cmd[c].home
    BY <1>1, Killed
  <2> HIDE DEF r
  <2>3. QED
    BY <1>1, <2>1, <2>2, OnlyOne DEF r
<1>3. CASE cmd' = [cmd EXCEPT ![c] = [cmd[c] EXCEPT !.worker = "gone", !.term = "unconfirmed"]]
  <2> DEFINE r == [cmd[c] EXCEPT !.worker = "gone", !.term = "unconfirmed"]
  <2>1. \A held, blocked \in BOOLEAN :
          RecordInv(cmd[c], held, blocked) => RecordInv(r, held, blocked) /\ r.home = cmd[c].home
    BY <1>1, KillMissed
  <2> HIDE DEF r
  <2>2. QED
    BY <1>1, <1>3, <2>1, OnlyOne DEF r
<1>4. QED
  BY <1>2, <1>3 DEF Terminal!Kill

-----------------------------------------------------------------------------
(* Steps that change the lease or quarantine the workspace *)

LEMMA Quarantining ==
  ASSUME CommandsInv, NEW p \in Processes, Terminal!Quarantine(p) \/ UNCHANGED reason
  PROVE  /\ reason' \in [Processes -> BOOLEAN] /\ \A q \in Processes : reason[q] => reason'[q]
         /\ Terminal!Quarantine(p) => reason'[p]
  BY DEF CommandsInv, Terminal!Quarantine

LEMMA HomeOf ==
  ASSUME CommandsInv, NEW c \in Threads
  PROVE  /\ RecordInv(cmd[c], c \in leases, reason[cmd[c].home]) /\ cmd[c] \in CommandRecords
         /\ cmd[c].home \in Processes /\ reason[cmd[c].home] \in BOOLEAN /\ (c \in leases) \in BOOLEAN
  BY DEF CommandsInv, RecordInv, CommandRecords

\* What is left of a command in its result.
Closed(r, report) ==
  [Terminal!Forgotten(r) EXCEPT !.stage = "closed", !.report = report, !.handle = IF @ = "open" THEN @ ELSE "seen"]

LEMMA Forgetting ==
  ASSUME NEW r \in CommandRecords, NEW s, s = Terminal!Forgotten(r)
  PROVE  /\ s \in CommandRecords /\ s.home = r.home /\ s.kind = "host" /\ s.worker = r.worker /\ s.running = r.running
         /\ s.ran = r.ran /\ s.events = r.events /\ s.finished = r.finished /\ s.term = "none"
         /\ s.protocol = FALSE /\ s.report = r.report
<1> DEFINE q == [r EXCEPT !.kind = "host", !.phase = "none", !.stop = "no", !.term = "none"]
<1>1. q \in CommandRecords
  <2> DEFINE p == [r EXCEPT !.kind = "host", !.phase = "none"]
             o == [p EXCEPT !.stop = "no"]
  <2>1. p \in CommandRecords
    BY DEF CommandRecords, Terminal!Kinds
  <2>2. q = [o EXCEPT !.term = "none"]
    BY DEF CommandRecords
  <2> HIDE DEF p, q
  <2>3. o \in CommandRecords
    BY <2>1 DEF CommandRecords
  <2> HIDE DEF o
  <2>4. QED
    BY <2>2, <2>3 DEF CommandRecords
<1>2. /\ q.home = r.home /\ q.worker = r.worker /\ q.running = r.running /\ q.ran = r.ran /\ q.events = r.events
      /\ q.finished = r.finished /\ q.report = r.report /\ q.kind = "host" /\ q.term = "none"
  BY DEF CommandRecords
<1> DEFINE t == [q EXCEPT !.error = FALSE, !.confirmed = FALSE, !.protocol = FALSE]
<1>3. s = [t EXCEPT !.attached = FALSE, !.aborted = FALSE]
  BY DEF Terminal!Forgotten, CommandRecords
<1> HIDE DEF q
<1>4. t \in CommandRecords
  BY <1>1 DEF CommandRecords
<1>5. /\ t.home = q.home /\ t.worker = q.worker /\ t.running = q.running /\ t.ran = q.ran /\ t.events = q.events
      /\ t.finished = q.finished /\ t.report = q.report /\ t.kind = q.kind /\ t.term = q.term /\ t.protocol = FALSE
  BY <1>1 DEF CommandRecords
<1> HIDE DEF t
<1>6. s \in CommandRecords
  BY <1>3, <1>4 DEF CommandRecords
<1>7. /\ s.home = t.home /\ s.worker = t.worker /\ s.running = t.running /\ s.ran = t.ran /\ s.events = t.events
      /\ s.finished = t.finished /\ s.report = t.report /\ s.kind = t.kind /\ s.term = t.term
      /\ s.protocol = t.protocol
  BY <1>3, <1>4 DEF CommandRecords
<1>8. QED
  BY <1>2, <1>5, <1>6, <1>7

LEMMA Closing ==
  ASSUME NEW r, NEW held \in BOOLEAN, NEW blocked \in BOOLEAN, RecordInv(r, held, blocked),
         NEW kept \in BOOLEAN, NEW stuck \in BOOLEAN,
         NEW report \in {"not_started", "exited", "unknown"}, r.worker \in {"none", "gone"},
         report = "not_started" => ~r.ran, report = "exited" => r.ran /\ ~r.running,
         r.running => kept /\ stuck /\ ~Terminal!NotStarted(r.events, r.finished),
         NEW s, s = IF kept THEN Closed(r, report) ELSE Terminal!Unjournalled(Closed(r, report))
  PROVE  RecordInv(s, kept, stuck) /\ s.home = r.home
<1> DEFINE f == Terminal!Forgotten(r)
           d == Closed(r, report)
<1>1. r \in CommandRecords
  BY DEF RecordInv
<1>2. /\ f \in CommandRecords /\ f.home = r.home /\ f.kind = "host" /\ f.worker = r.worker /\ f.running = r.running
      /\ f.ran = r.ran /\ f.events = r.events /\ f.finished = r.finished /\ f.term = "none" /\ f.protocol = FALSE
  BY <1>1, Forgetting
<1> HIDE DEF f
<1>3. PICK handle \in {"open", "seen"} : d = [f EXCEPT !.stage = "closed", !.report = report, !.handle = handle]
  BY DEF Closed, f
<1> HIDE DEF d
<1>4. d \in CommandRecords
  <2> DEFINE e == [f EXCEPT !.stage = "closed"]
             g == [e EXCEPT !.report = report]
  <2>1. report \in {"none", "not_started", "exited", "unknown"} /\ handle \in {"foreground", "pending", "open", "seen"}
    OBVIOUS
  <2>2. e \in CommandRecords
    BY <1>2 DEF CommandRecords, Terminal!Stages
  <2>3. d = [g EXCEPT !.handle = handle]
    BY <1>2, <1>3 DEF CommandRecords
  <2> HIDE DEF e
  <2>4. g \in CommandRecords
    BY <2>1, <2>2 DEF CommandRecords
  <2> HIDE DEF g
  <2>5. QED
    BY <2>1, <2>3, <2>4 DEF CommandRecords
<1>5. /\ d.home = r.home /\ d.kind = "host" /\ d.worker = r.worker /\ d.running = r.running
      /\ d.ran = r.ran /\ d.events = r.events /\ d.finished = r.finished /\ d.term = "none" /\ d.stage = "closed"
      /\ d.report = report
  BY <1>2, <1>3 DEF CommandRecords
<1>6. CASE kept
  <2>1. s = d
    BY <1>6 DEF d
  <2>2. TruthInv(s) /\ HandleInv(s)
    BY <1>5, <2>1 DEF RecordInv, TruthInv, HandleInv, Early, Launched, Ended
  <2>3. LeaseInv(s, kept, stuck)
    BY <1>5, <2>1 DEF LeaseInv, Loose
  <2>4. QED
    BY <1>4, <1>5, <2>1, <2>2, <2>3 DEF RecordInv
<1>7. CASE ~kept
  <2>1. s = [d EXCEPT !.events = {}, !.finished = "no"]
    BY <1>7 DEF d, Terminal!Unjournalled
  <2>2. s \in CommandRecords
    BY <1>4, <2>1 DEF CommandRecords
  <2>3. /\ s.home = d.home /\ s.kind = d.kind /\ s.worker = d.worker /\ s.running = d.running /\ s.ran = d.ran
        /\ s.events = {} /\ s.finished = "no" /\ s.term = d.term /\ s.stage = d.stage /\ s.report = d.report
    BY <1>4, <2>1 DEF CommandRecords
  <2>4. /\ s.home = r.home /\ s.kind = "host" /\ s.worker = r.worker /\ s.running = r.running
        /\ s.ran = r.ran /\ s.events = {} /\ s.finished = "no" /\ s.term = "none" /\ s.stage = "closed"
        /\ s.report = report
    BY <1>5, <2>3
  <2>5. TruthInv(s) /\ HandleInv(s)
    BY <2>4 DEF RecordInv, TruthInv, HandleInv, Early, Launched, Ended
  <2>6. LeaseInv(s, kept, stuck)
    BY <1>7, <2>4 DEF LeaseInv, Loose
  <2>7. QED
    BY <2>2, <2>4, <2>5, <2>6 DEF RecordInv
<1>8. QED
  BY <1>6, <1>7

LEMMA Closes ==
  ASSUME CommandsInv, NEW c \in Threads, NEW report \in {"not_started", "exited", "unknown"},
         cmd' = [cmd EXCEPT ![c] = Terminal!Close(c, report)],
         leases' \subseteq Threads, leases' \ {c} = leases \ {c},
         Terminal!Quarantine(cmd[c].home) \/ UNCHANGED reason,
         cmd[c].worker \in {"none", "gone"},
         report = "not_started" => ~cmd[c].ran, report = "exited" => cmd[c].ran /\ ~cmd[c].running,
         cmd[c].running => c \in leases' /\ reason'[cmd[c].home] /\ ~Terminal!NotStarted(cmd[c].events, cmd[c].finished)
  PROVE  CommandsInv'
<1> DEFINE r == Terminal!Close(c, report)
<1>1. /\ RecordInv(cmd[c], c \in leases, reason[cmd[c].home]) /\ cmd[c].home \in Processes
      /\ reason[cmd[c].home] \in BOOLEAN /\ (c \in leases) \in BOOLEAN /\ (c \in leases') \in BOOLEAN
  BY HomeOf
<1>2. /\ reason' \in [Processes -> BOOLEAN] /\ \A q \in Processes : reason[q] => reason'[q]
      /\ reason'[cmd[c].home] \in BOOLEAN
  BY <1>1, Quarantining
<1>3. r = IF c \in leases' THEN Closed(cmd[c], report) ELSE Terminal!Unjournalled(Closed(cmd[c], report))
  BY DEF Terminal!Close, Closed
<1> HIDE DEF r
<1>4. PICK kept \in BOOLEAN, stuck \in BOOLEAN : kept = (c \in leases') /\ stuck = reason'[cmd[c].home]
  BY <1>1, <1>2
<1>5. RecordInv(r, kept, stuck) /\ r.home = cmd[c].home
  <2>1. r = IF kept THEN Closed(cmd[c], report) ELSE Terminal!Unjournalled(Closed(cmd[c], report))
    BY <1>3, <1>4
  <2>2. PICK held \in BOOLEAN, blocked \in BOOLEAN : RecordInv(cmd[c], held, blocked)
    BY <1>1
  <2>3. cmd[c].running => kept /\ stuck /\ ~Terminal!NotStarted(cmd[c].events, cmd[c].finished)
    BY <1>4
  <2>4. QED
    BY <2>1, <2>2, <2>3, Closing
<1>6. QED
  BY <1>2, <1>4, <1>5, OneChanges DEF r

LEMMA DenyStep ==
  ASSUME CommandsInv, NEW c \in Threads, Terminal!Deny(c)
  PROVE  CommandsInv'
<1>1. cmd[c].worker = "none" /\ ~cmd[c].ran /\ ~cmd[c].running
  BY HomeOf DEF Terminal!Deny, Terminal!At, RecordInv, TruthInv, Early
<1>2. cmd' = [cmd EXCEPT ![c] = Terminal!Close(c, "not_started")] /\ UNCHANGED <<leases, reason>>
  BY DEF Terminal!Deny, Terminal!disk
<1>3. QED
  BY <1>1, <1>2, Closes DEF CommandsInv

\* A failure before the launch, whether it leaves the lease or removes it.
LEMMA PrepareFailsStep ==
  ASSUME CommandsInv, NEW c \in Threads, Terminal!PrepareFails(c) \/ Terminal!CancelPrepared(c)
  PROVE  CommandsInv'
<1>1. cmd[c].worker = "none" /\ ~cmd[c].ran /\ ~cmd[c].running
  BY HomeOf DEF Terminal!PrepareFails, Terminal!CancelPrepared, Terminal!At, RecordInv, TruthInv, Early
<1>2. cmd' = [cmd EXCEPT ![c] = Terminal!Close(c, "not_started")] /\ (Terminal!Quarantine(cmd[c].home)
          \/ UNCHANGED reason)
  BY DEF Terminal!PrepareFails, Terminal!CancelPrepared, Terminal!Home
<1>3. leases' \subseteq Threads /\ leases' \ {c} = leases \ {c}
  BY DEF Terminal!PrepareFails, Terminal!CancelPrepared, CommandsInv
<1>4. QED
  BY <1>1, <1>2, <1>3, Closes

LEMMA FinishLeaseStep ==
  ASSUME CommandsInv, NEW c \in Threads, Terminal!FinishLease(c)
  PROVE  CommandsInv'
<1>1. /\ RecordInv(cmd[c], c \in leases, reason[cmd[c].home]) /\ cmd[c].home \in Processes /\ Terminal!At(c, "recorded")
  BY HomeOf DEF Terminal!FinishLease
<1>2. /\ cmd' = [cmd EXCEPT ![c] = Terminal!Close(c, cmd[c].report)]
      /\ leases' \subseteq Threads /\ leases' \ {c} = leases \ {c}
      /\ Terminal!Quarantine(cmd[c].home) \/ UNCHANGED reason
  BY DEF Terminal!FinishLease, CommandsInv, Terminal!Home
<1>3. cmd[c].running => UNCHANGED <<leases, reason>>
  BY <1>1 DEF Terminal!FinishLease, RecordInv, LeaseInv, Terminal!At
<1>4. cmd[c].running => c \in leases' /\ reason'[cmd[c].home] /\ ~Terminal!NotStarted(cmd[c].events, cmd[c].finished)
  BY <1>1, <1>3 DEF RecordInv, LeaseInv, Loose, Terminal!At
<1>5. cmd[c].worker \in {"none", "gone"}
  BY <1>1 DEF RecordInv, HandleInv, Terminal!At
<1>6. /\ cmd[c].report = "not_started" => ~cmd[c].ran
      /\ cmd[c].report = "exited" => cmd[c].ran /\ ~cmd[c].running
      /\ cmd[c].report \in {"not_started", "exited", "unknown"}
  BY <1>1 DEF RecordInv, CommandRecords, TruthInv, Terminal!At
<1>7. QED
  BY <1>2, <1>4, <1>5, <1>6, Closes

LEMMA Approved ==
  ASSUME NEW r, NEW held \in BOOLEAN, NEW blocked \in BOOLEAN, RecordInv(r, held, blocked), r.stage = "deciding",
         NEW s, s = [r EXCEPT !.stage = "preparing"]
  PROVE  RecordInv(s, TRUE, blocked) /\ s.home = r.home
<1>1. r \in CommandRecords
  BY DEF RecordInv
<1>2. s \in CommandRecords
  BY <1>1 DEF CommandRecords, Terminal!Stages
<1>3. /\ s.stage = "preparing" /\ s.home = r.home /\ s.kind = r.kind /\ s.handle = r.handle
      /\ s.worker = r.worker /\ s.running = r.running /\ s.ran = r.ran /\ s.events = r.events
      /\ s.finished = r.finished /\ s.term = r.term /\ s.error = r.error /\ s.confirmed = r.confirmed
      /\ s.protocol = r.protocol /\ s.report = r.report
  BY <1>1 DEF CommandRecords
<1>4. TruthInv(s) /\ HandleInv(s)
  BY <1>3 DEF RecordInv, TruthInv, HandleInv, Early, Launched, Ended
<1>5. LeaseInv(s, TRUE, blocked)
  BY <1>3 DEF RecordInv, TruthInv, HandleInv, LeaseInv, Early, Launched, Loose, Terminal!NotStarted, Ended
<1>6. QED
  BY <1>2, <1>3, <1>4, <1>5 DEF RecordInv

LEMMA ApproveStep ==
  ASSUME CommandsInv, NEW c \in Threads, Terminal!Approve(c)
  PROVE  CommandsInv'
<1>1. /\ leases' \subseteq Threads /\ leases' \ {c} = leases \ {c} /\ c \in leases' /\ UNCHANGED reason
      /\ Terminal!At(c, "deciding")
  BY DEF Terminal!Approve, CommandsInv
<1> DEFINE r == [cmd[c] EXCEPT !.stage = "preparing"]
<1>2. cmd' = [cmd EXCEPT ![c] = r]
  BY DEF Terminal!Approve
<1>3. RecordInv(r, c \in leases', reason[cmd[c].home]) /\ r.home = cmd[c].home
  <2>1. PICK held \in BOOLEAN, blocked \in BOOLEAN :
          blocked = reason[cmd[c].home] /\ RecordInv(cmd[c], held, blocked)
    BY HomeOf
  <2>2. (c \in leases') = TRUE /\ cmd[c].stage = "deciding"
    BY <1>1 DEF Terminal!At
  <2>3. RecordInv(r, TRUE, blocked) /\ r.home = cmd[c].home
    BY <2>1, <2>2, Approved
  <2>4. QED
    BY <2>1, <2>2, <2>3
<1> HIDE DEF r
<1>4. QED
  BY <1>1, <1>2, <1>3, OneChanges DEF CommandsInv

\* What allows the cleanup says that the target is over, or never was.
LEMMA CleanedIsOver ==
  ASSUME NEW r, NEW held \in BOOLEAN, NEW blocked \in BOOLEAN, RecordInv(r, held, blocked),
         r.stage = "supervised", Terminal!MayCleanUp(r)
  PROVE  ~r.running
  BY DEF Terminal!MayCleanUp, RecordInv, TruthInv, Launched, Ended

\* What may still run although its worker is gone is cleaned up with an error, or without a confirmation.
LEMMA StillRuns ==
  ASSUME NEW r, NEW held \in BOOLEAN, NEW blocked \in BOOLEAN, RecordInv(r, held, blocked),
         r.stage = "supervised", r.worker = "gone", r.running
  PROVE  r.error \/ r.term = "unconfirmed" \/ ~r.confirmed
<1>1. CASE r.kind # "host"
  BY <1>1 DEF RecordInv, LeaseInv
<1>2. CASE r.kind = "host"
  BY <1>2 DEF RecordInv, CommandRecords, TruthInv, Launched
<1>3. QED
  BY <1>1, <1>2

\* Of a command that is wound up, nothing that is known of its target changes.
SameTarget(r, s) ==
  /\ s.home = r.home /\ s.kind = r.kind /\ s.handle = r.handle /\ s.worker = r.worker /\ s.running = r.running
  /\ s.ran = r.ran /\ s.events = r.events /\ s.term = r.term /\ s.protocol = r.protocol

LEMMA CleanedUp ==
  ASSUME NEW r, NEW held \in BOOLEAN, NEW blocked \in BOOLEAN, RecordInv(r, held, blocked), NEW stuck \in BOOLEAN,
         r.stage = "supervised", r.worker = "gone",
         NEW s \in CommandRecords, SameTarget(r, s), s.stage = "cleaned", s.finished = r.finished,
         r.running => (s.error \/ ~s.confirmed) /\ stuck
  PROVE  RecordInv(s, held, stuck)
<1>1. TruthInv(s) /\ HandleInv(s)
  BY DEF RecordInv, SameTarget, TruthInv, HandleInv, Early, Launched, Ended
<1>2. LeaseInv(s, held, stuck)
  BY DEF RecordInv, SameTarget, LeaseInv, Loose, Terminal!NotStarted
<1>3. QED
  BY <1>1, <1>2 DEF RecordInv

LEMMA CleanUpStep ==
  ASSUME CommandsInv, NEW c \in Threads, Terminal!CleanUp(c)
  PROVE  CommandsInv'
<1>1. /\ RecordInv(cmd[c], c \in leases, reason[cmd[c].home]) /\ cmd[c].home \in Processes /\ cmd[c] \in CommandRecords
      /\ reason[cmd[c].home] \in BOOLEAN /\ (c \in leases) \in BOOLEAN
  BY HomeOf
<1>2. cmd[c].stage = "supervised" /\ cmd[c].worker = "gone" /\ UNCHANGED leases
  BY DEF Terminal!CleanUp, Terminal!Supervised, Terminal!At
<1>3. Terminal!Quarantine(cmd[c].home) \/ UNCHANGED reason
  BY DEF Terminal!CleanUp
<1>4. /\ reason' \in [Processes -> BOOLEAN] /\ \A q \in Processes : reason[q] => reason'[q]
      /\ Terminal!Quarantine(cmd[c].home) => reason'[cmd[c].home]
  BY <1>1, <1>3, Quarantining
<1>5. reason'[cmd[c].home] \in BOOLEAN
  BY <1>1, <1>4
<1>6. ASSUME NEW r, NEW error \in BOOLEAN, NEW confirmed \in BOOLEAN, cmd' = [cmd EXCEPT ![c] = r],
             r = [cmd[c] EXCEPT !.stage = "cleaned", !.confirmed = confirmed, !.error = error],
             cmd[c].running => (error \/ ~confirmed) /\ reason'[cmd[c].home]
      PROVE  CommandsInv'
  <2>1. r \in CommandRecords
    BY <1>1, <1>6 DEF CommandRecords, Terminal!Stages
  <2>2. /\ SameTarget(cmd[c], r) /\ r.stage = "cleaned" /\ r.finished = cmd[c].finished
        /\ r.error = error /\ r.confirmed = confirmed /\ r.home = cmd[c].home
    BY <1>1, <1>6 DEF CommandRecords, SameTarget
  <2>3. RecordInv(r, c \in leases, reason'[cmd[c].home])
    BY <1>1, <1>2, <1>5, <1>6, <2>1, <2>2, CleanedUp
  <2>4. QED
    BY <1>2, <1>4, <1>6, <2>2, <2>3, OneChanges DEF CommandsInv
<1>7. CASE Terminal!MayCleanUp(cmd[c]) /\ cmd' = [cmd EXCEPT ![c] =
             [cmd[c] EXCEPT !.stage = "cleaned", !.confirmed = TRUE, !.error = FALSE]]
  BY <1>1, <1>2, <1>6, <1>7, CleanedIsOver
<1>8. CASE /\ Terminal!MayCleanUp(cmd[c])
           /\ cmd' = [cmd EXCEPT ![c] = [cmd[c] EXCEPT !.stage = "cleaned", !.error = TRUE]]
  <2>1. [cmd[c] EXCEPT !.stage = "cleaned", !.error = TRUE] =
          [cmd[c] EXCEPT !.stage = "cleaned", !.confirmed = cmd[c].confirmed, !.error = TRUE]
    BY <1>1 DEF CommandRecords
  <2>2. cmd[c].confirmed \in BOOLEAN /\ ~cmd[c].running
    BY <1>1, <1>2, <1>8, CleanedIsOver DEF CommandRecords
  <2>3. QED
    BY <1>6, <1>8, <2>1, <2>2
<1>9. CASE /\ ~Terminal!MayCleanUp(cmd[c])
           /\ cmd' = [cmd EXCEPT ![c] = [cmd[c] EXCEPT !.stage = "cleaned",
                                                      !.error = cmd[c].error \/ cmd[c].term = "unconfirmed"]]
           /\ cmd[c].error \/ cmd[c].term = "unconfirmed" \/ ~cmd[c].confirmed => Terminal!Quarantine(cmd[c].home)
  <2> DEFINE error == cmd[c].error \/ cmd[c].term = "unconfirmed"
  <2>1. error \in BOOLEAN /\ cmd[c].confirmed \in BOOLEAN /\ (error <=> cmd[c].error \/ cmd[c].term = "unconfirmed")
    BY <1>1 DEF CommandRecords
  <2>2. cmd' = [cmd EXCEPT ![c] = [cmd[c] EXCEPT !.stage = "cleaned", !.error = error]]
    BY <1>9
  <2> HIDE DEF error
  <2>3. [cmd[c] EXCEPT !.stage = "cleaned", !.error = error] =
          [cmd[c] EXCEPT !.stage = "cleaned", !.confirmed = cmd[c].confirmed, !.error = error]
    BY <1>1 DEF CommandRecords
  <2>4. cmd[c].running => (error \/ ~cmd[c].confirmed) /\ reason'[cmd[c].home]
    BY <1>1, <1>2, <1>4, <1>9, <2>1, StillRuns
  <2>5. QED
    BY <1>6, <2>1, <2>2, <2>3, <2>4
<1>10. QED
  BY <1>7, <1>8, <1>9 DEF Terminal!CleanUp

\* The result says what happened.
LEMMA ResultIsSo ==
  ASSUME NEW r, NEW held \in BOOLEAN, NEW blocked \in BOOLEAN, RecordInv(r, held, blocked), r.stage = "cleaned"
  PROVE  /\ Terminal!ExecutionState(r) \in {"not_started", "exited", "unknown"}
         /\ Terminal!ExecutionState(r) = "not_started" => ~r.ran
         /\ Terminal!ExecutionState(r) = "exited" => r.ran /\ ~r.running
<1>1. Terminal!ProvenNotStarted(r) => ~r.ran
  BY DEF Terminal!ProvenNotStarted, RecordInv, TruthInv, Launched
<1>2. r.events \cap {"exited", "timed_out", "canceled"} # {} => r.ran /\ ~r.running
  BY DEF RecordInv, TruthInv, Ended
<1>3. r.kind = "host" /\ r.term = "none" => r.ran /\ ~r.running
  BY DEF RecordInv, TruthInv, HandleInv, Launched
<1>4. QED
  BY <1>1, <1>2, <1>3 DEF Terminal!ExecutionState

LEMMA Recorded ==
  ASSUME NEW r, NEW held \in BOOLEAN, NEW blocked \in BOOLEAN, RecordInv(r, held, blocked), NEW stuck \in BOOLEAN,
         r.stage = "cleaned", r.running => stuck,
         NEW s \in CommandRecords, SameTarget(r, s), s.stage = "recorded", s.confirmed = r.confirmed, r.error
             => s.error,
         s.report \in {"not_started", "exited", "unknown"},
         s.report = "not_started" => ~r.ran, s.report = "exited" => r.ran /\ ~r.running
  PROVE  RecordInv(s, held, stuck)
<1>1. TruthInv(s) /\ HandleInv(s)
  BY DEF RecordInv, SameTarget, TruthInv, HandleInv, Early, Launched, Ended
<1>2. s.running => ~Terminal!NotStarted(s.events, s.finished)
  BY DEF RecordInv, SameTarget, TruthInv, Terminal!NotStarted
<1>3. LeaseInv(s, held, stuck)
  BY <1>2 DEF RecordInv, SameTarget, LeaseInv, Loose
<1>4. QED
  BY <1>1, <1>3 DEF RecordInv

LEMMA RecordStep ==
  ASSUME CommandsInv, NEW c \in Threads, Terminal!Record(c)
  PROVE  CommandsInv'
<1>1. /\ RecordInv(cmd[c], c \in leases, reason[cmd[c].home]) /\ cmd[c].home \in Processes /\ cmd[c] \in CommandRecords
      /\ reason[cmd[c].home] \in BOOLEAN /\ (c \in leases) \in BOOLEAN
  BY HomeOf
<1>2. cmd[c].stage = "cleaned" /\ UNCHANGED leases /\ (Terminal!Quarantine(cmd[c].home) \/ UNCHANGED reason)
  BY DEF Terminal!Record, Terminal!At, Terminal!Home
<1>3. /\ reason' \in [Processes -> BOOLEAN] /\ \A q \in Processes : reason[q] => reason'[q]
      /\ reason'[cmd[c].home] \in BOOLEAN
  BY <1>1, <1>2, Quarantining
<1>4. cmd[c].running => reason'[cmd[c].home]
  BY <1>1, <1>2, <1>3 DEF RecordInv, LeaseInv
<1> DEFINE report == Terminal!ExecutionState(cmd[c])
           finished == IF Terminal!SpawnFailed(cmd[c]) THEN "spawn_failed" ELSE "other"
<1>5. PICK tracked \in BOOLEAN :
        cmd' = [cmd EXCEPT ![c] = [cmd[c] EXCEPT !.stage = "recorded", !.report = report, !.finished = finished,
                                                 !.error = cmd[c].error \/ ~tracked]]
  BY DEF Terminal!Record
<1>6. /\ report \in {"not_started", "exited", "unknown"} /\ finished \in {"spawn_failed", "other"}
      /\ report = "not_started" => ~cmd[c].ran
      /\ report = "exited" => cmd[c].ran /\ ~cmd[c].running
  BY <1>1, <1>2, ResultIsSo
<1> HIDE DEF report, finished
<1>7. PICK error \in {cmd[c].error, TRUE} : error = (cmd[c].error \/ ~tracked)
  <2>1. cmd[c].error \in BOOLEAN
    BY <1>1 DEF CommandRecords
  <2>2. QED
    BY <2>1
<1> DEFINE r == [cmd[c] EXCEPT !.stage = "recorded", !.report = report, !.finished = finished, !.error = error]
<1>8. cmd' = [cmd EXCEPT ![c] = r]
  BY <1>5, <1>7
<1>9. r \in CommandRecords
  <2> DEFINE q == [cmd[c] EXCEPT !.stage = "recorded", !.error = error]
             u == [q EXCEPT !.report = report]
  <2>1. error \in BOOLEAN
    BY <1>1 DEF CommandRecords
  <2>2. q \in CommandRecords
    BY <1>1, <2>1 DEF CommandRecords, Terminal!Stages
  <2>3. r = [u EXCEPT !.finished = finished]
    BY <1>1 DEF CommandRecords
  <2> HIDE DEF q
  <2>4. report \in {"none", "not_started", "exited", "unknown"} /\ finished \in {"no", "spawn_failed", "other"}
    BY <1>6
  <2>5. u \in CommandRecords
    BY <2>2, <2>4 DEF CommandRecords
  <2> HIDE DEF u, r
  <2>6. QED
    BY <2>3, <2>4, <2>5 DEF CommandRecords
<1>10. /\ SameTarget(cmd[c], r) /\ r.stage = "recorded" /\ r.confirmed = cmd[c].confirmed
       /\ cmd[c].error => r.error
       /\ r.report = report /\ r.home = cmd[c].home
  BY <1>1 DEF CommandRecords, SameTarget
<1> HIDE DEF r
<1>11. RecordInv(r, c \in leases, reason'[cmd[c].home])
  BY <1>1, <1>2, <1>3, <1>4, <1>6, <1>9, <1>10, Recorded
<1>12. QED
  BY <1>2, <1>3, <1>8, <1>10, <1>11, OneChanges DEF CommandsInv

-----------------------------------------------------------------------------
(* Steps that change several commands, and crashes *)

\* Each command changes or not, and nothing else does.
LEMMA Everyone ==
  ASSUME CommandsInv, cmd' = [c \in Threads |-> cmd'[c]], DOMAIN cmd' = Threads, UNCHANGED <<leases, reason>>,
         \A c \in Threads : \A held, blocked \in BOOLEAN :
           RecordInv(cmd[c], held, blocked) => RecordInv(cmd'[c], held, blocked) /\ cmd'[c].home = cmd[c].home
  PROVE  CommandsInv'
<1>1. ASSUME NEW c \in Threads
      PROVE  RecordInv(cmd'[c], c \in leases, reason[cmd'[c].home])
  <2>1. PICK held \in BOOLEAN, blocked \in BOOLEAN :
          held = (c \in leases) /\ blocked = reason[cmd[c].home] /\ RecordInv(cmd[c], held, blocked)
    BY HomeOf
  <2>2. RecordInv(cmd'[c], held, blocked) /\ cmd'[c].home = cmd[c].home
    BY <2>1
  <2>3. QED
    BY <2>1, <2>2
<1>2. QED
  BY <1>1 DEF CommandsInv

LEMMA CancelCommandStep ==
  ASSUME CommandsInv, NEW c \in Threads, Terminal!CancelCommand(c)
  PROVE  CommandsInv'
<1>1. cmd' = [cmd EXCEPT ![c] = Terminal!Aborted(cmd[c])] /\ UNCHANGED <<leases, reason>>
  BY DEF Terminal!CancelCommand, Terminal!disk
<1>2. \A held, blocked \in BOOLEAN :
        RecordInv(cmd[c], held, blocked) => RecordInv(Terminal!Aborted(cmd[c]), held, blocked)
            /\ Terminal!Aborted(cmd[c]).home = cmd[c].home
  BY AbortingKeeps
<1>3. QED
  BY <1>1, <1>2, OnlyOne

LEMMA AbortTurnStep ==
  ASSUME CommandsInv, NEW p \in Processes, Terminal!AbortTurn(p)
  PROVE  CommandsInv'
<1>1. cmd' = [c \in Threads |-> IF c \in Terminal!Mine(p) /\ cmd[c].attached THEN Terminal!Aborted(cmd[c]) ELSE cmd[c]]
  BY DEF Terminal!AbortTurn
<1>2. UNCHANGED <<leases, reason>>
  BY DEF Terminal!AbortTurn, Terminal!disk
<1>3. DOMAIN cmd' = Threads /\ cmd' = [c \in Threads |-> cmd'[c]]
  BY <1>1
<1>4. ASSUME NEW c \in Threads, NEW held \in BOOLEAN, NEW blocked \in BOOLEAN, RecordInv(cmd[c], held, blocked)
      PROVE  RecordInv(cmd'[c], held, blocked) /\ cmd'[c].home = cmd[c].home
  <2>1. cmd'[c] = Terminal!Aborted(cmd[c]) \/ cmd'[c] = cmd[c]
    BY <1>1
  <2>2. QED
    BY <1>4, <2>1, AbortingKeeps
<1>5. QED
  BY <1>2, <1>3, <1>4, Everyone

LEMMA DetachingKeeps ==
  ASSUME NEW r, NEW held \in BOOLEAN, NEW blocked \in BOOLEAN, RecordInv(r, held, blocked),
         NEW s, s = [r EXCEPT !.attached = FALSE]
  PROVE  RecordInv(s, held, blocked) /\ s.home = r.home
<1>1. r \in CommandRecords
  BY DEF RecordInv
<1>2. s \in CommandRecords
  BY <1>1 DEF CommandRecords, Terminal!Stages
<1>3. /\ s.stage = r.stage /\ s.home = r.home /\ s.kind = r.kind /\ s.handle = r.handle /\ s.worker = r.worker
      /\ s.running = r.running /\ s.ran = r.ran /\ s.events = r.events /\ s.finished = r.finished
      /\ s.term = r.term /\ s.error = r.error /\ s.confirmed = r.confirmed /\ s.protocol = r.protocol
      /\ s.report = r.report
  BY <1>1 DEF CommandRecords
<1>4. TruthInv(s) /\ HandleInv(s)
  BY <1>3 DEF RecordInv, TruthInv, HandleInv, Early, Launched, Ended
<1>5. LeaseInv(s, held, blocked)
  BY <1>3 DEF RecordInv, TruthInv, HandleInv, LeaseInv, Early, Launched, Loose, Terminal!NotStarted, Ended
<1>6. QED
  BY <1>2, <1>3, <1>4, <1>5 DEF RecordInv

LEMMA EndTurnStep ==
  ASSUME CommandsInv, NEW p \in Processes, Terminal!EndTurn(p)
  PROVE  CommandsInv'
<1>1. cmd' = [c \in Threads |-> IF c \in Terminal!Mine(p) THEN [cmd[c] EXCEPT !.attached = FALSE] ELSE cmd[c]]
  BY DEF Terminal!EndTurn
<1>2. UNCHANGED <<leases, reason>>
  BY DEF Terminal!EndTurn, Terminal!disk
<1>3. DOMAIN cmd' = Threads /\ cmd' = [c \in Threads |-> cmd'[c]]
  BY <1>1
<1>4. ASSUME NEW c \in Threads, NEW held \in BOOLEAN, NEW blocked \in BOOLEAN, RecordInv(cmd[c], held, blocked)
      PROVE  RecordInv(cmd'[c], held, blocked) /\ cmd'[c].home = cmd[c].home
  <2>1. cmd'[c] = [cmd[c] EXCEPT !.attached = FALSE] \/ cmd'[c] = cmd[c]
    BY <1>1
  <2>2. QED
    BY <1>4, <2>1, DetachingKeeps
<1>5. QED
  BY <1>2, <1>3, <1>4, Everyone

\* A lease that evidence removes is of no command that may still run.
LEMMA EvidentIsOver ==
  ASSUME NEW r, NEW held \in BOOLEAN, NEW blocked \in BOOLEAN, RecordInv(r, held, blocked),
         Terminal!NotStarted(r.events, r.finished)
  PROVE  RecordInv(r, FALSE, blocked) /\ ~r.running
<1>1. r.finished # "no"
  BY DEF Terminal!NotStarted
<1>2. ~Loose(r)
  BY DEF RecordInv, LeaseInv
<1>3. LeaseInv(r, FALSE, blocked)
  BY <1>1, <1>2 DEF RecordInv, LeaseInv, Loose
<1>4. QED
  BY <1>2, <1>3 DEF RecordInv, Loose

\* Without its evident leases the workspace is as it was.
LEMMA Unevident ==
  ASSUME CommandsInv, NEW c \in Threads
  PROVE  /\ RecordInv(cmd[c], c \in leases \ Terminal!Evident, reason[cmd[c].home])
         /\ cmd[c].running => c \in leases \ Terminal!Evident
<1>1. /\ RecordInv(cmd[c], c \in leases, reason[cmd[c].home])
      /\ reason[cmd[c].home] \in BOOLEAN /\ (c \in leases) \in BOOLEAN
  BY HomeOf
<1>2. CASE c \in Terminal!Evident
  <2>1. PICK held \in BOOLEAN, blocked \in BOOLEAN :
          blocked = reason[cmd[c].home] /\ RecordInv(cmd[c], held, blocked)
    BY <1>1
  <2>2. Terminal!NotStarted(cmd[c].events, cmd[c].finished)
    BY <1>2 DEF Terminal!Evident
  <2>3. RecordInv(cmd[c], FALSE, blocked) /\ ~cmd[c].running
    BY <2>1, <2>2, EvidentIsOver
  <2>4. (c \in leases \ Terminal!Evident) = FALSE
    BY <1>2
  <2>5. QED
    BY <2>1, <2>3, <2>4
<1>3. CASE c \notin Terminal!Evident
  BY <1>1, <1>3 DEF RecordInv, LeaseInv, Loose
<1>4. QED
  BY <1>2, <1>3

LEMMA ReconcileKeeps ==
  ASSUME CommandsInv, NEW p \in Processes, Terminal!Reconcile(p), NEW c \in Threads
  PROVE  /\ RecordInv(cmd[c], c \in leases', reason'[cmd[c].home])
         /\ leases' \subseteq Threads /\ reason' \in [Processes -> BOOLEAN]
<1>1. /\ RecordInv(cmd[c], c \in leases \ Terminal!Evident, reason[cmd[c].home])
      /\ cmd[c].running => c \in leases \ Terminal!Evident
  BY Unevident
<1>2. /\ leases' = leases \ Terminal!Evident
      /\ \/ UNCHANGED reason
         \/ leases' = {} /\ reason' = [reason EXCEPT ![p] = FALSE]
  <2>0. leases' = leases \ Terminal!Evident
    BY Zenon DEF Terminal!Reconcile
  <2>1. CASE Terminal!Evident # {} /\ leases' = {} /\ ~marker
    BY <2>0, <2>1 DEF Terminal!Reconcile
  <2>2. CASE ~(Terminal!Evident # {} /\ leases' = {} /\ ~marker)
    <3>1. UNCHANGED reason
      BY <2>2, Zenon DEF Terminal!Reconcile
    <3>2. QED
      BY <2>0, <3>1
  <2>3. QED
    BY <2>1, <2>2
<1>3. leases' \subseteq Threads /\ reason' \in [Processes -> BOOLEAN]
  BY <1>2 DEF CommandsInv
<1>4. CASE UNCHANGED reason
  BY <1>1, <1>2, <1>3, <1>4
<1>5. CASE leases' = {}
  <2>1. ~cmd[c].running
    BY <1>1, <1>2, <1>5
  <2>2. LeaseInv(cmd[c], c \in leases', reason'[cmd[c].home])
    BY <1>1, <1>2, <2>1 DEF RecordInv, LeaseInv
  <2>3. QED
    BY <1>1, <1>3, <2>2 DEF RecordInv
<1>6. QED
  BY <1>2, <1>4, <1>5

LEMMA InspectStep ==
  ASSUME CommandsInv, NEW p \in Processes, Terminal!Inspect(p)
  PROVE  CommandsInv'
<1>1. Terminal!Reconcile(p) /\ UNCHANGED cmd
  BY DEF Terminal!Inspect
<1>2. \A c \in Threads : RecordInv(cmd[c], c \in leases', reason'[cmd[c].home])
  BY <1>1, ReconcileKeeps
<1>3. leases' \subseteq Threads /\ reason' \in [Processes -> BOOLEAN]
  BY <1>1 DEF CommandsInv, Terminal!Reconcile
<1>4. QED
  BY <1>1, <1>2, <1>3 DEF CommandsInv

LEMMA RequestStep ==
  ASSUME CommandsInv, NEW c \in Threads, NEW p \in Processes, Terminal!Request(c, p)
  PROVE  CommandsInv'
<1>1. /\ \A d \in Threads : RecordInv(cmd[d], d \in leases', reason'[cmd[d].home])
      /\ leases' \subseteq Threads /\ reason' \in [Processes -> BOOLEAN]
  BY ReconcileKeeps DEF Terminal!Request
<1>2. cmd[c] \in CommandRecords /\ Terminal!At(c, "none") /\ TruthInv(cmd[c])
  BY <1>1 DEF Terminal!Request, RecordInv
<1>3. PICK kind \in Terminal!Kinds, handle \in {"foreground", "pending"} :
        cmd' = [cmd EXCEPT ![c] = [cmd[c] EXCEPT !.home = p, !.kind = kind,
                  !.attached = TRUE, !.handle = handle, !.confirmed = (kind = "host"),
                  !.stage = IF Terminal!Unsafe(p, leases', reason') THEN "closed" ELSE "deciding"]]
  BY DEF Terminal!Request
<1>4. PICK stage \in {"closed", "deciding"}, confirmed \in BOOLEAN :
        /\ cmd' = [cmd EXCEPT ![c] = [cmd[c] EXCEPT !.home = p, !.kind = kind, !.attached = TRUE, !.handle = handle,
                                                    !.confirmed = confirmed, !.stage = stage]]
        /\ confirmed => kind = "host"
  BY <1>3
<1> DEFINE q == [cmd[c] EXCEPT !.home = p, !.kind = kind, !.attached = TRUE]
           u == [q EXCEPT !.handle = handle, !.confirmed = confirmed]
           r == [u EXCEPT !.stage = stage]
<1>5. r = [cmd[c] EXCEPT !.home = p, !.kind = kind, !.attached = TRUE, !.handle = handle,
                         !.confirmed = confirmed, !.stage = stage]
  BY <1>2 DEF CommandRecords
<1>6. q \in CommandRecords
  BY <1>2 DEF CommandRecords
<1>7. /\ q.home = p /\ q.kind = kind /\ q.worker = cmd[c].worker /\ q.running = cmd[c].running /\ q.ran = cmd[c].ran
      /\ q.events = cmd[c].events /\ q.finished = cmd[c].finished /\ q.term = cmd[c].term /\ q.report = cmd[c].report
  BY <1>2 DEF CommandRecords
<1> HIDE DEF q
<1>8. u \in CommandRecords
  BY <1>6 DEF CommandRecords
<1>9. /\ u.home = q.home /\ u.kind = q.kind /\ u.worker = q.worker /\ u.running = q.running /\ u.ran = q.ran
      /\ u.events = q.events /\ u.finished = q.finished /\ u.term = q.term /\ u.report = q.report
      /\ u.handle = handle /\ u.confirmed = confirmed
  BY <1>6 DEF CommandRecords
<1> HIDE DEF u
<1>10. r \in CommandRecords
  BY <1>8 DEF CommandRecords, Terminal!Stages
<1>11. /\ r.home = u.home /\ r.kind = u.kind /\ r.worker = u.worker /\ r.running = u.running /\ r.ran = u.ran
       /\ r.events = u.events /\ r.finished = u.finished /\ r.term = u.term /\ r.report = u.report
       /\ r.handle = u.handle /\ r.confirmed = u.confirmed /\ r.stage = stage
  BY <1>8 DEF CommandRecords
<1> HIDE DEF r
<1>12. /\ cmd[c].worker = "none" /\ ~cmd[c].ran /\ cmd[c].events = {} /\ cmd[c].term = "none" /\ ~cmd[c].running
       /\ ~cmd[c].protocol /\ cmd[c].finished = "no" /\ cmd[c].report = "none"
  BY <1>2 DEF TruthInv, Early, Terminal!At
<1>13. r.protocol = cmd[c].protocol
  BY <1>2, <1>5 DEF CommandRecords
<1>14. TruthInv(r) /\ HandleInv(r)
  BY <1>7, <1>9, <1>11, <1>12, <1>13 DEF TruthInv, HandleInv, Early, Launched, Ended
<1>15. LeaseInv(r, c \in leases', reason'[p])
  BY <1>4, <1>7, <1>9, <1>11, <1>12 DEF LeaseInv, Loose, Terminal!NotStarted
<1>16. r.home = p
  BY <1>7, <1>9, <1>11
<1>17. cmd' = [d \in Threads |-> cmd'[d]] /\ cmd'[c] = r /\ \A d \in Threads \ {c} : cmd'[d] = cmd[d]
  BY <1>4, <1>5 DEF CommandsInv
<1>18. QED
  BY <1>1, <1>10, <1>14, <1>15, <1>16, <1>17 DEF CommandsInv, RecordInv

\* A command whose process dies: what still runs, or may start yet, keeps its lease.
Lost(r) == [Terminal!Forgotten(r) EXCEPT !.stage = "lost", !.handle = "seen"]

LEMMA Losing ==
  ASSUME NEW r, NEW held \in BOOLEAN, NEW blocked \in BOOLEAN, RecordInv(r, held, blocked), NEW stuck \in BOOLEAN,
         r.stage \notin {"none", "lost"}, NEW s, s = Lost(r)
  PROVE  RecordInv(s, held, stuck) /\ s.home = r.home
<1> DEFINE f == Terminal!Forgotten(r)
<1>1. r \in CommandRecords
  BY DEF RecordInv
<1>2. /\ f \in CommandRecords /\ f.home = r.home /\ f.kind = "host" /\ f.worker = r.worker /\ f.running = r.running
      /\ f.ran = r.ran /\ f.events = r.events /\ f.finished = r.finished /\ f.term = "none" /\ f.protocol = FALSE
  BY <1>1, Forgetting
<1>3. s = [f EXCEPT !.stage = "lost", !.handle = "seen"]
  BY DEF Lost
<1> HIDE DEF f
<1>4. s \in CommandRecords
  BY <1>2, <1>3 DEF CommandRecords, Terminal!Stages
<1>5. /\ s.home = f.home /\ s.kind = f.kind /\ s.worker = f.worker /\ s.running = f.running /\ s.ran = f.ran
      /\ s.events = f.events /\ s.finished = f.finished /\ s.term = f.term /\ s.stage = "lost"
  BY <1>2, <1>3 DEF CommandRecords
<1>6. TruthInv(s) /\ HandleInv(s)
  BY <1>2, <1>5 DEF RecordInv, TruthInv, HandleInv, Early, Launched, Ended
<1>7. r.worker \in {"booting", "executing"} => r.stage \in {"supervised", "lost"}
  BY <1>1 DEF RecordInv, CommandRecords, Terminal!Stages, TruthInv, HandleInv, Early
<1>8. Loose(s) => held /\ ~Terminal!NotStarted(s.events, s.finished)
  <2>1. CASE r.running
    BY <1>2, <1>5, <2>1 DEF RecordInv, LeaseInv, Loose
  <2>2. CASE ~r.running
    BY <1>2, <1>5, <1>7, <2>2 DEF RecordInv, LeaseInv, Loose, Terminal!NotStarted
  <2>3. QED
    BY <2>1, <2>2
<1>9. LeaseInv(s, held, stuck)
  BY <1>5, <1>8 DEF LeaseInv
<1>10. QED
  BY <1>2, <1>4, <1>5, <1>6, <1>9 DEF RecordInv

LEMMA ProcessDiesStep ==
  ASSUME CommandsInv, NEW p \in Processes, Terminal!Crash(p)
  PROVE  CommandsInv'
<1>1. cmd' = [c \in Threads |->
        IF c \in Terminal!Mine(p) THEN Lost(cmd[c]) ELSE cmd[c]]
  BY DEF Terminal!Crash, Lost
<1>2. reason' = [reason EXCEPT ![p] = FALSE] /\ UNCHANGED leases
  BY DEF Terminal!Crash, Terminal!disk
<1>3. DOMAIN cmd' = Threads /\ cmd' = [c \in Threads |-> cmd'[c]]
  BY <1>1
<1>4. reason' \in [Processes -> BOOLEAN]
  BY <1>2 DEF CommandsInv
<1>5. ASSUME NEW c \in Threads
      PROVE  RecordInv(cmd'[c], c \in leases, reason'[cmd'[c].home])
  <2>1. /\ RecordInv(cmd[c], c \in leases, reason[cmd[c].home]) /\ cmd[c].home \in Processes
        /\ reason[cmd[c].home] \in BOOLEAN /\ (c \in leases) \in BOOLEAN /\ reason'[cmd[c].home] \in BOOLEAN
    BY <1>4, HomeOf
  <2>2. CASE c \in Terminal!Mine(p)
    <3>1. cmd'[c] = Lost(cmd[c])
      BY <1>1, <2>2
    <3>2. PICK held \in BOOLEAN, blocked \in BOOLEAN, stuck \in BOOLEAN :
            held = (c \in leases) /\ stuck = reason'[cmd[c].home] /\ RecordInv(cmd[c], held, blocked)
      BY <2>1
    <3>3. cmd[c].stage \notin {"none", "lost"}
      BY <2>2 DEF Terminal!Mine
    <3>4. RecordInv(cmd'[c], held, stuck) /\ cmd'[c].home = cmd[c].home
      <4>1. RecordInv(cmd[c], held, blocked)
        BY <3>2
      <4>2. QED
        BY <3>1, <3>3, <4>1, Losing, Zenon
    <3>5. QED
      BY <3>2, <3>4
  <2>3. CASE c \notin Terminal!Mine(p)
    <3>1. cmd'[c] = cmd[c]
      BY <1>1, <2>3
    <3>2. CASE cmd[c].home = p
      <4>1. cmd[c].stage \in {"none", "lost"}
        BY <2>3, <3>2 DEF Terminal!Mine, Terminal!Home
      <4>2. LeaseInv(cmd[c], c \in leases, reason'[cmd[c].home])
        BY <2>1, <4>1 DEF RecordInv, LeaseInv
      <4>3. QED
        BY <2>1, <3>1, <4>2 DEF RecordInv
    <3>3. CASE cmd[c].home # p
      BY <1>2, <2>1, <3>1, <3>3 DEF CommandsInv
    <3>4. QED
      BY <3>2, <3>3
  <2>4. QED
    BY <2>2, <2>3
<1>6. QED
  BY <1>2, <1>3, <1>4, <1>5 DEF CommandsInv

LEMMA RecoverStep ==
  ASSUME CommandsInv, Terminal!Recover
  PROVE  CommandsInv'
<1>1. leases' = leases \ Terminal!Evident /\ UNCHANGED <<cmd, reason>>
  BY DEF Terminal!Recover
<1>2. leases' \subseteq Threads
  BY <1>1 DEF CommandsInv
<1>3. QED
  BY <1>1, <1>2, Unevident DEF CommandsInv

LEMMA InitCommands == Processes # {} /\ Terminal!Init => CommandsInv
<1> SUFFICES ASSUME Processes # {}, Terminal!Init PROVE CommandsInv
  OBVIOUS
<1>1. cmd = [c \in Threads |-> Terminal!NewCommand] /\ leases = {} /\ reason = [p \in Processes |-> FALSE]
  BY DEF Terminal!Init
<1>2. (CHOOSE p \in Processes : TRUE) \in Processes
  OBVIOUS
<1>3. Terminal!NewCommand \in CommandRecords
  BY <1>2 DEF Terminal!NewCommand, CommandRecords, Terminal!Stages, Terminal!Kinds
<1>4. TruthInv(Terminal!NewCommand) /\ HandleInv(Terminal!NewCommand)
  BY DEF Terminal!NewCommand, TruthInv, HandleInv, Early, Launched, Ended
<1>5. \A held, blocked : LeaseInv(Terminal!NewCommand, held, blocked)
  BY DEF Terminal!NewCommand, LeaseInv, Loose
<1>6. QED
  BY <1>1, <1>3, <1>4, <1>5 DEF CommandsInv, RecordInv

LEMMA NextCommands == CommandsInv /\ [Terminal!Next]_(Terminal!vars) => CommandsInv'
<1> SUFFICES ASSUME CommandsInv, [Terminal!Next]_(Terminal!vars) PROVE CommandsInv'
  OBVIOUS
<1>1. ASSUME NEW c \in Threads, Terminal!Begin(c) \/ Terminal!Work(c) \/ Terminal!Supervise(c) \/ Terminal!Poll(c)
          \/ Terminal!CancelCommand(c)
      PROVE  CommandsInv'
  <2>1. CASE Terminal!Begin(c)
    BY <2>1, DenyStep, ApproveStep, PrepareStep, PrepareFailsStep, LaunchCommandStep DEF Terminal!Begin
  <2>2. CASE Terminal!Work(c)
    BY <2>2, SendStep, InitializationFailsStep, StartTargetStep, RefuseTargetStep, EndTargetStep, LoseTargetStep,
       ExitWorkerStep, TerminateJobStep, WorkerDiesStep, StartOrphanStep, EndOrphanStep DEF Terminal!Work
  <2>3. CASE Terminal!Supervise(c)
    BY <2>3, PassDeadlineStep, GarbleReportStep, ForceStopStep, KillStep, CleanUpStep, RecordStep, FinishLeaseStep
       DEF Terminal!Supervise
  <2>4. QED
    BY <1>1, <2>1, <2>2, <2>3, PollStep, CancelCommandStep
<1>2. ASSUME NEW p \in Processes, Terminal!StartTurn(p) \/ Terminal!Restart(p)
      PROVE  CommandsInv'
  BY <1>2 DEF Terminal!StartTurn, Terminal!Restart, Terminal!disk, CommandsInv
<1>3. ASSUME NEW p \in Processes, Terminal!AbortTurn(p) \/ Terminal!CompleteTurn(p) \/ Terminal!PauseTurn(p)
          \/ Terminal!Crash(p) \/ Terminal!Inspect(p)
      PROVE  CommandsInv'
  BY <1>3, AbortTurnStep, EndTurnStep, ProcessDiesStep, InspectStep DEF Terminal!CompleteTurn, Terminal!PauseTurn
<1>4. CASE Terminal!RecoveryDies
  BY <1>4 DEF Terminal!RecoveryDies, CommandsInv
<1>5. CASE UNCHANGED Terminal!vars
  BY <1>5 DEF Terminal!vars, Terminal!disk, CommandsInv
<1>6. QED
  BY <1>1, <1>2, <1>3, <1>4, <1>5, RequestStep, RecoverStep DEF Terminal!Next

LEMMA BlockedFromInv == CommandsInv => Terminal!UnknownIsBlocked
<1> SUFFICES ASSUME CommandsInv, NEW c \in Threads, cmd[c].running, cmd[c].stage \in {"closed", "lost"}, NEW p \in up
             PROVE  Terminal!Unsafe(p, leases \ Terminal!Evident, reason)
  BY DEF Terminal!UnknownIsBlocked
<1>1. c \in leases \ Terminal!Evident
  BY Unevident
<1>2. cmd[c].stage = "closed" => reason[cmd[c].home]
  BY HomeOf DEF RecordInv, LeaseInv
<1>3. CASE cmd[c].home = p /\ cmd[c].stage = "closed"
  BY <1>2, <1>3 DEF Terminal!Unsafe
<1>4. CASE cmd[c].home # p \/ cmd[c].stage = "lost"
  BY <1>1, <1>4 DEF Terminal!Unsafe, Terminal!Foreign, Terminal!Home, Terminal!At
<1>5. QED
  BY <1>3, <1>4

LEMMA TruthFromInv == CommandsInv => Terminal!ReportIsTrue
  BY HomeOf DEF Terminal!ReportIsTrue, RecordInv, TruthInv, Terminal!At

LEMMA SeenFromInv ==
  CommandsInv => \A p \in Processes : Terminal!CompleteTurn(p) =>
    \A c \in Terminal!Mine(p) : Terminal!At(c, "closed") /\ cmd[c].handle # "open" /\ cmd[c].worker \in {"none", "gone"}
<1> SUFFICES ASSUME CommandsInv, NEW p \in Processes, Terminal!CompleteTurn(p), NEW c \in Terminal!Mine(p)
             PROVE  Terminal!At(c, "closed") /\ cmd[c].handle # "open" /\ cmd[c].worker \in {"none", "gone"}
  OBVIOUS
<1>1. c \in Threads /\ cmd[c].stage # "lost"
  BY DEF Terminal!Mine
<1>2. cmd[c].handle # "open" /\ ~Terminal!InCall(c)
  BY DEF Terminal!CompleteTurn, Terminal!OpenHandles
<1>3. RecordInv(cmd[c], c \in leases, reason[cmd[c].home]) /\ cmd[c] \in CommandRecords
  BY <1>1, HomeOf
<1>4. cmd[c].stage = "closed"
  BY <1>1, <1>2, <1>3 DEF Terminal!InCall, Terminal!At, RecordInv, HandleInv, CommandRecords
<1>5. QED
  BY <1>2, <1>3, <1>4 DEF Terminal!At, RecordInv, HandleInv

-----------------------------------------------------------------------------
(* The Web interface *)

WebConstants == None \notin Threads /\ None \notin Pages

States == [busy : BOOLEAN, decision : Nat]
Patches == {"append", "delta", "reset", "state"}
Messages == [kind : Patches \cup {"snapshot", "status"}, thread : Threads \cup {None}, gen : Nat, seq : Nat,
             entries : Seq(Nat), state : States]
Hosts == [open : BOOLEAN, gen : Nat, seq : Nat, running : BOOLEAN, entries : Seq(Nat), asked : Seq(Nat)]
Copies == [thread : Threads \cup {None}, gen : Nat, seq : Nat, entries : Seq(Nat), state : States,
           stream : Seq(Messages), begun : BOOLEAN, connected : BOOLEAN, wants : BOOLEAN,
           replies : SUBSET Messages, passed : [Threads -> Nat], late : BOOLEAN]

-----------------------------------------------------------------------------
(* What a conversation and a page show *)

Shows == [entries : Seq(Nat), state : States]
View(c) == [entries |-> c.entries, state |-> c.state]
HostView(h) == [entries |-> h.entries, state |-> Web!State(h)]

\* What a patch makes of it.
After(v, m) ==
  [entries |-> CASE m.kind = "append" -> Append(v.entries, 0)
                 [] m.kind = "delta" -> IF v.entries = <<>> THEN <<>>
                                        ELSE [v.entries EXCEPT ![Len(v.entries)] = @ + 1]
                 [] m.kind = "reset" -> m.entries
                 [] m.kind = "state" -> v.entries,
   state |-> IF m.kind = "state" THEN m.state ELSE v.state]

\* A message tells of conversation t as it was opened last.
Of(m, t, h) == m.thread = t /\ m.gen = h.gen
PatchOf(m, t, h) == m.kind \in Patches /\ Of(m, t, h)
Has(c, t, h, n) == \E i \in DOMAIN c.stream : PatchOf(c.stream[i], t, h) /\ c.stream[i].seq = n
\* The stream has been opened and nothing of it read.
Opening(c) == c.stream # <<>> /\ c.stream[1].kind = "snapshot"

NotAhead(m, t, h) == m.thread = t => m.gen <= h.gen /\ (m.gen = h.gen => m.seq <= h.seq)
Bounds(c, t, h) ==
  /\ c.passed[t] <= h.seq /\ (~c.late => NotAhead(c, t, h))
  /\ \A i \in DOMAIN c.stream : NotAhead(c.stream[i], t, h)
  /\ \A m \in c.replies : NotAhead(m, t, h)

\* Every change of a conversation is on its way to a page, or has passed it; those that follow what the page shows are
\* on their way.
Coming(c, t, h) ==
  /\ \A n \in 1 .. h.seq : n <= c.passed[t] \/ Has(c, t, h, n)
  /\ \A i, j \in DOMAIN c.stream : i < j /\ PatchOf(c.stream[i], t, h) /\ PatchOf(c.stream[j], t, h) =>
       c.stream[i].seq < c.stream[j].seq
  /\ Opening(c) /\ c.stream[1].thread = t =>
       \A n \in 1 .. h.seq : (Of(c.stream[1], t, h) /\ n <= c.stream[1].seq) \/ Has(c, t, h, n)
Follows(c, t, h) ==
  c.connected /\ Of(c, t, h) /\ ~c.late /\ ~Opening(c) => \A n \in (c.seq + 1) .. h.seq : Has(c, t, h, n)
Cover(c, t, h) == Coming(c, t, h) /\ Follows(c, t, h)

\* Snapshots, patches and pages agree on what the conversation showed at each number of its changes.
Traced(H, c, t, h) ==
  /\ H \in [Nat -> Shows] /\ H[h.seq] = HostView(h)
  /\ \A i \in DOMAIN c.stream : LET m == c.stream[i]
                                IN  /\ PatchOf(m, t, h) => m.seq > 0 /\ H[m.seq] = After(H[m.seq - 1], m)
                                    /\ m.kind = "snapshot" /\ Of(m, t, h) => H[m.seq] = View(m)
  /\ \A m \in c.replies : Of(m, t, h) => H[m.seq] = View(m)
  /\ Of(c, t, h) /\ ~c.late => H[c.seq] = View(c)

Linked(c, t, h) == Bounds(c, t, h) /\ (h.open => Cover(c, t, h) /\ \E H : Traced(H, c, t, h))

Shaped(c) ==
  /\ ~c.connected => c.stream = <<>>
  /\ \A i \in DOMAIN c.stream : c.stream[i].kind = "snapshot" => i = 1
  /\ \A m \in c.replies : m.kind = "snapshot"

Together(pages, hosts) ==
  /\ hosts \in [Threads -> Hosts] /\ pages \in [Pages -> Copies]
  /\ \A p \in Pages : Shaped(pages[p]) /\ \A t \in Threads : Linked(pages[p], t, hosts[t])

WebInv ==
  /\ current \in Threads \cup {None} /\ changes \in Nat
  /\ moving \in [what : {"nothing", "open", "edit"}, thread : Threads \cup {None}, by : Pages \cup {None}]
  /\ moving.what = "open" => moving.thread \in Threads
  /\ Together(page, host)

-----------------------------------------------------------------------------
(* Numbers *)

\* A nonempty set of numbers has a least one.
LEMMA LeastOfSome ==
  ASSUME NEW S, S \subseteq Nat, S # {}
  PROVE  \E x \in S : \A y \in S : x <= y
BY MinOfSome

\* A nonempty set of numbers up to a bound has a greatest one.
LEMMA GreatestOfSome ==
  ASSUME NEW L \in Nat, NEW S, S \subseteq 0 .. L, S # {}
  PROVE  \E x \in S : \A y \in S : y <= x
<1> DEFINE T == {n \in 0 .. L : L - n \in S}
<1>1. T \subseteq Nat /\ T # {}
  <2>1. PICK x \in S : TRUE
    OBVIOUS
  <2>2. x \in 0 .. L /\ L - x \in 0 .. L /\ L - (L - x) = x
    OBVIOUS
  <2>3. L - x \in T
    BY <2>1, <2>2
  <2>4. T \subseteq Nat
    OBVIOUS
  <2> HIDE DEF T
  <2>5. QED
    BY <2>3, <2>4
<1>2. PICK n \in T : \A k \in T : n <= k
  <2> HIDE DEF T
  <2>1. QED
    BY <1>1, LeastOfSome
<1>3. \A y \in S : y <= L - n
  <2> SUFFICES ASSUME NEW y \in S PROVE y <= L - n
    OBVIOUS
  <2>1. y \in 0 .. L /\ L - y \in 0 .. L /\ L - (L - y) = y
    OBVIOUS
  <2>2. L - y \in T
    BY <2>1
  <2>3. QED
    BY <1>2, <2>1, <2>2
<1>4. QED
  BY <1>2, <1>3

-----------------------------------------------------------------------------
(* What a page was notified of *)

\* The messages of S that tell of conversation t are among the first n changes.
Within(S, t, n) == \A m \in S : m.thread = t /\ m.gen = host[t].gen => m.seq <= n

LEMMA ToldIs ==
  ASSUME NEW c \in Copies, NEW S \in SUBSET Messages,
         \A t \in Threads : \E n \in Nat : c.passed[t] <= n /\ Within(S, t, n)
  PROVE  /\ Web!Told(c, S) = [c EXCEPT !.passed = Web!Told(c, S).passed]
         /\ Web!Told(c, S).passed \in [Threads -> Nat]
         /\ \A t \in Threads :
              /\ c.passed[t] <= Web!Told(c, S).passed[t] /\ Within(S, t, Web!Told(c, S).passed[t])
              /\ \/ Web!Told(c, S).passed[t] = c.passed[t]
                 \/ \E m \in S : m.thread = t /\ m.gen = host[t].gen /\ Web!Told(c, S).passed[t] = m.seq
<1> DEFINE Seqs(t) == {c.passed[t]} \cup {m.seq : m \in {n \in S : n.thread = t /\ n.gen = host[t].gen}}
           f == [t \in Threads |-> Web!Max(Seqs(t))]
<1>1. Web!Told(c, S) = [c EXCEPT !.passed = f]
  BY DEF Web!Told
<1>2. c.passed \in [Threads -> Nat] /\ \A m \in S : m.seq \in Nat
  BY DEF Copies, Messages
<1>3. ASSUME NEW t \in Threads
      PROVE  Web!Max(Seqs(t)) \in Seqs(t) /\ \A y \in Seqs(t) : y <= Web!Max(Seqs(t))
  <2>1. PICK n \in Nat : c.passed[t] <= n /\ Within(S, t, n)
    OBVIOUS
  <2>2. Seqs(t) \subseteq 0 .. n /\ Seqs(t) # {}
    BY <1>2, <2>1 DEF Within
  <2> HIDE DEF Seqs
  <2>3. \E x \in Seqs(t) : \A y \in Seqs(t) : y <= x
    BY <2>2, GreatestOfSome
  <2>4. \A y \in Seqs(t) : y \in Nat
    BY <2>2
  <2>5. \E x \in Seqs(t) : \A y \in Seqs(t) : x >= y
    BY <2>3, <2>4
  <2>6. Web!Max(Seqs(t)) \in Seqs(t) /\ \A y \in Seqs(t) : Web!Max(Seqs(t)) >= y
    BY <2>5 DEF Web!Max
  <2>7. QED
    BY <2>4, <2>6
<1>4. \A t \in Threads : Seqs(t) \subseteq Nat
  BY <1>2
<1>5. Web!Told(c, S).passed = f
  BY <1>1 DEF Copies
<1>6. ASSUME NEW t \in Threads
      PROVE  /\ c.passed[t] <= f[t] /\ Within(S, t, f[t])
             /\ f[t] = c.passed[t] \/ \E m \in S : m.thread = t /\ m.gen = host[t].gen /\ f[t] = m.seq
  <2>1. f[t] = Web!Max(Seqs(t))
    OBVIOUS
  <2>2. c.passed[t] \in Seqs(t) /\ \A m \in S : m.thread = t /\ m.gen = host[t].gen => m.seq \in Seqs(t)
    OBVIOUS
  <2>3. \A y \in Seqs(t) : y = c.passed[t] \/ \E m \in S : m.thread = t /\ m.gen = host[t].gen /\ y = m.seq
    OBVIOUS
  <2> HIDE DEF Seqs, f
  <2>4. QED
    BY <1>3, <2>1, <2>2, <2>3 DEF Within
<1>7. f \in [Threads -> Nat]
  <2> HIDE DEF Seqs
  <2>1. QED
    BY <1>3, <1>4
<1> HIDE DEF f
<1>8. QED
  BY <1>1, <1>5, <1>6, <1>7

-----------------------------------------------------------------------------
(* What is sent *)

\* Copies that differ in nothing Linked speaks of.
Alike(c, d) ==
  /\ d.thread = c.thread /\ d.gen = c.gen /\ d.seq = c.seq /\ d.entries = c.entries /\ d.state = c.state
  /\ d.stream = c.stream /\ d.connected = c.connected /\ d.replies = c.replies /\ d.passed = c.passed
  /\ d.late = c.late

LEMMA AlikeLinked ==
  ASSUME NEW c, NEW d, Alike(c, d), Shaped(c)
  PROVE  Shaped(d) /\ \A t, h : Linked(c, t, h) => Linked(d, t, h)
<1>1. Shaped(d)
  BY DEF Alike, Shaped
<1>2. ASSUME NEW t, NEW h, Linked(c, t, h)
      PROVE  Linked(d, t, h)
  <2>1. Bounds(d, t, h)
    BY <1>2 DEF Linked, Alike, Bounds, NotAhead
  <2>2. h.open => Cover(d, t, h)
    BY <1>2 DEF Linked, Alike, Cover, Coming, Follows, Has, Of, Opening
  <2>3. ASSUME NEW H, Traced(H, c, t, h)
        PROVE  Traced(H, d, t, h)
    BY <2>3 DEF Alike, Traced, Of, View
  <2>4. QED
    BY <1>2, <2>1, <2>2, <2>3 DEF Linked
<1>3. QED
  BY <1>1, <1>2

\* A page that gets one message more.
Grows(c, d, m) ==
  /\ d.thread = c.thread /\ d.gen = c.gen /\ d.seq = c.seq /\ d.entries = c.entries /\ d.state = c.state
  /\ d.connected = c.connected /\ d.replies = c.replies /\ d.late = c.late
  /\ d.passed = c.passed /\ d.stream = Append(c.stream, m)

LEMMA Longer ==
  ASSUME NEW c \in Copies, NEW m \in Messages, NEW d, Grows(c, d, m), m.kind # "snapshot"
  PROVE  /\ DOMAIN d.stream = 1 .. Len(c.stream) + 1 /\ DOMAIN c.stream = 1 .. Len(c.stream)
         /\ \A i \in 1 .. Len(c.stream) : d.stream[i] = c.stream[i]
         /\ d.stream[Len(c.stream) + 1] = m /\ Len(c.stream) \in Nat
         /\ Opening(d) <=> Opening(c)
<1>1. c.stream \in Seq(Messages)
  BY DEF Copies
<1>2. /\ DOMAIN d.stream = 1 .. Len(c.stream) + 1 /\ DOMAIN c.stream = 1 .. Len(c.stream)
      /\ \A i \in 1 .. Len(c.stream) : d.stream[i] = c.stream[i]
      /\ d.stream[Len(c.stream) + 1] = m /\ Len(c.stream) \in Nat
  BY <1>1 DEF Grows
<1>3. d.stream # <<>>
  BY <1>2
<1>4. CASE c.stream = <<>>
  BY <1>2, <1>3, <1>4 DEF Opening
<1>5. CASE c.stream # <<>>
  <2>1. 1 \in 1 .. Len(c.stream)
    BY <1>1, <1>5
  <2>2. QED
    BY <1>2, <1>3, <1>5, <2>1 DEF Opening
<1>6. QED
  BY <1>2, <1>4, <1>5

LEMMA GrowsShaped ==
  ASSUME NEW c \in Copies, NEW m \in Messages, NEW d, Grows(c, d, m), m.kind # "snapshot", Shaped(c), c.connected
  PROVE  Shaped(d)
BY Longer DEF Shaped, Grows

LEMMA HasGrows ==
  ASSUME NEW c \in Copies, NEW m \in Messages, NEW d, Grows(c, d, m), m.kind # "snapshot", NEW t, NEW h
  PROVE  /\ \A n : Has(c, t, h, n) => Has(d, t, h, n)
         /\ PatchOf(m, t, h) => Has(d, t, h, m.seq)
BY Longer DEF Has

\* A message that is no change of conversation t.
LEMMA ElsewhereSent ==
  ASSUME NEW c \in Copies, NEW m \in Messages, NEW d, Grows(c, d, m), m.kind # "snapshot",
         NEW t \in Threads, NEW h \in Hosts, m.thread # t \/ (m.kind = "status" /\ NotAhead(m, t, h)), Linked(c, t, h)
  PROVE  Linked(d, t, h)
<1> DEFINE L == Len(c.stream)
<1>1. /\ DOMAIN d.stream = 1 .. L + 1 /\ DOMAIN c.stream = 1 .. L /\ L \in Nat
      /\ \A i \in 1 .. L : d.stream[i] = c.stream[i]
      /\ d.stream[L + 1] = m
      /\ Opening(d) <=> Opening(c)
  BY Longer
<1>2. ~PatchOf(m, t, h) /\ NotAhead(m, t, h)
  BY DEF PatchOf, Of, Patches, NotAhead
<1>3. Opening(d) => d.stream[1] = c.stream[1]
  <2>1. Opening(c) => 1 \in 1 .. L
    BY <1>1 DEF Opening, Copies
  <2>2. QED
    BY <1>1, <2>1
<1> HIDE DEF L
<1>4. Bounds(d, t, h)
  <2>1. \A i \in DOMAIN d.stream : NotAhead(d.stream[i], t, h)
    BY <1>1, <1>2 DEF Linked, Bounds
  <2>2. QED
    BY <2>1 DEF Linked, Bounds, Grows, NotAhead
<1>5. ASSUME h.open
      PROVE  Cover(d, t, h)
  <2>0. Cover(c, t, h)
    BY <1>5 DEF Linked
  <2>1. \A n : Has(c, t, h, n) => Has(d, t, h, n)
    BY HasGrows
  <2>2. \A n \in 1 .. h.seq : n <= d.passed[t] \/ Has(d, t, h, n)
    BY <2>0, <2>1 DEF Cover, Coming, Follows, Grows
  <2>3. \A i, j \in DOMAIN d.stream : i < j /\ PatchOf(d.stream[i], t, h) /\ PatchOf(d.stream[j], t, h) =>
          d.stream[i].seq < d.stream[j].seq
    <3>1. \A i \in DOMAIN d.stream : PatchOf(d.stream[i], t, h) =>
            i \in DOMAIN c.stream /\ d.stream[i] = c.stream[i]
      BY <1>1, <1>2
    <3>2. QED
      BY <2>0, <3>1 DEF Cover, Coming, Follows
  <2>4. Opening(d) /\ d.stream[1].thread = t =>
          \A n \in 1 .. h.seq : (Of(d.stream[1], t, h) /\ n <= d.stream[1].seq) \/ Has(d, t, h, n)
    BY <1>1, <1>3, <2>0, <2>1 DEF Cover, Coming, Follows
  <2>5. d.connected /\ Of(d, t, h) /\ ~d.late /\ ~Opening(d) => \A n \in (d.seq + 1) .. h.seq : Has(d, t, h, n)
    BY <1>1, <2>0, <2>1 DEF Cover, Coming, Follows, Grows, Of
  <2>6. QED
    BY <2>2, <2>3, <2>4, <2>5 DEF Cover, Coming, Follows
<1>6. ASSUME NEW H, Traced(H, c, t, h)
      PROVE  Traced(H, d, t, h)
  <2>1. ASSUME NEW i \in DOMAIN d.stream
        PROVE  /\ PatchOf(d.stream[i], t, h) =>
                    d.stream[i].seq > 0 /\ H[d.stream[i].seq] = After(H[d.stream[i].seq - 1], d.stream[i])
               /\ d.stream[i].kind = "snapshot" /\ Of(d.stream[i], t, h) => H[d.stream[i].seq] = View(d.stream[i])
    <3>1. CASE i \in 1 .. L
      BY <1>1, <1>6, <3>1 DEF Traced
    <3>2. CASE i = L + 1
      BY <1>1, <1>2, <3>2
    <3>3. QED
      BY <1>1, <2>1, <3>1, <3>2
  <2>2. QED
    BY <1>6, <2>1 DEF Traced, Grows, Of, View
<1>7. QED
  BY <1>4, <1>5, <1>6 DEF Linked

\* The next change of conversation t, on its way to a page with a stream.
LEMMA ChangeSent ==
  ASSUME NEW c \in Copies, NEW m \in Messages, NEW d, Grows(c, d, m), c.connected,
         NEW t \in Threads, NEW h \in Hosts, NEW g \in Hosts, h.open, Linked(c, t, h),
         m.kind \in Patches, m.thread = t, m.gen = h.gen, m.seq = h.seq + 1,
         g.gen = h.gen, g.seq = h.seq + 1, HostView(g) \in Shows, HostView(g) = After(HostView(h), m)
  PROVE  Linked(d, t, g)
<1> DEFINE L == Len(c.stream)
<1>0. m.kind # "snapshot" /\ h.seq \in Nat /\ h.gen \in Nat /\ c.seq \in Nat
  BY DEF Patches, Hosts, Copies
<1>1. /\ DOMAIN d.stream = 1 .. L + 1 /\ DOMAIN c.stream = 1 .. L /\ L \in Nat
      /\ \A i \in 1 .. L : d.stream[i] = c.stream[i]
      /\ d.stream[L + 1] = m
      /\ Opening(d) <=> Opening(c)
  BY <1>0, Longer
<1>2. Bounds(c, t, h) /\ Cover(c, t, h)
  BY DEF Linked
<1>3. Opening(d) => d.stream[1] = c.stream[1]
  <2>1. Opening(c) => 1 \in 1 .. L
    BY <1>1 DEF Opening, Copies
  <2>2. QED
    BY <1>1, <2>1
<1>4. \A x : (Of(x, t, g) <=> Of(x, t, h)) /\ (PatchOf(x, t, g) <=> PatchOf(x, t, h))
  BY DEF Of, PatchOf
<1>5. PatchOf(m, t, h)
  BY DEF PatchOf, Of
<1>6. /\ c.passed[t] \in Nat /\ \A i \in 1 .. L : c.stream[i] \in Messages
  BY <1>1 DEF Copies
<1>7. \A x : x.seq \in Nat /\ NotAhead(x, t, h) => NotAhead(x, t, g)
  BY <1>0 DEF NotAhead
<1> HIDE DEF L
<1>8. Bounds(d, t, g)
  <2>1. ASSUME NEW i \in DOMAIN d.stream
        PROVE  NotAhead(d.stream[i], t, g)
    <3>1. CASE i \in 1 .. L
      <4>1. NotAhead(c.stream[i], t, h) /\ c.stream[i].seq \in Nat
        BY <1>1, <1>2, <1>6, <3>1 DEF Bounds, Messages
      <4>2. QED
        BY <1>1, <1>7, <3>1, <4>1
    <3>2. CASE i = L + 1
      BY <1>0, <1>1, <3>2 DEF NotAhead
    <3>3. QED
      BY <1>1, <2>1, <3>1, <3>2
  <2>2. \A x \in c.replies : NotAhead(x, t, g)
    <3>1. \A x \in c.replies : x.seq \in Nat
      BY DEF Copies, Messages
    <3>2. QED
      BY <1>2, <1>7, <3>1 DEF Bounds
  <2>3. ~c.late => NotAhead(c, t, g)
    BY <1>0, <1>2, <1>7 DEF Bounds
  <2>4. c.passed[t] <= g.seq
    BY <1>0, <1>2, <1>6 DEF Bounds
  <2>5. QED
    BY <2>1, <2>2, <2>3, <2>4 DEF Bounds, Grows, NotAhead
<1>9. Cover(d, t, g)
  <2>1. (\A n : Has(c, t, h, n) => Has(d, t, g, n)) /\ Has(d, t, g, g.seq)
    <3>1. (\A n : Has(c, t, h, n) => Has(d, t, h, n)) /\ Has(d, t, h, m.seq)
      BY <1>0, <1>5, HasGrows
    <3>2. \A n : Has(d, t, h, n) <=> Has(d, t, g, n)
      BY <1>4 DEF Has
    <3>3. QED
      BY <3>1, <3>2
  <2>2. \A n \in 1 .. g.seq : n \in 1 .. h.seq \/ n = g.seq
    BY <1>0
  <2>3. \A n \in 1 .. g.seq : n <= d.passed[t] \/ Has(d, t, g, n)
    BY <1>2, <2>1, <2>2 DEF Cover, Coming, Follows, Grows
  <2>4. ASSUME NEW i \in DOMAIN d.stream, NEW j \in DOMAIN d.stream, i < j,
               PatchOf(d.stream[i], t, g), PatchOf(d.stream[j], t, g)
        PROVE  d.stream[i].seq < d.stream[j].seq
    <3>1. i \in 1 .. L
      BY <1>1, <2>4
    <3>2. CASE j \in 1 .. L
      <4>1. d.stream[i] = c.stream[i] /\ d.stream[j] = c.stream[j] /\ i \in DOMAIN c.stream /\ j \in DOMAIN c.stream
        BY <1>1, <3>1, <3>2
      <4>2. PatchOf(c.stream[i], t, h) /\ PatchOf(c.stream[j], t, h)
        BY <1>4, <2>4, <4>1
      <4>3. QED
        BY <1>2, <2>4, <4>1, <4>2 DEF Cover, Coming, Follows
    <3>3. CASE j = L + 1
      <4>1. NotAhead(c.stream[i], t, h) /\ PatchOf(c.stream[i], t, h) /\ c.stream[i].seq \in Nat
        BY <1>1, <1>2, <1>4, <1>6, <2>4, <3>1 DEF Bounds, Messages
      <4>2. c.stream[i].seq <= h.seq
        BY <4>1 DEF NotAhead, PatchOf, Of
      <4>3. d.stream[i] = c.stream[i] /\ d.stream[j] = m /\ m.seq = h.seq + 1
        BY <1>1, <3>1, <3>3
      <4>4. QED
        BY <1>0, <4>1, <4>2, <4>3
    <3>4. QED
      BY <1>1, <2>4, <3>2, <3>3
  <2>5. Opening(d) /\ d.stream[1].thread = t =>
          \A n \in 1 .. g.seq : (Of(d.stream[1], t, g) /\ n <= d.stream[1].seq) \/ Has(d, t, g, n)
    BY <1>1, <1>2, <1>3, <1>4, <2>1, <2>2 DEF Cover, Coming, Follows
  <2>6. d.connected /\ Of(d, t, g) /\ ~d.late /\ ~Opening(d) => \A n \in (d.seq + 1) .. g.seq : Has(d, t, g, n)
    <3>1. \A n \in (c.seq + 1) .. g.seq : n \in (c.seq + 1) .. h.seq \/ n = g.seq
      BY <1>0
    <3>2. Of(d, t, g) => Of(c, t, h)
      BY <1>4 DEF Grows, Of
    <3>3. QED
      BY <1>1, <1>2, <2>1, <3>1, <3>2 DEF Cover, Coming, Follows, Grows
  <2>7. QED
    BY <2>3, <2>4, <2>5, <2>6 DEF Cover, Coming, Follows
<1>10. ASSUME NEW H, Traced(H, c, t, h)
       PROVE  \E G : Traced(G, d, t, g)
  <2> DEFINE G == [H EXCEPT ![g.seq] = HostView(g)]
  <2>1. G \in [Nat -> Shows] /\ G[g.seq] = HostView(g) /\ \A n \in 0 .. h.seq : G[n] = H[n]
    BY <1>0, <1>10 DEF Traced
  <2>2. H[h.seq] = HostView(h)
    BY <1>10 DEF Traced
  <2> HIDE DEF G
  <2>3. ASSUME NEW i \in DOMAIN d.stream
        PROVE  /\ PatchOf(d.stream[i], t, g) =>
                    d.stream[i].seq > 0 /\ G[d.stream[i].seq] = After(G[d.stream[i].seq - 1], d.stream[i])
               /\ d.stream[i].kind = "snapshot" /\ Of(d.stream[i], t, g) => G[d.stream[i].seq] = View(d.stream[i])
    <3>1. CASE i \in 1 .. L
      <4> DEFINE x == c.stream[i]
      <4>1. d.stream[i] = x /\ x \in Messages /\ x.seq \in Nat /\ NotAhead(x, t, h)
        BY <1>1, <1>2, <1>6, <3>1 DEF Bounds, Messages
      <4>2. Of(x, t, h) => x.seq \in 0 .. h.seq /\ (x.seq > 0 => x.seq - 1 \in 0 .. h.seq)
        BY <1>0, <4>1 DEF NotAhead, Of
      <4>3. /\ PatchOf(x, t, h) => x.seq > 0 /\ H[x.seq] = After(H[x.seq - 1], x)
            /\ x.kind = "snapshot" /\ Of(x, t, h) => H[x.seq] = View(x)
        BY <1>1, <1>10, <3>1 DEF Traced
      <4>4. PatchOf(x, t, h) => Of(x, t, h)
        BY DEF PatchOf
      <4> HIDE DEF x
      <4>5. QED
        BY <1>4, <2>1, <4>1, <4>2, <4>3, <4>4
    <3>2. CASE i = L + 1
      <4>1. h.seq \in 0 .. h.seq /\ g.seq - 1 = h.seq
        BY <1>0
      <4>2. G[g.seq] = After(G[g.seq - 1], m)
        BY <2>1, <2>2, <4>1
      <4>3. QED
        BY <1>0, <1>1, <3>2, <4>2
    <3>3. QED
      BY <1>1, <2>3, <3>1, <3>2
  <2>4. \A x \in d.replies : Of(x, t, g) => G[x.seq] = View(x)
    <3>1. ASSUME NEW x \in c.replies, Of(x, t, h)
          PROVE  G[x.seq] = View(x)
      <4>1. x.seq \in Nat /\ NotAhead(x, t, h)
        BY <1>2 DEF Bounds, Copies, Messages
      <4>2. x.seq \in 0 .. h.seq
        BY <1>0, <3>1, <4>1 DEF NotAhead, Of
      <4>3. QED
        BY <1>10, <2>1, <3>1, <4>2 DEF Traced
    <3>2. QED
      BY <1>4, <3>1 DEF Grows
  <2>5. Of(d, t, g) /\ ~d.late => G[d.seq] = View(d)
    <3> SUFFICES ASSUME Of(d, t, g), ~d.late PROVE G[d.seq] = View(d)
      OBVIOUS
    <3>1. Of(c, t, h) /\ ~c.late /\ d.seq = c.seq /\ View(d) = View(c)
      BY <1>4 DEF Grows, Of, View
    <3>2. c.seq \in 0 .. h.seq
      BY <1>0, <1>2, <3>1 DEF Bounds, NotAhead, Of
    <3>3. QED
      BY <1>10, <2>1, <3>1, <3>2 DEF Traced
  <2>6. QED
    BY <2>1, <2>3, <2>4, <2>5 DEF Traced
<1>11. QED
  BY <1>8, <1>9, <1>10 DEF Linked

-----------------------------------------------------------------------------
(* To every page *)

LEMMA HostShows ==
  ASSUME NEW h \in Hosts
  PROVE  Web!State(h) \in States /\ HostView(h) \in Shows
<1>1. h.running \in BOOLEAN /\ h.asked \in Seq(Nat) /\ h.entries \in Seq(Nat)
  BY DEF Hosts
<1>2. h.asked # <<>> => Head(h.asked) \in Nat
  BY <1>1
<1>3. Web!State(h) \in States
  BY <1>1, <1>2 DEF Web!State, States
<1>4. QED
  BY <1>1, <1>3 DEF HostView, Shows

\* Conversation t, h until now, changes to g, and m says so.
Changes(t, h, m, g) ==
  /\ h \in Hosts /\ g \in Hosts /\ h.open /\ m \in Messages
  /\ m.kind \in Patches /\ m.thread = t /\ m.gen = h.gen /\ m.seq = h.seq + 1
  /\ g.gen = h.gen /\ g.seq = h.seq + 1 /\ HostView(g) = After(HostView(h), m)

\* The copy of a page that is sent a patch, or misses it.
SentTo(c, m) == IF c.connected THEN [c EXCEPT !.stream = Append(@, m)] ELSE [c EXCEPT !.passed[m.thread] = m.seq]

\* A page without a stream misses a change.
LEMMA ChangeMissed ==
  ASSUME NEW c \in Copies, ~c.connected, Shaped(c), NEW t \in Threads, NEW h, NEW m, NEW g, Changes(t, h, m, g),
         Linked(c, t, h), NEW d, d = [c EXCEPT !.passed[t] = m.seq]
  PROVE  Linked(d, t, g)
<1>1. /\ h.seq \in Nat /\ g.seq = h.seq + 1 /\ g.gen = h.gen /\ h.open /\ m.seq = g.seq /\ HostView(g) \in Shows
      /\ c.seq \in Nat
  BY HostShows DEF Changes, Hosts, Copies
<1>2. /\ d.thread = c.thread /\ d.gen = c.gen /\ d.seq = c.seq /\ d.late = c.late /\ View(d) = View(c)
      /\ d.stream = <<>> /\ d.replies = c.replies /\ ~d.connected /\ d.passed[t] = g.seq
  BY <1>1 DEF Copies, View, Shaped
<1>3. \A x : Of(x, t, g) <=> Of(x, t, h)
  BY <1>1 DEF Of
<1>4. \A x : x.seq \in Nat /\ NotAhead(x, t, h) => NotAhead(x, t, g)
  BY <1>1 DEF NotAhead
<1>5. \A x \in c.replies : x.seq \in Nat /\ NotAhead(x, t, h)
  BY DEF Linked, Bounds, Copies, Messages
<1>6. ~c.late => NotAhead(c, t, h)
  BY DEF Linked, Bounds
<1>7. Bounds(d, t, g)
  <2>1. ~d.late => NotAhead(d, t, g)
    BY <1>1, <1>2, <1>4, <1>6 DEF NotAhead
  <2>2. \A x \in d.replies : NotAhead(x, t, g)
    BY <1>2, <1>4, <1>5
  <2>3. DOMAIN d.stream = {} /\ d.passed[t] <= g.seq
    BY <1>1, <1>2
  <2>4. QED
    BY <2>1, <2>2, <2>3 DEF Bounds
<1>8. Cover(d, t, g)
  <2>1. DOMAIN d.stream = {} /\ ~Opening(d)
    BY <1>2 DEF Opening
  <2>2. QED
    BY <1>1, <1>2, <2>1 DEF Cover, Coming, Follows
<1>9. PICK H : Traced(H, c, t, h)
  BY <1>1 DEF Linked
<1> DEFINE G == [H EXCEPT ![g.seq] = HostView(g)]
<1>10. G \in [Nat -> Shows] /\ G[g.seq] = HostView(g) /\ \A n \in 0 .. h.seq : G[n] = H[n]
  BY <1>1, <1>9 DEF Traced
<1> HIDE DEF G
<1>11. \A x \in d.replies : Of(x, t, g) => G[x.seq] = View(x)
  <2>1. ASSUME NEW x \in c.replies, Of(x, t, h)
        PROVE  G[x.seq] = View(x)
    <3>1. x.seq \in 0 .. h.seq
      BY <1>1, <1>5, <2>1 DEF NotAhead, Of
    <3>2. QED
      BY <1>9, <1>10, <2>1, <3>1 DEF Traced
  <2>2. QED
    BY <1>2, <1>3, <2>1
<1>12. Of(d, t, g) /\ ~d.late => G[d.seq] = View(d)
  <2> SUFFICES ASSUME Of(d, t, g), ~d.late PROVE G[d.seq] = View(d)
    OBVIOUS
  <2>1. Of(c, t, h) /\ ~c.late
    BY <1>1, <1>2 DEF Of
  <2>2. c.seq \in 0 .. h.seq
    BY <1>1, <1>6, <2>1 DEF NotAhead, Of
  <2>3. QED
    BY <1>2, <1>9, <1>10, <2>1, <2>2 DEF Traced
<1>13. Traced(G, d, t, g)
  <2>1. DOMAIN d.stream = {}
    BY <1>2
  <2>2. QED
    BY <1>10, <1>11, <1>12, <2>1 DEF Traced
<1>14. QED
  BY <1>7, <1>8, <1>13 DEF Linked

\* What it does not concern is as before.
LEMMA MissedElsewhere ==
  ASSUME NEW c \in Copies, NEW t \in Threads, NEW n \in Nat, NEW s \in Threads, s # t, NEW k, Linked(c, s, k),
         NEW d, d = [c EXCEPT !.passed[t] = n]
  PROVE  Linked(d, s, k)
<1>1. /\ d.thread = c.thread /\ d.gen = c.gen /\ d.seq = c.seq /\ d.late = c.late /\ View(d) = View(c)
      /\ d.stream = c.stream /\ d.replies = c.replies /\ d.connected = c.connected /\ d.passed[s] = c.passed[s]
  BY DEF Copies, View
<1>2. Bounds(d, s, k)
  BY <1>1 DEF Linked, Bounds, NotAhead
<1>3. k.open => Cover(d, s, k)
  BY <1>1 DEF Linked, Cover, Coming, Follows, Has, Of, Opening
<1>4. ASSUME NEW H, Traced(H, c, s, k)
      PROVE  Traced(H, d, s, k)
  BY <1>1, <1>4 DEF Traced, Of
<1>5. QED
  BY <1>2, <1>3, <1>4 DEF Linked

LEMMA SentLinked ==
  ASSUME NEW c \in Copies, Shaped(c), NEW t \in Threads, NEW h, NEW m, NEW g, Changes(t, h, m, g), Linked(c, t, h)
  PROVE  /\ SentTo(c, m) \in Copies /\ Shaped(SentTo(c, m)) /\ Linked(SentTo(c, m), t, g)
         /\ \A s \in Threads : \A k \in Hosts : s # t /\ Linked(c, s, k) => Linked(SentTo(c, m), s, k)
<1> DEFINE d == SentTo(c, m)
<1>1. m \in Messages /\ m.kind # "snapshot" /\ m.thread = t /\ m.seq \in Nat
  BY DEF Changes, Messages, Patches
<1>2. CASE c.connected
  <2>1. d = [c EXCEPT !.stream = Append(@, m)]
    BY <1>2 DEF SentTo
  <2>2. d \in Copies
    <3>1. c.stream \in Seq(Messages)
      BY DEF Copies
    <3>2. Append(c.stream, m) \in Seq(Messages)
      BY <1>1, <3>1
    <3> HIDE DEF d
    <3>3. QED
      BY <2>1, <3>2 DEF Copies
  <2>3. Grows(c, d, m)
    BY <2>1 DEF Copies, Grows
  <2> HIDE DEF d
  <2>4. Shaped(d)
    BY <1>1, <1>2, <2>3, GrowsShaped
  <2>5. Linked(d, t, g)
    <3>1. HostView(g) \in Shows
      BY HostShows DEF Changes
    <3>2. QED
      BY <1>2, <2>3, <3>1, ChangeSent DEF Changes
  <2>6. ASSUME NEW s \in Threads, NEW k \in Hosts, s # t, Linked(c, s, k)
        PROVE  Linked(d, s, k)
    <3>1. m.thread # s \/ (m.kind = "status" /\ NotAhead(m, s, k))
      BY <1>1, <2>6
    <3>2. m \in Messages /\ m.kind # "snapshot"
      BY <1>1
    <3>3. QED
      BY <2>3, <2>6, <3>1, <3>2, ElsewhereSent
  <2>7. QED
    BY <2>2, <2>4, <2>5, <2>6 DEF d
<1>3. CASE ~c.connected
  <2>1. d = [c EXCEPT !.passed[t] = m.seq]
    BY <1>1, <1>3 DEF SentTo
  <2>2. d \in Copies
    <3>1. c.passed \in [Threads -> Nat]
      BY DEF Copies
    <3>2. [c.passed EXCEPT ![t] = m.seq] \in [Threads -> Nat]
      BY <1>1, <3>1
    <3> HIDE DEF d
    <3>3. QED
      BY <2>1, <3>2 DEF Copies
  <2>3. Shaped(d)
    BY <2>1 DEF Copies, Shaped
  <2> HIDE DEF d
  <2>4. Linked(d, t, g)
    BY <1>3, <2>1, ChangeMissed
  <2>5. \A s \in Threads : \A k \in Hosts : s # t /\ Linked(c, s, k) => Linked(d, s, k)
    BY <1>1, <2>1, MissedElsewhere
  <2>6. QED
    BY <2>2, <2>3, <2>4, <2>5 DEF d
<1>4. QED
  BY <1>2, <1>3

\* Changes of one conversation, the newest of them number n.
LEMMA ToldOfChanges ==
  ASSUME NEW c \in Copies, NEW S \in SUBSET Messages, NEW t \in Threads, NEW n \in Nat, c.passed[t] <= n,
         \A m \in S : m.thread = t /\ m.gen = host[t].gen /\ m.seq <= n, \E m \in S : m.seq = n
  PROVE  Web!Told(c, S) = [c EXCEPT !.passed[t] = n]
<1>1. c.passed \in [Threads -> Nat]
  BY DEF Copies
<1>2. \A s \in Threads : \E k \in Nat : c.passed[s] <= k /\ Within(S, s, k)
  <2>1. ASSUME NEW s \in Threads
        PROVE  \E k \in Nat : c.passed[s] <= k /\ Within(S, s, k)
    <3>1. CASE s = t
      BY <3>1 DEF Within
    <3>2. CASE s # t
      <4>1. c.passed[s] \in Nat /\ c.passed[s] <= c.passed[s]
        BY <1>1
      <4>2. QED
        BY <3>2, <4>1 DEF Within
    <3>3. QED
      BY <3>1, <3>2
  <2>2. QED
    BY <2>1
<1> DEFINE f == Web!Told(c, S).passed
<1>3. /\ Web!Told(c, S) = [c EXCEPT !.passed = f] /\ f \in [Threads -> Nat]
      /\ \A s \in Threads : /\ c.passed[s] <= f[s] /\ Within(S, s, f[s])
                            /\ \/ f[s] = c.passed[s]
                               \/ \E m \in S : m.thread = s /\ m.gen = host[s].gen /\ f[s] = m.seq
  BY <1>2, ToldIs
<1> HIDE DEF f
<1>4. f[t] = n
  <2>1. n <= f[t] /\ f[t] \in Nat /\ c.passed[t] \in Nat
    BY <1>1, <1>3 DEF Within
  <2>2. f[t] <= n
    BY <1>3
  <2>3. QED
    BY <2>1, <2>2
<1>5. \A s \in Threads : s # t => f[s] = c.passed[s]
  BY <1>3
<1>6. f = [c.passed EXCEPT ![t] = n]
  BY <1>1, <1>3, <1>4, <1>5
<1>7. QED
  BY <1>3, <1>6

\* One change, notified to everybody.
LEMMA OneBroadcast ==
  ASSUME Together(page, host), NEW t \in Threads, NEW m, NEW g, Changes(t, host[t], m, g), NEW p \in Pages
  PROVE  Web!Broadcast(<<m>>)[p] = SentTo(page[p], m)
<1> DEFINE c == page[p]
<1>1. c \in Copies /\ c.stream \in Seq(Messages) /\ c.passed \in [Threads -> Nat] /\ m \in Messages /\ m.seq \in Nat
  BY DEF Together, Copies, Changes, Messages
<1>2. c.passed[t] <= host[t].seq /\ host[t].seq \in Nat /\ m.seq = host[t].seq + 1 /\ m.thread = t
  BY DEF Together, Linked, Bounds, Changes, Hosts
<1>3. Web!Broadcast(<<m>>)[p] = IF c.connected THEN [c EXCEPT !.stream = @ \o <<m>>] ELSE Web!Told(c, Web!ToSet(<<m>>))
  BY DEF Web!Broadcast
<1>4. Web!ToSet(<<m>>) = {m}
  BY DEF Web!ToSet
<1> HIDE DEF c
<1>5. CASE c.connected
  <2>1. c.stream \o <<m>> = Append(c.stream, m)
    BY <1>1
  <2>2. QED
    BY <1>3, <1>5, <2>1 DEF SentTo, c
<1>6. CASE ~c.connected
  <2>1. c.passed[t] <= m.seq
    BY <1>1, <1>2
  <2>2. \A x \in {m} : x.thread = t /\ x.gen = host[t].gen /\ x.seq <= m.seq
    BY <1>1, <1>2 DEF Changes
  <2>3. {m} \in SUBSET Messages /\ m \in {m} /\ c \in Copies /\ m.seq \in Nat
    BY <1>1
  <2> DEFINE S == {m}
  <2> HIDE DEF S
  <2>4. Web!Told(c, S) = [c EXCEPT !.passed[t] = m.seq]
    <3>1. S \in SUBSET Messages /\ \E x \in S : x.seq = m.seq
      BY <2>3 DEF S
    <3>2. \A x \in S : x.thread = t /\ x.gen = host[t].gen /\ x.seq <= m.seq
      BY <2>2 DEF S
    <3>3. QED
      BY <2>1, <2>3, <3>1, <3>2, ToldOfChanges
  <2>5. QED
    BY <1>2, <1>3, <1>4, <1>6, <2>4 DEF SentTo, c, S
<1>7. QED
  BY <1>5, <1>6

\* Two changes, notified together.
LEMMA TwoBroadcast ==
  ASSUME Together(page, host), NEW t \in Threads, NEW p \in Pages, NEW m, NEW k, NEW n, NEW g,
         Changes(t, host[t], m, k), Changes(t, k, n, g)
  PROVE  Web!Broadcast(<<m, n>>)[p] = SentTo(SentTo(page[p], m), n)
<1> DEFINE c == page[p]
<1>1. /\ c \in Copies /\ c.stream \in Seq(Messages) /\ c.passed \in [Threads -> Nat]
      /\ m \in Messages /\ m.seq \in Nat /\ n \in Messages /\ n.seq \in Nat
  BY DEF Together, Copies, Changes, Messages
<1>2. /\ c.passed[t] <= host[t].seq /\ host[t].seq \in Nat /\ m.seq = host[t].seq + 1 /\ m.thread = t
      /\ n.seq = host[t].seq + 2 /\ n.thread = t
  BY DEF Together, Linked, Bounds, Changes, Hosts
<1>3. Web!Broadcast(<<m, n>>)[p] = IF c.connected THEN [c EXCEPT !.stream = @ \o <<m, n>>]
          ELSE Web!Told(c, Web!ToSet(<<m, n>>))
  BY DEF Web!Broadcast
<1>4. Web!ToSet(<<m, n>>) = {m, n}
  BY DEF Web!ToSet
<1> HIDE DEF c
<1>5. CASE c.connected
  <2>1. c.stream \o <<m, n>> = Append(Append(c.stream, m), n)
    BY <1>1
  <2>2. SentTo(c, m) = [c EXCEPT !.stream = Append(@, m)] /\ SentTo(c, m).connected
    BY <1>1, <1>5 DEF SentTo, Copies
  <2>3. SentTo(SentTo(c, m), n) = [SentTo(c, m) EXCEPT !.stream = Append(@, n)]
    BY <2>2 DEF SentTo
  <2>4. QED
    BY <1>1, <1>3, <1>5, <2>1, <2>2, <2>3 DEF c, Copies
<1>6. CASE ~c.connected
  <2>1. c.passed[t] <= n.seq
    BY <1>1, <1>2
  <2>2. \A x \in {m, n} : x.thread = t /\ x.gen = host[t].gen /\ x.seq <= n.seq
    BY <1>1, <1>2 DEF Changes
  <2> DEFINE S == {m, n}
  <2>3. Web!Told(c, S) = [c EXCEPT !.passed[t] = n.seq]
    <3>1. S \in SUBSET Messages /\ \E x \in S : x.seq = n.seq
      BY <1>1
    <3>2. \A x \in S : x.thread = t /\ x.gen = host[t].gen /\ x.seq <= n.seq
      BY <2>2
    <3>3. c \in Copies /\ n.seq \in Nat
      BY <1>1
    <3> HIDE DEF S
    <3>4. QED
      BY <2>1, <3>1, <3>2, <3>3, ToldOfChanges
  <2>4. SentTo(c, m) = [c EXCEPT !.passed[t] = m.seq] /\ ~SentTo(c, m).connected
    BY <1>1, <1>2, <1>6 DEF SentTo, Copies
  <2>5. SentTo(SentTo(c, m), n) = [SentTo(c, m) EXCEPT !.passed[t] = n.seq]
    BY <1>2, <2>4 DEF SentTo
  <2>6. SentTo(SentTo(c, m), n) = [c EXCEPT !.passed[t] = n.seq]
    BY <1>1, <2>4, <2>5 DEF Copies
  <2>7. QED
    BY <1>3, <1>4, <1>6, <2>3, <2>6 DEF c
<1>7. QED
  BY <1>5, <1>6

LEMMA OneChange ==
  ASSUME Together(page, host), NEW t \in Threads, NEW m, NEW g, Changes(t, host[t], m, g)
  PROVE  Together(Web!Broadcast(<<m>>), [host EXCEPT ![t] = g])
<1> DEFINE pages == Web!Broadcast(<<m>>)
           hosts == [host EXCEPT ![t] = g]
<1>1. DOMAIN pages = Pages /\ pages = [p \in Pages |-> pages[p]]
  BY DEF Web!Broadcast
<1>2. hosts \in [Threads -> Hosts] /\ hosts[t] = g /\ \A s \in Threads : s # t => hosts[s] = host[s]
  BY DEF Together, Changes
<1>3. ASSUME NEW p \in Pages
      PROVE  pages[p] \in Copies /\ Shaped(pages[p]) /\ \A s \in Threads : Linked(pages[p], s, hosts[s])
  <2>1. pages[p] = SentTo(page[p], m)
    BY OneBroadcast
  <2>2. page[p] \in Copies /\ Shaped(page[p]) /\ \A s \in Threads : Linked(page[p], s, host[s]) /\ host[s] \in Hosts
    BY DEF Together
  <2> HIDE DEF pages, hosts
  <2>3. /\ pages[p] \in Copies /\ Shaped(pages[p]) /\ Linked(pages[p], t, g)
        /\ \A s \in Threads : \A k \in Hosts : s # t /\ Linked(page[p], s, k) => Linked(pages[p], s, k)
    BY <2>1, <2>2, SentLinked
  <2>4. QED
    BY <1>2, <2>2, <2>3
<1> HIDE DEF pages, hosts
<1>4. Together(pages, hosts)
  BY <1>1, <1>2, <1>3 DEF Together
<1>5. QED
  BY <1>4 DEF pages, hosts

LEMMA TwoChanges ==
  ASSUME Together(page, host), NEW t \in Threads, NEW m, NEW k, Changes(t, host[t], m, k),
         NEW n, NEW g, Changes(t, k, n, g)
  PROVE  Together(Web!Broadcast(<<m, n>>), [host EXCEPT ![t] = g])
<1> DEFINE pages == Web!Broadcast(<<m, n>>)
           hosts == [host EXCEPT ![t] = g]
<1>1. DOMAIN pages = Pages /\ pages = [p \in Pages |-> pages[p]]
  BY DEF Web!Broadcast
<1>2. hosts \in [Threads -> Hosts] /\ hosts[t] = g /\ \A s \in Threads : s # t => hosts[s] = host[s]
  BY DEF Together, Changes
<1>3. ASSUME NEW p \in Pages
      PROVE  pages[p] \in Copies /\ Shaped(pages[p]) /\ \A s \in Threads : Linked(pages[p], s, hosts[s])
  <2> DEFINE d == SentTo(page[p], m)
  <2>1. pages[p] = SentTo(d, n)
    <3>1. Web!Broadcast(<<m, n>>)[p] = SentTo(SentTo(page[p], m), n)
      <4> HIDE DEF pages, hosts, d
      <4>1. Together(page, host) /\ t \in Threads /\ p \in Pages
        OBVIOUS
      <4>2. Changes(t, host[t], m, k) /\ Changes(t, k, n, g)
        OBVIOUS
      <4>3. QED
        BY <4>1, <4>2, TwoBroadcast, SMTT(30)
    <3>2. QED
      BY <3>1
  <2>2. page[p] \in Copies /\ Shaped(page[p]) /\ \A s \in Threads : Linked(page[p], s, host[s]) /\ host[s] \in Hosts
    BY DEF Together
  <2>3. /\ d \in Copies /\ Shaped(d) /\ Linked(d, t, k)
        /\ \A s \in Threads : \A j \in Hosts : s # t /\ Linked(page[p], s, j) => Linked(d, s, j)
    BY <2>2, SentLinked
  <2> HIDE DEF pages, hosts, d
  <2>4. /\ pages[p] \in Copies /\ Shaped(pages[p]) /\ Linked(pages[p], t, g)
        /\ \A s \in Threads : \A j \in Hosts : s # t /\ Linked(d, s, j) => Linked(pages[p], s, j)
    BY <2>1, <2>3, SentLinked
  <2>5. QED
    BY <1>2, <2>2, <2>3, <2>4
<1> HIDE DEF pages, hosts
<1>4. Together(pages, hosts)
  BY <1>1, <1>2, <1>3 DEF Together
<1>5. QED
  BY <1>4 DEF pages, hosts

\* A change, and the word that the work has ended.
LEMMA ChangeAndStatus ==
  ASSUME Together(page, host), NEW t \in Threads, NEW m, NEW g, Changes(t, host[t], m, g),
         NEW n \in Messages, n.kind = "status", n.thread = t, n.gen = host[t].gen, n.seq = 0
  PROVE  Together(Web!Broadcast(<<m, n>>), [host EXCEPT ![t] = g])
<1> DEFINE pages == Web!Broadcast(<<m, n>>)
           hosts == [host EXCEPT ![t] = g]
<1>1. DOMAIN pages = Pages /\ pages = [p \in Pages |-> pages[p]]
  BY DEF Web!Broadcast
<1>2. hosts \in [Threads -> Hosts] /\ hosts[t] = g /\ \A s \in Threads : s # t => hosts[s] = host[s]
  BY DEF Together, Changes
<1>3. ASSUME NEW p \in Pages
      PROVE  pages[p] \in Copies /\ Shaped(pages[p]) /\ \A s \in Threads : Linked(pages[p], s, hosts[s])
  <2> DEFINE c == page[p]
             d == SentTo(c, m)
  <2>1. c \in Copies /\ Shaped(c) /\ \A s \in Threads : Linked(c, s, host[s]) /\ host[s] \in Hosts
    BY DEF Together
  <2>2. /\ d \in Copies /\ Shaped(d) /\ Linked(d, t, g)
        /\ \A s \in Threads : \A k \in Hosts : s # t /\ Linked(c, s, k) => Linked(d, s, k)
    BY <2>1, SentLinked
  <2>3. \A s \in Threads : Linked(d, s, hosts[s])
    <3> HIDE DEF d, c, hosts
    <3>1. QED
      BY <1>2, <2>1, <2>2
  <2>4. /\ c.stream \in Seq(Messages) /\ c.passed \in [Threads -> Nat]
        /\ m \in Messages /\ m.seq \in Nat /\ m.thread = t /\ c.passed[t] <= m.seq
    <3>1. c.passed[t] <= host[t].seq /\ host[t].seq \in Nat /\ m.seq = host[t].seq + 1
      BY <2>1 DEF Linked, Bounds, Changes, Hosts
    <3>2. QED
      BY <2>1, <3>1 DEF Copies, Changes
  <2>5. pages[p] = IF c.connected THEN [c EXCEPT !.stream = @ \o <<m, n>>] ELSE Web!Told(c, Web!ToSet(<<m, n>>))
    BY DEF Web!Broadcast
  <2> HIDE DEF pages, hosts, c
  <2>6. CASE c.connected
    <3>1. c.stream \o <<m, n>> = Append(Append(c.stream, m), n)
      BY <2>4
    <3>2. d = [c EXCEPT !.stream = Append(@, m)]
      BY <2>6 DEF SentTo
    <3>3. pages[p] = [d EXCEPT !.stream = Append(@, n)]
      BY <2>1, <2>5, <2>6, <3>1, <3>2 DEF Copies
    <3>4. d.connected
      BY <2>1, <2>6, <3>2 DEF Copies
    <3> HIDE DEF d
    <3>5. Grows(d, pages[p], n)
      BY <2>2, <3>3 DEF Copies, Grows
    <3>6. pages[p] \in Copies
      <4>1. d.stream \in Seq(Messages)
        BY <2>2 DEF Copies
      <4>2. Append(d.stream, n) \in Seq(Messages)
        BY <4>1
      <4>3. QED
        BY <2>2, <3>3, <4>2 DEF Copies
    <3>7. n.kind # "snapshot"
      OBVIOUS
    <3>8. Shaped(pages[p])
      BY <2>2, <3>4, <3>5, <3>7, GrowsShaped
    <3>9. ASSUME NEW s \in Threads
          PROVE  Linked(pages[p], s, hosts[s])
      <4>1. hosts[s] \in Hosts /\ Linked(d, s, hosts[s])
        BY <1>2, <2>3
      <4>2. NotAhead(n, s, hosts[s])
        <5>1. CASE s = t
          <6>1. g.gen = host[t].gen /\ g.gen \in Nat /\ g.seq \in Nat
            BY DEF Changes, Hosts
          <6>2. QED
            BY <1>2, <5>1, <6>1 DEF NotAhead
        <5>2. CASE s # t
          BY <5>2 DEF NotAhead
        <5>3. QED
          BY <5>1, <5>2
      <4>3. n.thread # s \/ (n.kind = "status" /\ NotAhead(n, s, hosts[s]))
        BY <4>2
      <4>4. QED
        BY <2>2, <3>5, <3>7, <4>1, <4>3, ElsewhereSent
    <3>10. QED
      BY <3>6, <3>8, <3>9
  <2>7. CASE ~c.connected
    <3> DEFINE S == Web!ToSet(<<m, n>>)
    <3>1. S = {m, n}
      BY DEF Web!ToSet
    <3> HIDE DEF S
    <3>2. S \in SUBSET Messages /\ \E x \in S : x.seq = m.seq
      BY <2>4, <3>1
    <3>3. \A x \in S : x.thread = t /\ x.gen = host[t].gen /\ x.seq <= m.seq
      BY <2>4, <3>1 DEF Changes
    <3>4. m.seq \in Nat /\ c.passed[t] <= m.seq /\ c \in Copies
      BY <2>1, <2>4
    <3>5. Web!Told(c, S) = [c EXCEPT !.passed[t] = m.seq]
      BY <3>2, <3>3, <3>4, ToldOfChanges
    <3>6. pages[p] = d
      BY <2>4, <2>5, <2>7, <3>5 DEF SentTo, S
    <3>7. QED
      BY <2>2, <2>3, <3>6
  <2>8. QED
    BY <2>6, <2>7
<1> HIDE DEF pages, hosts
<1>4. Together(pages, hosts)
  BY <1>1, <1>2, <1>3 DEF Together
<1>5. QED
  BY <1>4 DEF pages, hosts

-----------------------------------------------------------------------------
(* What a conversation presents *)

LEMMA HostFields ==
  ASSUME NEW h \in Hosts
  PROVE  h = [open |-> h.open, gen |-> h.gen, seq |-> h.seq, running |-> h.running, entries |-> h.entries,
              asked |-> h.asked]
BY DEF Hosts

\* A conversation with another number, other entries, other decisions.
LEMMA HostNumbered ==
  ASSUME NEW h \in Hosts, NEW g, g = [h EXCEPT !.seq = g.seq], g.seq \in Nat
  PROVE  /\ g \in Hosts /\ HostView(g) = HostView(h) /\ Web!State(g) = Web!State(h) /\ g.gen = h.gen
         /\ g.open = h.open /\ g.entries = h.entries
<1>1. g \in Hosts
  BY DEF Hosts
<1>2. /\ g.asked = h.asked /\ g.running = h.running /\ g.gen = h.gen /\ g.open = h.open
      /\ g.entries = h.entries
  BY HostFields
<1>3. Web!State(g) = Web!State(h)
  BY <1>2 DEF Web!State
<1>4. QED
  BY <1>1, <1>2, <1>3 DEF HostView

LEMMA HostSaying ==
  ASSUME NEW h \in Hosts, NEW e \in Seq(Nat), NEW g, g = [h EXCEPT !.entries = e]
  PROVE  /\ g \in Hosts /\ Web!State(g) = Web!State(h) /\ g.gen = h.gen /\ g.seq = h.seq /\ g.open = h.open
         /\ g.entries = e
<1>1. g \in Hosts
  BY DEF Hosts
<1>2. /\ g.asked = h.asked /\ g.running = h.running /\ g.gen = h.gen /\ g.seq = h.seq /\ g.open = h.open
      /\ g.entries = e
  BY HostFields
<1>3. Web!State(g) = Web!State(h)
  BY <1>2 DEF Web!State
<1>4. QED
  BY <1>1, <1>2, <1>3

LEMMA HostAsking ==
  ASSUME NEW h \in Hosts, NEW a \in Seq(Nat), NEW g, g = [h EXCEPT !.asked = a]
  PROVE  g \in Hosts /\ g.gen = h.gen /\ g.entries = h.entries
<1>1. g \in Hosts
  BY DEF Hosts
<1>2. g.gen = h.gen /\ g.entries = h.entries
  BY HostFields
<1>3. QED
  BY <1>1, <1>2

LEMMA HostRunning ==
  ASSUME NEW h \in Hosts, NEW b \in BOOLEAN, NEW g, g = [h EXCEPT !.running = b]
  PROVE  g \in Hosts /\ g.gen = h.gen /\ g.seq = h.seq /\ g.entries = h.entries
<1>1. g \in Hosts
  BY DEF Hosts
<1>2. g.gen = h.gen /\ g.seq = h.seq /\ g.entries = h.entries
  BY HostFields
<1>3. QED
  BY <1>1, <1>2

\* A conversation changes to h and emits one patch that makes the one of the other.
LEMMA OneEmitted ==
  ASSUME Together(page, host), NEW t \in Threads, NEW h \in Hosts, host[t].open, h.gen = host[t].gen,
         NEW kind \in Patches, Web!Emit(t, h, <<kind>>),
         HostView(h) = [entries |-> CASE kind = "append" -> Append(host[t].entries, 0)
                                      [] kind = "delta" -> IF host[t].entries = <<>> THEN <<>>
                                           ELSE [host[t].entries EXCEPT ![Len(host[t].entries)] = @ + 1]
                                      [] kind = "reset" -> h.entries
                                      [] kind = "state" -> host[t].entries,
                        state |-> IF kind = "state" THEN Web!State(h) ELSE Web!State(host[t])]
  PROVE  Together(page', host')
<1> DEFINE m == Web!Patch(t, h.gen, host[t].seq + 1, kind, IF kind = "reset" THEN h.entries ELSE <<>>, Web!State(h))
           g == [h EXCEPT !.seq = host[t].seq + 1]
<1>1. host[t] \in Hosts /\ host[t].seq \in Nat /\ h.gen \in Nat /\ h.entries \in Seq(Nat) /\ Web!State(h) \in States
  BY HostShows DEF Together, Hosts
<1>2. m \in Messages
  BY <1>1 DEF Web!Patch, Messages
<1>3. g \in Hosts /\ HostView(g) = HostView(h) /\ g.gen = h.gen /\ g.seq = host[t].seq + 1
  <2> DEFINE q == host[t].seq + 1
  <2>1. g = [h EXCEPT !.seq = g.seq] /\ g.seq \in Nat /\ g.seq = q
    BY <1>1 DEF Hosts
  <2> HIDE DEF q, g
  <2>2. g \in Hosts /\ HostView(g) = HostView(h) /\ g.gen = h.gen
    BY <2>1, HostNumbered
  <2>3. QED
    BY <2>1, <2>2 DEF q
<1>4. /\ m.kind = kind /\ m.thread = t /\ m.gen = h.gen /\ m.seq = host[t].seq + 1 /\ m.state = Web!State(h)
      /\ kind = "reset" => m.entries = h.entries
  BY DEF Web!Patch
<1>5. HostView(host[t]).entries = host[t].entries /\ HostView(host[t]).state = Web!State(host[t])
  BY DEF HostView
<1>6. host' = [host EXCEPT ![t] = g] /\ page' = Web!Broadcast(<<m>>)
  <2>1. DOMAIN <<kind>> = 1 .. 1 /\ <<kind>>[1] = kind
    OBVIOUS
  <2>2. [n \in DOMAIN <<kind>> |-> Web!Patch(t, h.gen, host[t].seq + n, <<kind>>[n],
                                         IF <<kind>>[n] = "reset" THEN h.entries ELSE <<>>, Web!State(h))] = <<m>>
    BY <2>1
  <2>3. Len(<<kind>>) = 1
    OBVIOUS
  <2>4. QED
    BY <2>2, <2>3 DEF Web!Emit
<1> HIDE DEF m, g
<1>7. HostView(g) = After(HostView(host[t]), m)
  BY <1>3, <1>4, <1>5 DEF After, Patches
<1>8. Changes(t, host[t], m, g)
  BY <1>1, <1>2, <1>3, <1>4, <1>7 DEF Changes
<1>9. QED
  BY <1>6, <1>8, OneChange

LEMMA SayStep ==
  ASSUME WebInv, NEW t \in Threads, Web!Say(t)
  PROVE  Together(page', host')
<1> DEFINE h == [host[t] EXCEPT !.entries = Append(@, 0)]
<1>1. Together(page, host) /\ host[t].open /\ host[t] \in Hosts /\ Web!Emit(t, h, <<"append">>)
  BY DEF WebInv, Together, Web!Say, Web!Running
<1>2. host[t].entries \in Seq(Nat) /\ Append(host[t].entries, 0) \in Seq(Nat)
  BY <1>1 DEF Hosts
<1>3. /\ h \in Hosts /\ h.gen = host[t].gen /\ h.entries = Append(host[t].entries, 0)
      /\ Web!State(h) = Web!State(host[t])
  <2> DEFINE e == Append(host[t].entries, 0)
  <2>1. h = [host[t] EXCEPT !.entries = e] /\ host[t] \in Hosts /\ e \in Seq(Nat)
    BY <1>1, <1>2
  <2> HIDE DEF h, e
  <2>2. h \in Hosts /\ h.gen = host[t].gen /\ h.entries = e /\ Web!State(h) = Web!State(host[t])
    BY <2>1, HostSaying
  <2>3. QED
    BY <2>2 DEF e
<1> HIDE DEF h
<1>4. QED
  BY <1>1, <1>3, OneEmitted DEF HostView, Patches

LEMMA FlushStep ==
  ASSUME WebInv, NEW t \in Threads, Web!Flush(t)
  PROVE  Together(page', host')
<1> DEFINE e == host[t].entries
           h == [host[t] EXCEPT !.entries = [e EXCEPT ![Len(e)] = @ + 1]]
<1>1. Together(page, host) /\ host[t].open /\ host[t] \in Hosts /\ Web!Emit(t, h, <<"delta">>)
  BY DEF WebInv, Together, Web!Flush, Web!Running
<1>2. e \in Seq(Nat)
  BY <1>1 DEF Hosts
<1>3. [e EXCEPT ![Len(e)] = @ + 1] \in Seq(Nat) /\ (e = <<>> => [e EXCEPT ![Len(e)] = @ + 1] = <<>>)
  <2> HIDE DEF e
  <2>1. CASE e = <<>>
    <3>1. [e EXCEPT ![Len(e)] = @ + 1] = e
      BY <2>1
    <3>2. QED
      BY <1>2, <2>1, <3>1
  <2>2. CASE e # <<>>
    <3>1. Len(e) \in 1 .. Len(e) /\ e[Len(e)] \in Nat
      BY <1>2, <2>2
    <3>2. [e EXCEPT ![Len(e)] = e[Len(e)] + 1] \in Seq(Nat)
      BY <1>2, <3>1
    <3>3. QED
      BY <2>2, <3>2
  <2>3. QED
    BY <2>1, <2>2
<1>4. /\ h \in Hosts /\ h.gen = host[t].gen /\ h.entries = [e EXCEPT ![Len(e)] = @ + 1]
      /\ Web!State(h) = Web!State(host[t])
  <2> DEFINE d == [e EXCEPT ![Len(e)] = @ + 1]
  <2>1. h = [host[t] EXCEPT !.entries = d]
    OBVIOUS
  <2>2. host[t] \in Hosts /\ d \in Seq(Nat)
    BY <1>1, <1>3
  <2> HIDE DEF h, d
  <2>3. h \in Hosts /\ h.gen = host[t].gen /\ h.entries = d /\ Web!State(h) = Web!State(host[t])
    BY <2>1, <2>2, HostSaying
  <2>4. QED
    BY <2>3 DEF d
<1>5. HostView(h) = [entries |-> IF e = <<>> THEN <<>> ELSE [e EXCEPT ![Len(e)] = @ + 1], state |-> Web!State(host[t])]
  BY <1>3, <1>4 DEF HostView
<1> HIDE DEF h
<1>6. QED
  BY <1>1, <1>4, <1>5, OneEmitted DEF Patches

LEMMA ClearScreenStep ==
  ASSUME WebInv, NEW t \in Threads, Web!ClearScreen(t)
  PROVE  Together(page', host')
<1> DEFINE h == [host[t] EXCEPT !.entries = <<>>]
<1>1. Together(page, host) /\ host[t].open /\ host[t] \in Hosts /\ Web!Emit(t, h, <<"reset">>)
  BY DEF WebInv, Together, Web!ClearScreen
<1>2. h \in Hosts /\ h.gen = host[t].gen /\ h.entries = <<>> /\ Web!State(h) = Web!State(host[t])
  <2> DEFINE e == <<>>
  <2>1. h = [host[t] EXCEPT !.entries = e] /\ host[t] \in Hosts /\ e \in Seq(Nat)
    BY <1>1
  <2> HIDE DEF h, e
  <2>2. h \in Hosts /\ h.gen = host[t].gen /\ h.entries = e /\ Web!State(h) = Web!State(host[t])
    BY <2>1, HostSaying
  <2>3. QED
    BY <2>2 DEF e
<1> HIDE DEF h
<1>3. QED
  BY <1>1, <1>2, OneEmitted DEF HostView, Patches

LEMMA AwaitStep ==
  ASSUME WebInv, NEW t \in Threads, Web!Await(t)
  PROVE  Together(page', host')
<1> DEFINE h == [host[t] EXCEPT !.asked = Append(@, changes + 1)]
<1>1. Together(page, host) /\ host[t].open /\ host[t] \in Hosts /\ changes \in Nat /\ Web!Emit(t, h, <<"state">>)
  BY DEF WebInv, Together, Web!Await, Web!Running
<1>2. host[t].asked \in Seq(Nat) /\ Append(host[t].asked, changes + 1) \in Seq(Nat)
  BY <1>1 DEF Hosts
<1>3. h \in Hosts /\ h.gen = host[t].gen /\ h.entries = host[t].entries
  <2> DEFINE a == Append(host[t].asked, changes + 1)
  <2>1. h = [host[t] EXCEPT !.asked = a] /\ host[t] \in Hosts /\ a \in Seq(Nat)
    BY <1>1, <1>2
  <2> HIDE DEF h, a
  <2>2. QED
    BY <2>1, HostAsking
<1> HIDE DEF h
<1>4. QED
  BY <1>1, <1>3, OneEmitted DEF HostView, Patches

LEMMA ResolveStep ==
  ASSUME WebInv, NEW t \in Threads, Web!Resolve(t)
  PROVE  Together(page', host')
<1>1. PICK n \in DOMAIN host[t].asked : Web!Emit(t, [host[t] EXCEPT !.asked = Web!RemoveAt(@, n)], <<"state">>)
  BY DEF Web!Resolve
<1> DEFINE h == [host[t] EXCEPT !.asked = Web!RemoveAt(@, n)]
<1>2. Together(page, host) /\ host[t].open /\ host[t] \in Hosts /\ Web!Emit(t, h, <<"state">>)
  BY <1>1 DEF WebInv, Together, Web!Resolve, Web!Running
<1>3. Web!RemoveAt(host[t].asked, n) \in Seq(Nat)
  <2>1. host[t].asked \in Seq(Nat)
    BY <1>2 DEF Hosts
  <2>2. n \in 1 .. Len(host[t].asked) /\ Len(host[t].asked) \in Nat
    BY <2>1
  <2> DEFINE a == host[t].asked
             L == Len(a)
  <2>3. \A i \in 1 .. L : a[i] \in Nat
    BY <2>1
  <2> HIDE DEF a, L
  <2>4. L \in Int /\ n \in Int /\ n - 1 \in Int /\ n + 1 \in Int /\ 1 \in Int
    BY <2>2 DEF a, L
  <2>5. \A i \in 1 .. n - 1 : a[i] \in Nat
    BY <2>2, <2>3 DEF a, L
  <2>6. \A i \in n + 1 .. L : a[i] \in Nat
    BY <2>2, <2>3 DEF a, L
  <2>7. SubSeq(a, 1, n - 1) \in Seq(Nat)
    BY <2>4, <2>5, SubSeqProperties
  <2>8. SubSeq(a, n + 1, L) \in Seq(Nat)
    BY <2>4, <2>6, SubSeqProperties
  <2>9. QED
    BY <2>7, <2>8 DEF Web!RemoveAt, a, L
<1>4. h \in Hosts /\ h.gen = host[t].gen /\ h.entries = host[t].entries
  BY <1>2, <1>3, HostAsking
<1> HIDE DEF h
<1>5. QED
  BY <1>2, <1>4, OneEmitted DEF HostView, Patches

LEMMA FinishStep ==
  ASSUME WebInv, NEW t \in Threads, Web!Finish(t)
  PROVE  Together(page', host')
<1> DEFINE h == [host[t] EXCEPT !.running = FALSE, !.seq = @ + 1]
           m == Web!Patch(t, h.gen, h.seq, "state", <<>>, Web!State(h))
           n == Web!Patch(t, h.gen, 0, "status", <<>>, Web!Quiet)
<1>1. Together(page, host) /\ host[t].open /\ host[t] \in Hosts
  BY DEF WebInv, Together, Web!Finish, Web!Running
<1>2. host' = [host EXCEPT ![t] = h] /\ page' = Web!Broadcast(<<m, n>>)
  BY DEF Web!Finish
<1>3. host[t].seq \in Nat /\ host[t].gen \in Nat /\ host[t].entries \in Seq(Nat)
  BY <1>1 DEF Hosts
<1>4. h \in Hosts /\ h.gen = host[t].gen /\ h.seq = host[t].seq + 1 /\ h.entries = host[t].entries
  <2> DEFINE k == [host[t] EXCEPT !.running = FALSE]
  <2>1. k \in Hosts /\ k.gen = host[t].gen /\ k.seq = host[t].seq /\ k.entries = host[t].entries
    BY <1>1, HostRunning
  <2>2. h = [k EXCEPT !.seq = host[t].seq + 1]
    BY <1>1 DEF Hosts
  <2> HIDE DEF k, h
  <2>3. QED
    <3> DEFINE q == host[t].seq + 1
    <3>1. h = [k EXCEPT !.seq = h.seq] /\ h.seq \in Nat /\ h.seq = q
      BY <1>3, <2>1, <2>2 DEF Hosts
    <3> HIDE DEF q
    <3>2. h \in Hosts /\ h.gen = k.gen /\ h.entries = k.entries
      BY <2>1, <3>1, HostNumbered
    <3>3. QED
      BY <2>1, <3>1, <3>2 DEF q
<1>5. Web!State(h) \in States /\ Web!Quiet \in States
  BY <1>4, HostShows DEF Web!Quiet, States
<1> HIDE DEF h
<1>6. m \in Messages /\ n \in Messages
  BY <1>3, <1>4, <1>5 DEF Web!Patch, Messages, Patches
<1>7. /\ m.kind = "state" /\ m.thread = t /\ m.gen = host[t].gen /\ m.seq = host[t].seq + 1 /\ m.state = Web!State(h)
      /\ n.kind = "status" /\ n.thread = t /\ n.gen = host[t].gen /\ n.seq = 0
  BY <1>4 DEF Web!Patch
<1> HIDE DEF m, n
<1>8. HostView(h) = After(HostView(host[t]), m)
  BY <1>4, <1>7 DEF HostView, After
<1>9. Changes(t, host[t], m, h)
  BY <1>1, <1>4, <1>6, <1>7, <1>8 DEF Changes, Patches
<1>10. QED
  BY <1>1, <1>2, <1>6, <1>7, <1>9, ChangeAndStatus

LEMMA MessageStep ==
  ASSUME WebInv, NEW t \in Threads, Web!Message(t)
  PROVE  Together(page', host')
<1> DEFINE h == [host[t] EXCEPT !.running = TRUE, !.entries = Append(@, 0)]
           m == Web!Patch(t, h.gen, host[t].seq + 1, "append", <<>>, Web!State(h))
           n == Web!Patch(t, h.gen, host[t].seq + 2, "state", <<>>, Web!State(h))
           k == [host[t] EXCEPT !.entries = Append(@, 0), !.seq = @ + 1]
           g == [h EXCEPT !.seq = host[t].seq + 2]
<1>1. Together(page, host) /\ host[t].open /\ host[t] \in Hosts /\ Web!Emit(t, h, <<"append", "state">>)
  BY DEF WebInv, Together, Web!Message
<1>2. /\ host[t].seq \in Nat /\ host[t].gen \in Nat /\ host[t].entries \in Seq(Nat)
      /\ Append(host[t].entries, 0) \in Seq(Nat)
  BY <1>1 DEF Hosts
<1>3. /\ h \in Hosts /\ h.gen = host[t].gen /\ h.entries = Append(host[t].entries, 0)
      /\ k \in Hosts /\ k.gen = host[t].gen /\ k.seq = host[t].seq + 1 /\ k.entries = Append(host[t].entries, 0)
      /\ k.open /\ Web!State(k) = Web!State(host[t])
  <2> DEFINE e == Append(host[t].entries, 0)
             a == [host[t] EXCEPT !.entries = e]
  <2>1. /\ a \in Hosts /\ Web!State(a) = Web!State(host[t]) /\ a.gen = host[t].gen /\ a.seq = host[t].seq /\ a.open
        /\ a.entries = e
    <3>1. a = [host[t] EXCEPT !.entries = e] /\ host[t] \in Hosts /\ e \in Seq(Nat) /\ host[t].open
      BY <1>1, <1>2
    <3> HIDE DEF a, e
    <3>2. QED
      BY <3>1, HostSaying
  <2>2. h = [a EXCEPT !.running = TRUE] /\ k = [a EXCEPT !.seq = host[t].seq + 1]
    BY <1>1 DEF Hosts
  <2> HIDE DEF a, h, k, e
  <2>3. h \in Hosts /\ h.gen = host[t].gen /\ h.entries = e
    BY <2>1, <2>2, HostRunning
  <2>4. k \in Hosts /\ k.gen = host[t].gen /\ k.seq = host[t].seq + 1 /\ k.entries = e
        /\ k.open /\ Web!State(k) = Web!State(host[t])
    <3> DEFINE q == host[t].seq + 1
    <3>1. k = [a EXCEPT !.seq = k.seq] /\ k.seq \in Nat /\ k.seq = q
      BY <1>2, <2>1, <2>2 DEF Hosts
    <3> HIDE DEF q
    <3>2. k \in Hosts /\ k.gen = a.gen /\ k.entries = a.entries /\ k.open = a.open /\ Web!State(k) = Web!State(a)
      BY <2>1, <3>1, HostNumbered
    <3>3. QED
      BY <2>1, <3>1, <3>2 DEF q
  <2>5. QED
    BY <2>3, <2>4 DEF e
<1>4. g \in Hosts /\ g.gen = host[t].gen /\ g.seq = host[t].seq + 2 /\ HostView(g) = HostView(h)
  <2> DEFINE q == host[t].seq + 2
  <2>1. g = [h EXCEPT !.seq = g.seq] /\ g.seq \in Nat /\ g.seq = q
    BY <1>2, <1>3 DEF Hosts
  <2> HIDE DEF q, g, h
  <2>2. g \in Hosts /\ g.gen = h.gen /\ HostView(g) = HostView(h)
    BY <1>3, <2>1, HostNumbered
  <2>3. QED
    BY <1>3, <2>1, <2>2 DEF q
<1>5. host' = [host EXCEPT ![t] = g] /\ page' = Web!Broadcast(<<m, n>>)
  <2> DEFINE kinds == <<"append", "state">>
  <2>1. DOMAIN kinds = 1 .. 2 /\ kinds[1] = "append" /\ kinds[2] = "state" /\ Len(kinds) = 2
    OBVIOUS
  <2> HIDE DEF kinds, h
  <2>2. [i \in DOMAIN kinds |-> Web!Patch(t, h.gen, host[t].seq + i, kinds[i],
                                      IF kinds[i] = "reset" THEN h.entries ELSE <<>>, Web!State(h))] = <<m, n>>
    BY <2>1
  <2>3. Web!Emit(t, h, kinds)
    BY <1>1 DEF kinds, h
  <2>4. QED
    BY <2>1, <2>2, <2>3 DEF Web!Emit
<1>6. Web!State(h) \in States
  BY <1>3, HostShows
<1> HIDE DEF h, k, g
<1>7. m \in Messages /\ n \in Messages
  BY <1>2, <1>3, <1>6 DEF Web!Patch, Messages, Patches
<1>8. /\ m.kind = "append" /\ m.thread = t /\ m.gen = host[t].gen /\ m.seq = host[t].seq + 1
      /\ n.kind = "state" /\ n.thread = t /\ n.gen = host[t].gen /\ n.seq = host[t].seq + 2 /\ n.state = Web!State(h)
  BY <1>3 DEF Web!Patch
<1> HIDE DEF m, n
<1>9. HostView(k) = After(HostView(host[t]), m)
  BY <1>3, <1>8 DEF HostView, After
<1>10. HostView(g) = After(HostView(k), n)
  BY <1>3, <1>4, <1>8 DEF HostView, After
<1>11. Changes(t, host[t], m, k)
  BY <1>1, <1>3, <1>7, <1>8, <1>9 DEF Changes, Patches
<1>12. Changes(t, k, n, g)
  BY <1>2, <1>3, <1>4, <1>7, <1>8, <1>10 DEF Changes, Patches
<1>13. QED
  BY <1>1, <1>5, <1>11, <1>12, TwoChanges

-----------------------------------------------------------------------------
(* Conversations are opened and closed *)

LEMMA AskingTogether ==
  ASSUME NEW pages, NEW hosts, Together(pages, hosts), NEW p \in Pages \cup {None}, None \notin Pages
  PROVE  Together(Web!Asking(pages, p), hosts)
<1> DEFINE d == Web!Asking(pages, p)
<1>1. pages \in [Pages -> Copies]
  BY DEF Together
<1>2. CASE p = None
  BY <1>2 DEF Web!Asking
<1>3. CASE p # None
  <2>1. d = [pages EXCEPT ![p] = [pages[p] EXCEPT !.wants = TRUE]] /\ p \in Pages
    BY <1>1, <1>3 DEF Web!Asking
  <2> DEFINE e == [pages[p] EXCEPT !.wants = TRUE]
  <2>2. e \in Copies /\ Alike(pages[p], e)
    BY <1>1, <2>1 DEF Copies, Alike
  <2> HIDE DEF e
  <2>3. Shaped(pages[p]) /\ \A t \in Threads : Linked(pages[p], t, hosts[t])
    BY <2>1 DEF Together
  <2>4. Shaped(e) /\ \A t \in Threads : Linked(e, t, hosts[t])
    BY <2>2, <2>3, AlikeLinked
  <2>5. d = [pages EXCEPT ![p] = e]
    BY <2>1 DEF e
  <2> HIDE DEF d
  <2>6. d \in [Pages -> Copies] /\ \A q \in Pages : d[q] = IF q = p THEN e ELSE pages[q]
    BY <1>1, <2>2, <2>5
  <2>7. Together(d, hosts)
    BY <2>4, <2>6 DEF Together
  <2>8. QED
    BY <2>7 DEF d
<1>4. QED
  BY <1>2, <1>3

\* Conversation t is opened: h becomes g, and everybody is sent m or misses it.
LEMMA OpenedLinked ==
  ASSUME NEW c \in Copies, Shaped(c), NEW t \in Threads, NEW h \in Hosts, Bounds(c, t, h),
         NEW g \in Hosts, g.gen = h.gen + 1, g.seq = 1,
         NEW m \in Messages, m.kind = "reset", m.thread = t, m.gen = g.gen, m.seq = 1, m.entries = g.entries,
         NEW d \in Copies, d.thread = c.thread, d.gen = c.gen, d.seq = c.seq, d.late = c.late, d.replies = c.replies,
         d.stream = IF c.connected THEN Append(c.stream, m) ELSE c.stream,
         d.passed[t] = IF c.connected THEN 0 ELSE 1
  PROVE  Linked(d, t, g)
<1> DEFINE L == Len(c.stream)
<1>1. h.gen \in Nat /\ h.seq \in Nat /\ g.gen \in Nat /\ g.seq \in Nat /\ HostView(g) \in Shows
  BY HostShows DEF Hosts
<1>2. \A x : x.gen \in Nat /\ NotAhead(x, t, h) => NotAhead(x, t, g) /\ ~Of(x, t, g)
  BY <1>1 DEF NotAhead, Of
<1>3. /\ c.stream \in Seq(Messages) /\ \A x \in Messages : x.gen \in Nat
      /\ c.gen \in Nat /\ c.replies \subseteq Messages
  BY DEF Copies, Messages
<1>4. L \in Nat /\ DOMAIN c.stream = 1 .. L /\ (~c.connected => L = 0)
  BY <1>3 DEF Shaped
<1>5. /\ DOMAIN d.stream = IF c.connected THEN 1 .. L + 1 ELSE {}
      /\ \A i \in 1 .. L : d.stream[i] = c.stream[i]
      /\ c.connected => d.stream[L + 1] = m
  BY <1>3, <1>4
<1>6. \A i \in 1 .. L : NotAhead(c.stream[i], t, g) /\ ~Of(c.stream[i], t, g)
  BY <1>2, <1>3, <1>4 DEF Bounds
<1>7. \A x \in c.replies : NotAhead(x, t, g) /\ ~Of(x, t, g)
  BY <1>2, <1>3 DEF Bounds
<1>8. NotAhead(m, t, g) /\ PatchOf(m, t, g)
  BY <1>1 DEF NotAhead, PatchOf, Of, Patches
<1>9. ~c.late => NotAhead(d, t, g) /\ ~Of(d, t, g)
  <2>1. ~c.late => NotAhead(c, t, g) /\ ~Of(c, t, g)
    BY <1>2, <1>3 DEF Bounds
  <2>2. QED
    BY <2>1 DEF NotAhead, Of
<1> HIDE DEF L
<1>10. Bounds(d, t, g)
  <2>1. \A i \in DOMAIN d.stream : NotAhead(d.stream[i], t, g)
    BY <1>4, <1>5, <1>6, <1>8
  <2>2. d.passed[t] <= g.seq
    BY <1>1
  <2>3. QED
    BY <1>7, <1>9, <2>1, <2>2 DEF Bounds
<1>11. \A i \in DOMAIN d.stream : PatchOf(d.stream[i], t, g) => i = L + 1
  BY <1>4, <1>5, <1>6 DEF PatchOf
<1>12. c.connected => Has(d, t, g, 1)
  BY <1>4, <1>5, <1>8 DEF Has
<1>13. Cover(d, t, g)
  <2>1. \A n \in 1 .. g.seq : n = 1
    BY <1>1
  <2>2. \A n \in 1 .. g.seq : n <= d.passed[t] \/ Has(d, t, g, n)
    BY <1>12, <2>1
  <2>3. \A i, j \in DOMAIN d.stream : i < j /\ PatchOf(d.stream[i], t, g) /\ PatchOf(d.stream[j], t, g) => FALSE
    BY <1>4, <1>11
  <2>4. Opening(d) => c.connected
    BY <1>3, <1>4, <1>5 DEF Opening
  <2>5. QED
    BY <1>9, <1>12, <2>1, <2>2, <2>3, <2>4 DEF Cover, Coming, Follows
<1> DEFINE H == [n \in Nat |-> HostView(g)]
<1>14. Traced(H, d, t, g)
  <2>1. H \in [Nat -> Shows] /\ \A n \in Nat : H[n] = HostView(g)
    BY <1>1
  <2> HIDE DEF H
  <2>2. HostView(g) = After(HostView(g), m)
    BY DEF After, HostView
  <2>3. ASSUME NEW i \in DOMAIN d.stream
        PROVE  /\ PatchOf(d.stream[i], t, g) =>
                    d.stream[i].seq > 0 /\ H[d.stream[i].seq] = After(H[d.stream[i].seq - 1], d.stream[i])
               /\ d.stream[i].kind = "snapshot" /\ Of(d.stream[i], t, g) => H[d.stream[i].seq] = View(d.stream[i])
    <3>1. CASE i \in 1 .. L
      BY <1>5, <1>6, <3>1 DEF PatchOf
    <3>2. CASE c.connected /\ i = L + 1
      BY <1>5, <2>1, <2>2, <3>2
    <3>3. QED
      BY <1>4, <1>5, <2>3, <3>1, <3>2
  <2>4. QED
    BY <1>1, <1>7, <1>9, <2>1, <2>3 DEF Traced
<1>15. QED
  BY <1>10, <1>13, <1>14 DEF Linked

LEMMA ToldLinks ==
  ASSUME NEW c \in Copies, NEW S \in SUBSET Messages, host \in [Threads -> Hosts],
         \A t \in Threads : c.passed[t] <= host[t].seq /\ \A m \in S : NotAhead(m, t, host[t])
  PROVE  LET d == Web!Told(c, S)
         IN  /\ d = [c EXCEPT !.passed = d.passed] /\ d.passed \in [Threads -> Nat] /\ d \in Copies
             /\ \A t \in Threads : /\ c.passed[t] <= d.passed[t] /\ d.passed[t] <= host[t].seq
                                   /\ \A m \in S : Of(m, t, host[t]) => m.seq <= d.passed[t]
                                   /\ (\A m \in S : m.thread # t) => d.passed[t] = c.passed[t]
<1> DEFINE d == Web!Told(c, S)
<1>1. \A t \in Threads : \E n \in Nat : c.passed[t] <= n /\ Within(S, t, n)
  <2>1. ASSUME NEW t \in Threads
        PROVE  host[t].seq \in Nat /\ c.passed[t] <= host[t].seq /\ Within(S, t, host[t].seq)
    <3>1. host[t].seq \in Nat
      BY DEF Hosts
    <3>2. Within(S, t, host[t].seq)
      BY DEF Within, NotAhead
    <3>3. QED
      BY <3>1, <3>2
  <2>2. QED
    BY <2>1
<1>2. /\ d = [c EXCEPT !.passed = d.passed] /\ d.passed \in [Threads -> Nat]
      /\ \A t \in Threads :
           /\ c.passed[t] <= d.passed[t] /\ Within(S, t, d.passed[t])
           /\ \/ d.passed[t] = c.passed[t]
              \/ \E m \in S : m.thread = t /\ m.gen = host[t].gen /\ d.passed[t] = m.seq
  BY <1>1, ToldIs
<1> HIDE DEF d
<1>3. d \in Copies
  BY <1>2 DEF Copies
<1>4. ASSUME NEW t \in Threads
      PROVE  /\ c.passed[t] <= d.passed[t] /\ d.passed[t] <= host[t].seq
             /\ \A m \in S : Of(m, t, host[t]) => m.seq <= d.passed[t]
             /\ (\A m \in S : m.thread # t) => d.passed[t] = c.passed[t]
  <2>1. c.passed[t] <= d.passed[t] /\ Within(S, t, d.passed[t])
    BY <1>2
  <2>2. d.passed[t] = c.passed[t] \/ \E m \in S : m.thread = t /\ m.gen = host[t].gen /\ d.passed[t] = m.seq
    BY <1>2
  <2>3. d.passed[t] <= host[t].seq
    <3>1. \A m \in S : m.thread = t /\ m.gen = host[t].gen => m.seq <= host[t].seq
      BY DEF NotAhead
    <3>2. QED
      BY <2>2, <3>1
  <2>4. \A m \in S : Of(m, t, host[t]) => m.seq <= d.passed[t]
    BY <2>1 DEF Within, Of
  <2>5. QED
    BY <2>1, <2>2, <2>3, <2>4
<1>5. QED
  BY <1>2, <1>3, <1>4 DEF d

LEMMA AttachStep ==
  ASSUME WebConstants, WebInv, Web!Attach
  PROVE  Together(page', host')
<1> DEFINE t == moving.thread
           g == [host[t] EXCEPT !.open = TRUE, !.gen = @ + 1, !.seq = 1]
           m == Web!Patch(t, g.gen, 1, "reset", g.entries, Web!Quiet)
           notified == [p \in Pages |-> [Web!Broadcast(<<m>>)[p] EXCEPT !.passed[t] = IF page[p].connected THEN 0
               ELSE 1]]
           hosts == [host EXCEPT ![t] = g]
<1>1. host' = hosts /\ page' = Web!Asking(notified, moving.by)
  BY DEF Web!Attach
<1>2. t \in Threads /\ moving.by \in Pages \cup {None} /\ Together(page, host) /\ None \notin Pages
  BY DEF Web!Attach, WebInv, WebConstants
<1>3. host[t] \in Hosts /\ host \in [Threads -> Hosts]
  BY <1>2 DEF Together
<1>4. host[t].gen \in Nat /\ host[t].entries \in Seq(Nat)
  BY <1>3 DEF Hosts
<1>5. g.gen = host[t].gen + 1 /\ g.seq = 1 /\ g.entries = host[t].entries
  BY <1>3 DEF Hosts
<1>6. g \in Hosts
  <2> DEFINE h == host[t]
  <2>1. h \in Hosts /\ g = [h EXCEPT !.open = TRUE, !.gen = h.gen + 1, !.seq = 1] /\ h.gen \in Nat
    BY <1>3, <1>4
  <2> HIDE DEF h, g
  <2>2. g = [open |-> TRUE, gen |-> h.gen + 1, seq |-> 1, running |-> h.running, entries |-> h.entries,
             asked |-> h.asked]
    BY <2>1 DEF Hosts
  <2>3. h.running \in BOOLEAN /\ h.entries \in Seq(Nat) /\ h.asked \in Seq(Nat) /\ h.gen + 1 \in Nat /\ 1 \in Nat
    BY <2>1 DEF Hosts
  <2> DEFINE n == h.gen + 1
  <2> HIDE DEF n
  <2>4. g = [open |-> TRUE, gen |-> n, seq |-> 1, running |-> h.running, entries |-> h.entries, asked |-> h.asked]
    BY <2>2 DEF n
  <2>5. n \in Nat
    BY <2>3 DEF n
  <2>6. QED
    BY <2>3, <2>4, <2>5 DEF Hosts
<1> HIDE DEF g
<1>7. /\ m \in Messages /\ m.kind = "reset" /\ m.thread = t /\ m.gen = g.gen /\ m.seq = 1 /\ m.entries = g.entries
  <2>1. Web!Quiet \in States /\ g.gen \in Nat /\ g.entries \in Seq(Nat)
    BY <1>4, <1>5 DEF Web!Quiet, States
  <2>2. QED
    BY <1>2, <2>1 DEF Web!Patch, Messages, Patches
<1> HIDE DEF m
<1>8. hosts \in [Threads -> Hosts] /\ hosts[t] = g /\ \A s \in Threads : s # t => hosts[s] = host[s]
  BY <1>2, <1>3, <1>6
<1> HIDE DEF t, hosts
<1>9. ASSUME NEW p \in Pages
      PROVE  notified[p] \in Copies /\ Shaped(notified[p]) /\ \A s \in Threads : Linked(notified[p], s, hosts[s])
  <2> DEFINE c == page[p]
             b == Web!Broadcast(<<m>>)[p]
             d == [b EXCEPT !.passed[t] = IF c.connected THEN 0 ELSE 1]
  <2>1. c \in Copies /\ Shaped(c) /\ \A s \in Threads : Linked(c, s, host[s]) /\ host[s] \in Hosts
    BY <1>2 DEF Together
  <2>2. notified[p] = d
    OBVIOUS
  <2>3. b = IF c.connected THEN [c EXCEPT !.stream = @ \o <<m>>] ELSE Web!Told(c, Web!ToSet(<<m>>))
    BY DEF Web!Broadcast
  <2>4. Web!ToSet(<<m>>) = {m}
    BY DEF Web!ToSet
  <2>5. c.stream \in Seq(Messages) /\ c.passed \in [Threads -> Nat]
    BY <2>1 DEF Copies
  <2> HIDE DEF notified, b, c
  <2>6. CASE c.connected
    <3> DEFINE q == Append(c.stream, m)
    <3>1. c.stream \o <<m>> = q /\ q \in Seq(Messages)
      BY <1>7, <2>5
    <3>2. b = [c EXCEPT !.stream = q]
      BY <2>3, <2>6, <3>1
    <3> HIDE DEF q
    <3>3. b \in Copies /\ b.passed = c.passed /\ b.connected
      BY <2>1, <2>6, <3>1, <3>2 DEF Copies
    <3>4. Grows(c, b, m)
      BY <2>1, <3>2 DEF Copies, Grows, q
    <3>5. m.kind # "snapshot"
      BY <1>7
    <3>6. Shaped(b)
      BY <1>7, <2>1, <2>6, <3>4, <3>5, GrowsShaped
    <3>7. d = [b EXCEPT !.passed[t] = 0]
      BY <2>6
    <3>8. d \in Copies
      <4>1. [b.passed EXCEPT ![t] = 0] \in [Threads -> Nat]
        BY <2>5, <3>3
      <4>2. d = [b EXCEPT !.passed = [b.passed EXCEPT ![t] = 0]]
        BY <3>7
      <4> HIDE DEF d
      <4>3. QED
        BY <3>3, <4>1, <4>2 DEF Copies
    <3>9. /\ d.thread = b.thread /\ d.gen = b.gen /\ d.seq = b.seq /\ d.late = b.late /\ d.replies = b.replies
          /\ d.stream = b.stream /\ d.passed[t] = 0 /\ d.connected = b.connected
      BY <1>2, <3>3, <3>7 DEF Copies
    <3> HIDE DEF d
    <3>10. Shaped(d)
      BY <3>6, <3>9 DEF Shaped
    <3>11. Linked(d, t, g)
      <4>1. /\ d.thread = c.thread /\ d.gen = c.gen /\ d.seq = c.seq /\ d.late = c.late /\ d.replies = c.replies
            /\ d.stream = IF c.connected THEN Append(c.stream, m) ELSE c.stream
            /\ d.passed[t] = IF c.connected THEN 0 ELSE 1
        BY <2>6, <3>4, <3>9 DEF Grows
      <4>2. Bounds(c, t, host[t]) /\ host[t] \in Hosts /\ c \in Copies /\ Shaped(c) /\ t \in Threads
        BY <1>2, <2>1 DEF Linked
      <4>3. QED
        BY <1>5, <1>6, <1>7, <3>8, <4>1, <4>2, OpenedLinked
    <3>12. ASSUME NEW s \in Threads, s # t
           PROVE  Linked(d, s, host[s])
      <4>1. m.thread # s \/ (m.kind = "status" /\ NotAhead(m, s, host[s]))
        BY <1>7, <3>12
      <4>2. Linked(b, s, host[s])
        BY <1>7, <2>1, <3>4, <3>5, <4>1, ElsewhereSent
      <4>3. 0 \in Nat /\ t \in Threads
        BY <1>2
      <4>4. QED
        BY <3>3, <3>7, <3>12, <4>2, <4>3, MissedElsewhere DEF d
    <3>13. QED
      BY <1>8, <2>2, <3>8, <3>10, <3>11, <3>12 DEF d
  <2>7. CASE ~c.connected
    <3> DEFINE S == {m}
    <3>1. b = Web!Told(c, S)
      BY <2>3, <2>4, <2>7
    <3> DEFINE f == [c.passed EXCEPT ![t] = 1]
    <3>2. d = [c EXCEPT !.passed = f]
      <4>1. \A s \in Threads : \E n \in Nat : c.passed[s] <= n /\ Within(S, s, n)
        <5>1. ASSUME NEW s \in Threads
              PROVE  c.passed[s] + 1 \in Nat /\ c.passed[s] <= c.passed[s] + 1 /\ Within(S, s, c.passed[s] + 1)
          BY <1>7, <2>5 DEF Within
        <5>2. QED
          BY <5>1
      <4>2. S \in SUBSET Messages /\ \A x \in S : x.thread = t
        BY <1>7
      <4> HIDE DEF S
      <4>3. /\ b = [c EXCEPT !.passed = b.passed] /\ b.passed \in [Threads -> Nat]
            /\ \A s \in Threads : \/ b.passed[s] = c.passed[s]
                                  \/ \E x \in S : x.thread = s /\ x.gen = host[s].gen /\ b.passed[s] = x.seq
        BY <2>1, <3>1, <4>1, <4>2, ToldIs
      <4>4. \A s \in Threads : s # t => b.passed[s] = c.passed[s]
        BY <4>2, <4>3
      <4>5. [b.passed EXCEPT ![t] = 1] = f
        BY <2>5, <4>3, <4>4
      <4>6. d = [b EXCEPT !.passed = f]
        BY <2>7, <4>5
      <4> HIDE DEF f, d
      <4>7. QED
        BY <2>1, <4>3, <4>6 DEF Copies
    <3>3. f \in [Threads -> Nat] /\ f[t] = 1
      BY <1>2, <2>5
    <3>4. d = [c EXCEPT !.passed[t] = 1]
      BY <3>2
    <3> HIDE DEF f, d, S
    <3>5. d \in Copies
      BY <2>1, <3>2, <3>3 DEF Copies
    <3>6. /\ d.thread = c.thread /\ d.gen = c.gen /\ d.seq = c.seq /\ d.late = c.late /\ d.replies = c.replies
          /\ d.stream = c.stream /\ d.passed[t] = 1 /\ d.connected = c.connected
      BY <2>1, <3>2, <3>3 DEF Copies
    <3>7. Shaped(d)
      BY <2>1, <3>6 DEF Shaped
    <3>8. Linked(d, t, g)
      <4>1. /\ d.stream = IF c.connected THEN Append(c.stream, m) ELSE c.stream
            /\ d.passed[t] = IF c.connected THEN 0 ELSE 1
        BY <2>7, <3>6
      <4>2. Bounds(c, t, host[t]) /\ host[t] \in Hosts /\ c \in Copies /\ Shaped(c) /\ t \in Threads
        BY <1>2, <2>1 DEF Linked
      <4>3. QED
        BY <1>5, <1>6, <1>7, <3>5, <3>6, <4>1, <4>2, OpenedLinked
    <3>9. ASSUME NEW s \in Threads, s # t
          PROVE  Linked(d, s, host[s])
      <4>1. 1 \in Nat /\ t \in Threads /\ c \in Copies /\ Linked(c, s, host[s])
        BY <1>2, <2>1
      <4>2. QED
        BY <3>4, <3>9, <4>1, MissedElsewhere
    <3>10. QED
      BY <1>8, <2>2, <3>5, <3>7, <3>8, <3>9
  <2>8. QED
    BY <2>6, <2>7
<1>10. Together(notified, hosts)
  <2>1. notified = [p \in Pages |-> notified[p]]
    OBVIOUS
  <2> HIDE DEF notified
  <2>2. notified \in [Pages -> Copies]
    BY <1>9, <2>1
  <2>3. QED
    BY <1>8, <1>9, <2>2 DEF Together
<1> HIDE DEF notified
<1>11. QED
  BY <1>1, <1>2, <1>10, AskingTogether

LEMMA CloseHostStep ==
  ASSUME WebInv, NEW t \in Threads, Web!CloseHost(t)
  PROVE  Together(page', host')
<1> DEFINE g == [host[t] EXCEPT !.open = FALSE, !.running = FALSE, !.asked = <<>>]
<1>1. Together(page, host) /\ host' = [host EXCEPT ![t] = g] /\ page' = page
  BY DEF WebInv, Web!CloseHost
<1>2. host[t] \in Hosts /\ host \in [Threads -> Hosts]
  BY <1>1 DEF Together
<1>3. g \in Hosts /\ g.gen = host[t].gen /\ g.seq = host[t].seq /\ ~g.open
  <2> DEFINE h == host[t]
  <2>1. h \in Hosts /\ g = [h EXCEPT !.open = FALSE, !.running = FALSE, !.asked = <<>>]
    BY <1>2
  <2> HIDE DEF h, g
  <2>2. g = [open |-> FALSE, gen |-> h.gen, seq |-> h.seq, running |-> FALSE, entries |-> h.entries, asked |-> <<>>]
    BY <2>1 DEF Hosts
  <2>3. h.gen \in Nat /\ h.seq \in Nat /\ h.entries \in Seq(Nat) /\ <<>> \in Seq(Nat)
    BY <2>1 DEF Hosts
  <2>4. g \in Hosts
    BY <2>2, <2>3 DEF Hosts
  <2>5. QED
    BY <2>2, <2>4 DEF h
<1> HIDE DEF g
<1>4. host' \in [Threads -> Hosts] /\ host'[t] = g /\ \A s \in Threads : s # t => host'[s] = host[s]
  BY <1>1, <1>2, <1>3
<1>5. ASSUME NEW p \in Pages
      PROVE  Linked(page[p], t, g)
  <2>1. Bounds(page[p], t, host[t])
    BY <1>1 DEF Together, Linked
  <2>2. Bounds(page[p], t, g)
    BY <1>3, <2>1 DEF Bounds, NotAhead
  <2>3. QED
    BY <1>3, <2>2 DEF Linked
<1>6. QED
  BY <1>1, <1>4, <1>5 DEF Together

-----------------------------------------------------------------------------
(* Pages *)

\* What page p keeps changes to d.
LEMMA OnePage ==
  ASSUME Together(page, host), NEW p \in Pages, NEW d \in Copies, Shaped(d), \A t \in Threads : Linked(d, t, host[t])
  PROVE  Together([page EXCEPT ![p] = d], host)
<1> DEFINE pages == [page EXCEPT ![p] = d]
<1>1. pages \in [Pages -> Copies] /\ \A q \in Pages : pages[q] = IF q = p THEN d ELSE page[q]
  BY DEF Together
<1> HIDE DEF pages
<1>2. Together(pages, host)
  BY <1>1 DEF Together
<1>3. QED
  BY <1>2 DEF pages

\* A snapshot shows the conversation as it is.
SnapshotOf(s, t, h) ==
  s.thread = t => Of(s, t, h) /\ s.seq = h.seq /\ View(s) = HostView(h)

LEMMA SnapshotIs ==
  ASSUME WebConstants, WebInv
  PROVE  /\ Web!Snapshot \in Messages /\ Web!Snapshot.kind = "snapshot"
         /\ \A t \in Threads : SnapshotOf(Web!Snapshot, t, host[t]) /\ NotAhead(Web!Snapshot, t, host[t])
<1>1. CASE current = None
  <2>1. /\ Web!Snapshot \in Messages /\ Web!Snapshot.kind = "snapshot" /\ Web!Snapshot.thread = None
    BY <1>1 DEF Web!Snapshot, Messages, Web!Quiet, States
  <2>2. QED
    BY <2>1 DEF WebConstants, SnapshotOf, NotAhead
<1>2. CASE current # None
  <2> DEFINE h == host[current]
  <2>1. current \in Threads /\ h \in Hosts
    BY <1>2 DEF WebInv, Together
  <2>2. h.gen \in Nat /\ h.seq \in Nat /\ h.entries \in Seq(Nat) /\ Web!State(h) \in States
    BY <2>1, HostShows DEF Hosts
  <2>3. Web!Snapshot = [kind |-> "snapshot", thread |-> current, gen |-> h.gen, seq |-> h.seq, entries |-> h.entries,
                    state |-> Web!State(h)]
    BY <1>2 DEF Web!Snapshot
  <2> HIDE DEF h
  <2>4. Web!Snapshot \in Messages
    BY <2>1, <2>2, <2>3 DEF Messages
  <2>5. View(Web!Snapshot) = HostView(h)
    BY <2>3 DEF View, HostView
  <2>6. ASSUME NEW t \in Threads
        PROVE  SnapshotOf(Web!Snapshot, t, host[t]) /\ NotAhead(Web!Snapshot, t, host[t])
    <3>1. CASE t = current
      BY <2>2, <2>3, <2>5, <3>1 DEF SnapshotOf, NotAhead, Of, h
    <3>2. CASE t # current
      BY <2>3, <3>2 DEF SnapshotOf, NotAhead
    <3>3. QED
      BY <3>1, <3>2
  <2>7. QED
    BY <2>3, <2>4, <2>6
<1>3. QED
  BY <1>1, <1>2

LEMMA ConnectLinked ==
  ASSUME NEW c \in Copies, ~c.connected, Shaped(c), NEW t \in Threads, NEW h \in Hosts, Linked(c, t, h),
         NEW s \in Messages, s.kind = "snapshot", SnapshotOf(s, t, h), NotAhead(s, t, h),
         NEW d, d = [c EXCEPT !.connected = TRUE, !.stream = <<s>>]
  PROVE  Linked(d, t, h)
<1>1. /\ d.thread = c.thread /\ d.gen = c.gen /\ d.seq = c.seq /\ d.late = c.late /\ View(d) = View(c)
      /\ d.replies = c.replies /\ d.passed = c.passed /\ d.stream = <<s>>
  BY DEF Copies, View
<1>2. DOMAIN d.stream = {1} /\ d.stream[1] = s /\ c.stream = <<>> /\ DOMAIN c.stream = {} /\ d.stream # <<>>
  BY <1>1 DEF Shaped
<1>3. ~PatchOf(s, t, h)
  BY DEF PatchOf, Patches
<1>4. Bounds(d, t, h)
  BY <1>1, <1>2 DEF Linked, Bounds, NotAhead
<1>5. ASSUME h.open
      PROVE  Cover(d, t, h)
  <2>1. Coming(c, t, h)
    BY <1>5 DEF Linked, Cover
  <2>2. \A n \in 1 .. h.seq : n <= d.passed[t]
    BY <1>1, <1>2, <2>1 DEF Coming, Has
  <2>3. Opening(d)
    BY <1>2 DEF Opening
  <2>4. d.stream[1].thread = t => \A n \in 1 .. h.seq : Of(d.stream[1], t, h) /\ n <= d.stream[1].seq
    BY <1>2 DEF SnapshotOf
  <2>5. Coming(d, t, h)
    BY <1>2, <1>3, <2>2, <2>4 DEF Coming
  <2>6. QED
    BY <2>3, <2>5 DEF Cover, Follows
<1>6. ASSUME NEW H, Traced(H, c, t, h)
      PROVE  Traced(H, d, t, h)
  <2>1. Of(s, t, h) => H[s.seq] = View(s)
    BY <1>6 DEF Traced, SnapshotOf, Of
  <2>2. QED
    BY <1>1, <1>2, <1>3, <1>6, <2>1 DEF Traced, Of
<1>7. QED
  BY <1>4, <1>5, <1>6 DEF Linked

LEMMA WebConnectStep ==
  ASSUME WebConstants, WebInv, NEW p \in Pages, Web!Connect(p)
  PROVE  Together(page', host')
<1> DEFINE c == page[p]
           d == [c EXCEPT !.connected = TRUE, !.stream = <<Web!Snapshot>>]
<1>1. Together(page, host) /\ host' = host /\ ~c.connected
  BY DEF WebInv, Web!Connect
<1>2. c \in Copies /\ Shaped(c) /\ \A t \in Threads : host[t] \in Hosts /\ Linked(c, t, host[t])
  BY <1>1 DEF Together
<1>3. page' = [page EXCEPT ![p] = d]
  BY <1>1 DEF Web!Connect, Together
<1>4. /\ Web!Snapshot \in Messages /\ Web!Snapshot.kind = "snapshot"
      /\ \A t \in Threads : SnapshotOf(Web!Snapshot, t, host[t]) /\ NotAhead(Web!Snapshot, t, host[t])
  BY SnapshotIs
<1> DEFINE s == Web!Snapshot
<1> HIDE DEF s
<1>5. d = [c EXCEPT !.connected = TRUE, !.stream = <<s>>]
  BY DEF s
<1>6. /\ s \in Messages /\ s.kind = "snapshot"
      /\ \A t \in Threads : SnapshotOf(s, t, host[t]) /\ NotAhead(s, t, host[t])
  BY <1>4 DEF s
<1> HIDE DEF d, c
<1>7. <<s>> \in Seq(Messages) /\ DOMAIN <<s>> = {1}
  BY <1>6
<1>8. d \in Copies /\ d.stream = <<s>> /\ d.connected /\ d.replies = c.replies
  BY <1>2, <1>5, <1>7 DEF Copies
<1>9. Shaped(d)
  BY <1>2, <1>7, <1>8 DEF Shaped
<1>10. \A t \in Threads : Linked(d, t, host[t])
  BY <1>1, <1>2, <1>5, <1>6, ConnectLinked
<1>11. QED
  BY <1>1, <1>3, <1>8, <1>9, <1>10, OnePage

LEMMA DisconnectStep ==
  ASSUME WebInv, NEW p \in Pages, Web!Disconnect(p)
  PROVE  Together(page', host')
<1> DEFINE c == page[p]
           b == [c EXCEPT !.connected = FALSE, !.stream = <<>>]
           S == {m \in Web!ToSet(c.stream) : m.kind # "snapshot"}
           d == Web!Told(b, S)
<1>1. Together(page, host) /\ host' = host
  BY DEF WebInv, Web!Disconnect
<1>2. /\ c \in Copies /\ Shaped(c) /\ host \in [Threads -> Hosts]
      /\ \A t \in Threads : host[t] \in Hosts /\ Linked(c, t, host[t])
  BY <1>1 DEF Together
<1>3. page' = [page EXCEPT ![p] = d]
  BY <1>1 DEF Web!Disconnect, Together
<1>4. c.stream \in Seq(Messages) /\ \A m \in S : \E i \in DOMAIN c.stream : m = c.stream[i]
  BY <1>2 DEF Copies, Web!ToSet
<1>5. S \in SUBSET Messages
  BY <1>4
<1>6. b \in Copies /\ b.passed = c.passed /\ b.stream = <<>> /\ b.replies = c.replies /\ ~b.connected
  <2>1. b.passed = c.passed /\ b.stream = <<>> /\ b.replies = c.replies /\ ~b.connected
    BY <1>2 DEF Copies
  <2>2. <<>> \in Seq(Messages) /\ FALSE \in BOOLEAN
    OBVIOUS
  <2> DEFINE q == <<>>
  <2> HIDE DEF c, S, d, q
  <2>3. b = [c EXCEPT !.connected = FALSE, !.stream = q] /\ q \in Seq(Messages)
    BY <2>2 DEF q
  <2> HIDE DEF b
  <2>4. b \in Copies
    BY <1>2, <2>3 DEF Copies
  <2>5. QED
    BY <2>1, <2>4
<1>7. b.thread = c.thread /\ b.gen = c.gen /\ b.seq = c.seq /\ b.late = c.late /\ View(b) = View(c)
  BY <1>2 DEF Copies, View
<1>8. \A i \in DOMAIN c.stream : c.stream[i].kind # "snapshot" => c.stream[i] \in S
  BY <1>2 DEF Copies, Web!ToSet
<1> HIDE DEF c, b, S
<1>9. \A t \in Threads : b.passed[t] <= host[t].seq /\ \A m \in S : NotAhead(m, t, host[t])
  BY <1>2, <1>4, <1>6 DEF Linked, Bounds
<1>10. /\ d = [b EXCEPT !.passed = d.passed] /\ d.passed \in [Threads -> Nat] /\ d \in Copies
       /\ \A t \in Threads : /\ b.passed[t] <= d.passed[t] /\ d.passed[t] <= host[t].seq
                             /\ \A m \in S : Of(m, t, host[t]) => m.seq <= d.passed[t]
  BY <1>2, <1>5, <1>6, <1>9, ToldLinks
<1> HIDE DEF d
<1>11. /\ d.thread = c.thread /\ d.gen = c.gen /\ d.seq = c.seq /\ d.late = c.late /\ View(d) = View(c)
       /\ d.stream = <<>> /\ d.replies = c.replies /\ ~d.connected
  BY <1>6, <1>7, <1>10 DEF Copies, View
<1>12. Shaped(d)
  BY <1>2, <1>11 DEF Shaped
<1>13. ASSUME NEW t \in Threads
       PROVE  Linked(d, t, host[t])
  <2> DEFINE h == host[t]
  <2>1. Linked(c, t, h) /\ h \in Hosts
    BY <1>2
  <2>2. DOMAIN d.stream = {} /\ ~Opening(d) /\ d.passed[t] <= h.seq
    BY <1>10, <1>11 DEF Opening
  <2>3. Bounds(d, t, h)
    BY <1>11, <2>1, <2>2 DEF Linked, Bounds, NotAhead
  <2>4. ASSUME h.open
        PROVE  Cover(d, t, h)
    <3>1. Coming(c, t, h)
      BY <2>1, <2>4 DEF Linked, Cover
    <3>2. ASSUME NEW n \in 1 .. h.seq
          PROVE  n <= d.passed[t]
      <4>1. c.passed[t] <= d.passed[t] /\ c.passed[t] \in Nat /\ d.passed[t] \in Nat
        BY <1>2, <1>6, <1>10 DEF Copies
      <4>2. CASE n <= c.passed[t]
        BY <4>1, <4>2
      <4>3. CASE Has(c, t, h, n)
        <5>1. PICK i \in DOMAIN c.stream : PatchOf(c.stream[i], t, h) /\ c.stream[i].seq = n
          BY <4>3 DEF Has
        <5>2. c.stream[i] \in S /\ Of(c.stream[i], t, h)
          BY <1>8, <5>1 DEF PatchOf, Patches
        <5>3. QED
          BY <1>10, <5>1, <5>2
      <4>4. QED
        BY <3>1, <4>2, <4>3 DEF Coming
    <3>3. QED
      BY <1>11, <2>2, <3>2 DEF Cover, Coming, Follows
  <2>5. ASSUME NEW H, Traced(H, c, t, h)
        PROVE  Traced(H, d, t, h)
    BY <1>11, <2>2, <2>5 DEF Traced, Of
  <2>6. QED
    BY <2>1, <2>3, <2>4, <2>5 DEF Linked
<1>14. QED
  BY <1>1, <1>3, <1>10, <1>12, <1>13, OnePage DEF c

\* Another snapshot is on its way to a page.
LEMMA ReplyLinked ==
  ASSUME NEW c \in Copies, NEW t \in Threads, NEW h \in Hosts, Linked(c, t, h),
         NEW s \in Messages, SnapshotOf(s, t, h), NotAhead(s, t, h),
         NEW d, d = [c EXCEPT !.wants = FALSE, !.replies = @ \cup {s}]
  PROVE  Linked(d, t, h)
<1>1. /\ d.thread = c.thread /\ d.gen = c.gen /\ d.seq = c.seq /\ d.late = c.late /\ View(d) = View(c)
      /\ d.replies = c.replies \cup {s} /\ d.passed = c.passed /\ d.stream = c.stream /\ d.connected = c.connected
  BY DEF Copies, View
<1>2. Bounds(d, t, h)
  BY <1>1 DEF Linked, Bounds, NotAhead
<1>3. h.open => Cover(d, t, h)
  BY <1>1 DEF Linked, Cover, Coming, Follows, Has, Of, Opening
<1>4. ASSUME NEW H, Traced(H, c, t, h)
      PROVE  Traced(H, d, t, h)
  <2>1. Of(s, t, h) => H[s.seq] = View(s)
    BY <1>4 DEF Traced, SnapshotOf, Of
  <2>2. QED
    BY <1>1, <1>4, <2>1 DEF Traced, Of
<1>5. QED
  BY <1>2, <1>3, <1>4 DEF Linked

LEMMA ReplyStep ==
  ASSUME WebConstants, WebInv, NEW p \in Pages, Web!Reply(p)
  PROVE  Together(page', host')
<1> DEFINE c == page[p]
           d == [c EXCEPT !.wants = FALSE, !.replies = @ \cup {Web!Snapshot}]
<1>1. Together(page, host) /\ host' = host
  BY DEF WebInv, Web!Reply
<1>2. c \in Copies /\ Shaped(c) /\ \A t \in Threads : host[t] \in Hosts /\ Linked(c, t, host[t])
  BY <1>1 DEF Together
<1>3. page' = [page EXCEPT ![p] = d]
  BY <1>1 DEF Web!Reply, Together
<1>4. /\ Web!Snapshot \in Messages /\ Web!Snapshot.kind = "snapshot"
      /\ \A t \in Threads : SnapshotOf(Web!Snapshot, t, host[t]) /\ NotAhead(Web!Snapshot, t, host[t])
  BY SnapshotIs
<1> DEFINE s == Web!Snapshot
<1> HIDE DEF s
<1>5. d = [c EXCEPT !.wants = FALSE, !.replies = @ \cup {s}]
  BY DEF s
<1>6. /\ s \in Messages /\ s.kind = "snapshot"
      /\ \A t \in Threads : SnapshotOf(s, t, host[t]) /\ NotAhead(s, t, host[t])
  BY <1>4 DEF s
<1> HIDE DEF d, c
<1>7. c.replies \cup {s} \in SUBSET Messages
  BY <1>2, <1>6 DEF Copies
<1>8. d \in Copies /\ d.stream = c.stream /\ d.connected = c.connected /\ d.replies = c.replies \cup {s}
  BY <1>2, <1>5, <1>7 DEF Copies
<1>9. Shaped(d)
  BY <1>2, <1>6, <1>8 DEF Shaped
<1>10. \A t \in Threads : Linked(d, t, host[t])
  BY <1>2, <1>5, <1>6, ReplyLinked
<1>11. QED
  BY <1>1, <1>3, <1>8, <1>9, <1>10, OnePage

LEMMA RefreshStep ==
  ASSUME WebInv, NEW p \in Pages, Web!Refresh(p)
  PROVE  Together(page', host')
<1> DEFINE d == [page[p] EXCEPT !.wants = TRUE]
<1>1. Together(page, host) /\ host' = host /\ page' = [page EXCEPT ![p] = d]
  BY DEF WebInv, Web!Refresh, Together
<1>2. page[p] \in Copies /\ Shaped(page[p]) /\ \A t \in Threads : Linked(page[p], t, host[t])
  BY <1>1 DEF Together
<1>3. d \in Copies /\ Alike(page[p], d)
  BY <1>2 DEF Copies, Alike
<1> HIDE DEF d
<1>4. Shaped(d) /\ \A t \in Threads : Linked(d, t, host[t])
  BY <1>2, <1>3, AlikeLinked
<1>5. QED
  BY <1>1, <1>3, <1>4, OnePage

\* A page shows a snapshot.
LEMMA ShownLinked ==
  ASSUME NEW b \in Copies, NEW s \in Messages, NEW t \in Threads, NEW h \in Hosts,
         Bounds(b, t, h), NotAhead(s, t, h),
         h.open => Coming(b, t, h) /\ \E H : Traced(H, b, t, h) /\ (Of(s, t, h) => H[s.seq] = View(s)),
         NEW d \in Copies, d.thread = s.thread, d.gen = s.gen, d.seq = s.seq, View(d) = View(s),
         d.stream = b.stream, d.replies = b.replies,
         b.passed[t] <= d.passed[t], d.passed[t] <= h.seq, d.thread = t /\ ~d.late => d.passed[t] = s.seq
  PROVE  Linked(d, t, h)
<1>1. b.passed[t] \in Nat /\ d.passed[t] \in Nat /\ h.seq \in Nat /\ s.seq \in Nat
  BY DEF Copies, Hosts, Messages
<1>2. Bounds(d, t, h)
  BY DEF Bounds, NotAhead
<1>3. ASSUME h.open
      PROVE  Cover(d, t, h)
  <2>1. Coming(b, t, h)
    BY <1>3
  <2>2. \A n : Has(b, t, h, n) <=> Has(d, t, h, n)
    BY DEF Has
  <2>3. \A n \in 1 .. h.seq : n <= d.passed[t] \/ Has(d, t, h, n)
    BY <1>1, <2>1, <2>2 DEF Coming
  <2>4. Opening(d) <=> Opening(b)
    BY DEF Opening
  <2>5. Coming(d, t, h)
    BY <2>1, <2>2, <2>3, <2>4 DEF Coming
  <2>6. Follows(d, t, h)
    <3> SUFFICES ASSUME Of(d, t, h), ~d.late, NEW n \in (d.seq + 1) .. h.seq PROVE Has(d, t, h, n)
      BY DEF Follows
    <3>1. d.passed[t] = s.seq
      BY DEF Of
    <3>2. n \in 1 .. h.seq /\ ~(n <= d.passed[t])
      BY <1>1, <3>1
    <3>3. QED
      BY <2>3, <3>2
  <2>7. QED
    BY <2>5, <2>6 DEF Cover
<1>4. ASSUME NEW H, Traced(H, b, t, h), Of(s, t, h) => H[s.seq] = View(s)
      PROVE  Traced(H, d, t, h)
  BY <1>4 DEF Traced, Of
<1>5. QED
  BY <1>2, <1>3, <1>4 DEF Linked

\* A snapshot that is older than what the page shows changes nothing; otherwise it is shown.
LEMMA ShownTogether ==
  ASSUME WebConstants, Together(page, host), NEW p \in Pages, NEW b \in Copies, NEW s \in Messages,
         Shaped(b),
         \A t \in Threads : /\ Bounds(b, t, host[t]) /\ NotAhead(s, t, host[t])
                            /\ host[t].open => /\ Coming(b, t, host[t])
                                               /\ \E H : /\ Traced(H, b, t, host[t])
                                                         /\ Of(s, t, host[t]) => H[s.seq] = View(s),
         \A t \in Threads : s.thread = b.thread /\ s.seq < b.seq /\ host[t].open => Follows(b, t, host[t])
  PROVE  Together([page EXCEPT ![p] = Web!Shown(b, s)], host)
<1>1. host \in [Threads -> Hosts]
  BY DEF Together
<1>2. CASE s.thread = b.thread /\ s.seq < b.seq
  <2>1. Web!Shown(b, s) = b
    BY <1>2 DEF Web!Shown
  <2>2. \A t \in Threads : Linked(b, t, host[t])
    BY <1>2 DEF Linked, Cover
  <2>3. QED
    BY <2>1, <2>2, OnePage
<1>3. CASE ~(s.thread = b.thread /\ s.seq < b.seq)
  <2> DEFINE S == {s}
             e == Web!Told(b, S)
             d == Web!Shown(b, s)
  <2>1. S \in SUBSET Messages /\ \A t \in Threads : b.passed[t] <= host[t].seq /\ \A m \in S : NotAhead(m, t, host[t])
    BY DEF Bounds
  <2>2. e = Web!Told(b, {s})
    OBVIOUS
  <2> HIDE DEF S
  <2>3. /\ e = [b EXCEPT !.passed = e.passed] /\ e.passed \in [Threads -> Nat] /\ e \in Copies
        /\ \A t \in Threads : b.passed[t] <= e.passed[t] /\ e.passed[t] <= host[t].seq
    BY <1>1, <2>1, ToldLinks
  <2> HIDE DEF e
  <2>4. d = [e EXCEPT !.thread = s.thread, !.gen = s.gen, !.seq = s.seq, !.entries = s.entries,
                      !.state = s.state, !.begun = TRUE,
                      !.late = s.thread # None /\ e.passed[s.thread] # s.seq]
    BY <1>3, <2>2 DEF Web!Shown
  <2> HIDE DEF d
  <2> DEFINE l == s.thread # None /\ e.passed[s.thread] # s.seq
  <2>5. l \in BOOLEAN
    OBVIOUS
  <2>6. d = [e EXCEPT !.thread = s.thread, !.gen = s.gen, !.seq = s.seq, !.entries = s.entries,
                      !.state = s.state, !.begun = TRUE, !.late = l]
    BY <2>4
  <2>7. \A t \in Threads : s.thread = t /\ ~l => e.passed[t] = s.seq
    BY DEF WebConstants
  <2> HIDE DEF l
  <2>8. s.thread \in Threads \cup {None} /\ s.gen \in Nat /\ s.seq \in Nat /\ s.entries \in Seq(Nat)
            /\ s.state \in States
    BY DEF Messages
  <2>9. d \in Copies
    BY <2>3, <2>5, <2>6, <2>8 DEF Copies
  <2>10. /\ d.thread = s.thread /\ d.gen = s.gen /\ d.seq = s.seq /\ d.entries = s.entries /\ d.state = s.state
         /\ d.late = l /\ d.stream = e.stream /\ d.replies = e.replies /\ d.connected = e.connected
         /\ d.passed = e.passed
    BY <2>3, <2>6 DEF Copies
  <2>11. e.stream = b.stream /\ e.replies = b.replies /\ e.connected = b.connected
    BY <2>3 DEF Copies
  <2>12. Shaped(d)
    BY <2>10, <2>11 DEF Shaped
  <2>13. View(d) = View(s)
    BY <2>10 DEF View
  <2>14. ASSUME NEW t \in Threads
         PROVE  Linked(d, t, host[t])
    <3>1. host[t] \in Hosts /\ Bounds(b, t, host[t]) /\ NotAhead(s, t, host[t])
      BY <1>1
    <3>2. b.passed[t] <= d.passed[t] /\ d.passed[t] <= host[t].seq /\ (d.thread = t /\ ~d.late => d.passed[t] = s.seq)
      BY <2>3, <2>7, <2>10
    <3>3. host[t].open => /\ Coming(b, t, host[t])
                          /\ \E H : Traced(H, b, t, host[t]) /\ (Of(s, t, host[t]) => H[s.seq] = View(s))
      OBVIOUS
    <3>4. d.stream = b.stream /\ d.replies = b.replies
      BY <2>10, <2>11
    <3>5. QED
      BY <2>9, <2>10, <2>13, <3>1, <3>2, <3>3, <3>4, ShownLinked
  <2>15. QED
    BY <2>9, <2>12, <2>14, OnePage DEF d
<1>4. QED
  BY <1>2, <1>3

LEMMA ReadReplyStep ==
  ASSUME WebConstants, WebInv, NEW p \in Pages, Web!ReadReply(p)
  PROVE  Together(page', host')
<1> DEFINE c == page[p]
<1>1. PICK s \in c.replies : page' = [page EXCEPT ![p] = Web!Shown([page[p] EXCEPT !.replies = @ \ {s}], s)]
  BY DEF Web!ReadReply
<1>2. Together(page, host) /\ host' = host
  BY DEF WebInv, Web!ReadReply
<1> DEFINE b == [c EXCEPT !.replies = @ \ {s}]
<1>3. page' = [page EXCEPT ![p] = Web!Shown(b, s)]
  BY <1>1
<1>4. c \in Copies /\ Shaped(c) /\ \A t \in Threads : host[t] \in Hosts /\ Linked(c, t, host[t])
  BY <1>2 DEF Together
<1> HIDE DEF c
<1>5. s \in Messages /\ c.replies \ {s} \in SUBSET Messages /\ s.kind = "snapshot"
  BY <1>4 DEF Copies, Shaped
<1>6. b \in Copies
  BY <1>4, <1>5 DEF Copies
<1>7. /\ b.thread = c.thread /\ b.gen = c.gen /\ b.seq = c.seq /\ b.late = c.late /\ View(b) = View(c)
      /\ b.replies = c.replies \ {s} /\ b.passed = c.passed /\ b.stream = c.stream /\ b.connected = c.connected
  BY <1>4 DEF Copies, View
<1> HIDE DEF b
<1>8. Shaped(b)
  BY <1>4, <1>7 DEF Shaped
<1>9. ASSUME NEW t \in Threads
      PROVE  /\ Bounds(b, t, host[t]) /\ NotAhead(s, t, host[t]) /\ Linked(b, t, host[t])
             /\ host[t].open => \E H : Traced(H, b, t, host[t]) /\ (Of(s, t, host[t]) => H[s.seq] = View(s))
  <2> DEFINE h == host[t]
  <2>1. Linked(c, t, h) /\ Bounds(c, t, h)
    BY <1>4 DEF Linked
  <2> HIDE DEF h
  <2>2. Bounds(b, t, h) /\ NotAhead(s, t, h)
    BY <1>7, <2>1 DEF Bounds, NotAhead
  <2>3. h.open => Cover(b, t, h)
    BY <1>7, <2>1 DEF Linked, Cover, Coming, Follows, Has, Of, Opening
  <2>4. ASSUME NEW H, Traced(H, c, t, h)
        PROVE  Traced(H, b, t, h) /\ (Of(s, t, h) => H[s.seq] = View(s))
    BY <1>7, <2>4 DEF Traced, Of
  <2>5. QED
    BY <2>1, <2>2, <2>3, <2>4 DEF Linked, h
<1>10. \A t \in Threads : host[t].open => Coming(b, t, host[t]) /\ Follows(b, t, host[t])
  BY <1>9 DEF Linked, Cover
<1>11. Together([page EXCEPT ![p] = Web!Shown(b, s)], host)
  BY <1>2, <1>5, <1>6, <1>8, <1>9, <1>10, ShownTogether
<1>12. QED
  BY <1>2, <1>3, <1>11


\* The first message of a stream is taken off it.
LEMMA TailFacts ==
  ASSUME NEW c \in Copies, Shaped(c), c.stream # <<>>, NEW b, b = [c EXCEPT !.stream = Tail(@)], NEW m, m
      = Head(c.stream)
  PROVE  /\ m \in Messages /\ b \in Copies /\ Shaped(b) /\ ~Opening(b) /\ c.connected
         /\ b.thread = c.thread /\ b.gen = c.gen /\ b.seq = c.seq /\ b.late = c.late /\ b.entries = c.entries
         /\ b.state = c.state /\ b.replies = c.replies /\ b.passed = c.passed /\ b.connected = c.connected
         /\ c.stream \in Seq(Messages) /\ 1 \in DOMAIN c.stream /\ c.stream[1] = m
         /\ \A i \in DOMAIN b.stream : i + 1 \in DOMAIN c.stream /\ b.stream[i] = c.stream[i + 1] /\ i > 0 /\ i \in Nat
         /\ \A i \in DOMAIN c.stream : i = 1 \/ (i - 1 \in DOMAIN b.stream /\ b.stream[i - 1] = c.stream[i])
<1>1. c.stream \in Seq(Messages)
  BY DEF Copies
<1>2. Tail(c.stream) \in Seq(Messages) /\ m \in Messages /\ m = c.stream[1] /\ 1 \in DOMAIN c.stream
  BY <1>1
<1> DEFINE r == Tail(c.stream)
<1>3. DOMAIN c.stream = 1 .. Len(c.stream) /\ Len(c.stream) \in Nat
  BY <1>1
<1>4. DOMAIN r = 1 .. Len(c.stream) - 1 /\ \A i \in 1 .. Len(c.stream) - 1 : r[i] = c.stream[i + 1]
  BY <1>1, <1>3
<1>5. /\ \A i \in DOMAIN r : i + 1 \in DOMAIN c.stream /\ r[i] = c.stream[i + 1] /\ i > 0 /\ i \in Nat
      /\ \A i \in DOMAIN c.stream : i = 1 \/ (i - 1 \in DOMAIN r /\ r[i - 1] = c.stream[i])
  <2> HIDE DEF r
  <2>1. QED
    BY <1>3, <1>4
<1>6. b = [c EXCEPT !.stream = r]
  OBVIOUS
<1>7. r \in Seq(Messages)
  BY <1>2
<1> HIDE DEF r
<1>8. b \in Copies
  BY <1>6, <1>7 DEF Copies
<1>9. /\ b.thread = c.thread /\ b.gen = c.gen /\ b.seq = c.seq /\ b.late = c.late /\ b.entries = c.entries
      /\ b.state = c.state /\ b.replies = c.replies /\ b.passed = c.passed /\ b.connected = c.connected
      /\ b.stream = r
  BY <1>6 DEF Copies
<1>10. c.connected
  BY DEF Shaped
<1>11. \A i \in DOMAIN r : r[i].kind # "snapshot"
  <2>1. ASSUME NEW i \in DOMAIN r, r[i].kind = "snapshot"
        PROVE  FALSE
    <3>1. i + 1 \in DOMAIN c.stream /\ r[i] = c.stream[i + 1] /\ i > 0 /\ i \in Nat
      BY <1>5
    <3>2. i + 1 = 1
      BY <2>1, <3>1 DEF Shaped
    <3>3. QED
      BY <3>1, <3>2
  <2>2. QED
    BY <2>1
<1>12. Shaped(b)
  BY <1>9, <1>10, <1>11 DEF Shaped
<1>13. ~Opening(b)
  <2>1. r # <<>> => 1 \in DOMAIN r
    BY <1>7
  <2>2. QED
    BY <1>9, <1>11, <2>1 DEF Opening
<1>14. QED
  BY <1>1, <1>2, <1>5, <1>8, <1>9, <1>10, <1>12, <1>13

\* What that leaves of conversation t.
Leaves(c, b, m, t, h) ==
  /\ Bounds(b, t, h) /\ NotAhead(m, t, h)
  /\ \A n : Has(b, t, h, n) => Has(c, t, h, n)
  /\ \A n : Has(c, t, h, n) => Has(b, t, h, n) \/ (PatchOf(m, t, h) /\ m.seq = n)
  /\ h.open => \A i, j \in DOMAIN b.stream : i < j /\ PatchOf(b.stream[i], t, h) /\ PatchOf(b.stream[j], t, h) =>
                 b.stream[i].seq < b.stream[j].seq
  /\ h.open /\ PatchOf(m, t, h) => \A n : Has(b, t, h, n) => m.seq < n
  /\ \A H : Traced(H, c, t, h) =>
       /\ Traced(H, b, t, h)
       /\ PatchOf(m, t, h) => m.seq > 0 /\ H[m.seq] = After(H[m.seq - 1], m)
       /\ m.kind = "snapshot" /\ Of(m, t, h) => H[m.seq] = View(m)

LEMMA TailLinks ==
  ASSUME NEW c \in Copies, Shaped(c), c.stream # <<>>, NEW b, b = [c EXCEPT !.stream = Tail(@)], NEW m, m
      = Head(c.stream),
         NEW t \in Threads, NEW h \in Hosts, Linked(c, t, h)
  PROVE  Leaves(c, b, m, t, h)
<1>1. /\ m \in Messages /\ b \in Copies
      /\ b.thread = c.thread /\ b.gen = c.gen /\ b.seq = c.seq /\ b.late = c.late /\ View(b) = View(c)
      /\ b.replies = c.replies /\ b.passed = c.passed
      /\ 1 \in DOMAIN c.stream /\ c.stream[1] = m
      /\ \A i \in DOMAIN b.stream : i + 1 \in DOMAIN c.stream /\ b.stream[i] = c.stream[i + 1] /\ i > 0 /\ i \in Nat
      /\ \A i \in DOMAIN c.stream : i = 1 \/ (i - 1 \in DOMAIN b.stream /\ b.stream[i - 1] = c.stream[i])
  BY TailFacts DEF View
<1>2. Bounds(b, t, h) /\ NotAhead(m, t, h)
  <2>1. Bounds(c, t, h)
    BY DEF Linked
  <2>2. \A i \in DOMAIN b.stream : NotAhead(b.stream[i], t, h)
    BY <1>1, <2>1 DEF Bounds
  <2>3. NotAhead(m, t, h)
    BY <1>1, <2>1 DEF Bounds
  <2>4. ~b.late => NotAhead(b, t, h)
    BY <1>1, <2>1 DEF Bounds, NotAhead
  <2>5. QED
    BY <1>1, <2>1, <2>2, <2>3, <2>4 DEF Bounds
<1>3. \A n : Has(b, t, h, n) => Has(c, t, h, n)
  BY <1>1 DEF Has
<1>4. \A n : Has(c, t, h, n) => Has(b, t, h, n) \/ (PatchOf(m, t, h) /\ m.seq = n)
  <2>1. ASSUME NEW n, NEW i \in DOMAIN c.stream, PatchOf(c.stream[i], t, h), c.stream[i].seq = n
        PROVE  Has(b, t, h, n) \/ (PatchOf(m, t, h) /\ m.seq = n)
    <3>1. CASE i = 1
      BY <1>1, <2>1, <3>1
    <3>2. CASE i - 1 \in DOMAIN b.stream /\ b.stream[i - 1] = c.stream[i]
      BY <2>1, <3>2 DEF Has
    <3>3. QED
      BY <1>1, <3>1, <3>2
  <2>2. QED
    BY <2>1 DEF Has
<1>5. ASSUME h.open
      PROVE  /\ \A i, j \in DOMAIN b.stream : i < j /\ PatchOf(b.stream[i], t, h) /\ PatchOf(b.stream[j], t, h) =>
                  b.stream[i].seq < b.stream[j].seq
             /\ PatchOf(m, t, h) => \A n : Has(b, t, h, n) => m.seq < n
  <2>1. \A i, j \in DOMAIN c.stream : i < j /\ PatchOf(c.stream[i], t, h) /\ PatchOf(c.stream[j], t, h) =>
          c.stream[i].seq < c.stream[j].seq
    BY <1>5 DEF Linked, Cover, Coming
  <2>2. ASSUME NEW i \in DOMAIN b.stream, NEW j \in DOMAIN b.stream, i < j,
               PatchOf(b.stream[i], t, h), PatchOf(b.stream[j], t, h)
        PROVE  b.stream[i].seq < b.stream[j].seq
    <3>1. /\ i + 1 \in DOMAIN c.stream /\ j + 1 \in DOMAIN c.stream /\ i + 1 < j + 1
          /\ b.stream[i] = c.stream[i + 1] /\ b.stream[j] = c.stream[j + 1]
      BY <1>1, <2>2
    <3> DEFINE k == i + 1
               l == j + 1
    <3>2. k \in DOMAIN c.stream /\ l \in DOMAIN c.stream /\ k < l
      BY <3>1
    <3>3. b.stream[i] = c.stream[k] /\ b.stream[j] = c.stream[l]
      BY <3>1
    <3> HIDE DEF k, l
    <3>4. QED
      BY <2>1, <2>2, <3>2, <3>3
  <2>3. ASSUME PatchOf(m, t, h), NEW i \in DOMAIN b.stream, PatchOf(b.stream[i], t, h)
        PROVE  m.seq < b.stream[i].seq
    <3> DEFINE k == i + 1
    <3>1. k \in DOMAIN c.stream /\ 1 \in DOMAIN c.stream /\ 1 < k /\ b.stream[i] = c.stream[k] /\ c.stream[1] = m
      BY <1>1, <2>3
    <3> HIDE DEF k
    <3>2. QED
      BY <2>1, <2>3, <3>1
  <2>4. QED
    BY <2>2, <2>3 DEF Has
<1>6. ASSUME NEW H, Traced(H, c, t, h)
      PROVE  /\ Traced(H, b, t, h)
             /\ PatchOf(m, t, h) => m.seq > 0 /\ H[m.seq] = After(H[m.seq - 1], m)
             /\ m.kind = "snapshot" /\ Of(m, t, h) => H[m.seq] = View(m)
  <2>1. \A i \in DOMAIN c.stream :
          /\ PatchOf(c.stream[i], t, h) =>
               c.stream[i].seq > 0 /\ H[c.stream[i].seq] = After(H[c.stream[i].seq - 1], c.stream[i])
          /\ c.stream[i].kind = "snapshot" /\ Of(c.stream[i], t, h) => H[c.stream[i].seq] = View(c.stream[i])
    BY <1>6 DEF Traced
  <2>2. \A i \in DOMAIN b.stream :
          /\ PatchOf(b.stream[i], t, h) =>
               b.stream[i].seq > 0 /\ H[b.stream[i].seq] = After(H[b.stream[i].seq - 1], b.stream[i])
          /\ b.stream[i].kind = "snapshot" /\ Of(b.stream[i], t, h) => H[b.stream[i].seq] = View(b.stream[i])
    BY <1>1, <2>1
  <2>3. Traced(H, b, t, h)
    BY <1>1, <1>6, <2>2 DEF Traced, Of
  <2>4. QED
    BY <1>1, <2>1, <2>3
<1>7. QED
  BY <1>2, <1>3, <1>4, <1>5, <1>6 DEF Leaves

\* A patch is read, and not applied: it is of another conversation, or what the page shows has counted it.
Heard(c, m, t, h, e) ==
  /\ Bounds(e, t, h) /\ (h.open => Coming(e, t, h)) /\ \A H : Traced(H, c, t, h) => Traced(H, e, t, h)
  /\ m.thread # c.thread \/ m.seq <= c.seq => Linked(e, t, h)

LEMMA HeardLinked ==
  ASSUME NEW c \in Copies, Shaped(c), c.stream # <<>>, NEW b, b = [c EXCEPT !.stream = Tail(@)], NEW m, m
      = Head(c.stream),
         m.kind \in Patches, NEW t \in Threads, NEW h \in Hosts, Linked(c, t, h),
         NEW e \in Copies, e = [b EXCEPT !.passed = e.passed],
         b.passed[t] <= e.passed[t], e.passed[t] <= h.seq, Of(m, t, h) => m.seq <= e.passed[t]
  PROVE  Heard(c, m, t, h, e)
<1>0. Leaves(c, b, m, t, h)
  BY TailLinks
<1>1. /\ m \in Messages /\ b \in Copies /\ Shaped(b) /\ ~Opening(b) /\ c.connected
      /\ b.thread = c.thread /\ b.gen = c.gen /\ b.seq = c.seq /\ b.late = c.late /\ View(b) = View(c)
      /\ b.replies = c.replies /\ b.passed = c.passed /\ b.connected = c.connected
      /\ 1 \in DOMAIN c.stream /\ c.stream[1] = m
  BY TailFacts DEF View
<1>2. /\ e.thread = b.thread /\ e.gen = b.gen /\ e.seq = b.seq /\ e.late = b.late /\ View(e) = View(b)
      /\ e.replies = b.replies /\ e.stream = b.stream /\ e.connected = b.connected
  BY <1>1 DEF Copies, View
<1>3. /\ Bounds(b, t, h) /\ NotAhead(m, t, h)
      /\ \A n : Has(b, t, h, n) => Has(c, t, h, n)
      /\ \A n : Has(c, t, h, n) => Has(b, t, h, n) \/ (PatchOf(m, t, h) /\ m.seq = n)
  BY <1>0 DEF Leaves
<1>4. /\ h.open => \A i, j \in DOMAIN b.stream : i < j /\ PatchOf(b.stream[i], t, h) /\ PatchOf(b.stream[j], t, h) =>
                     b.stream[i].seq < b.stream[j].seq
      /\ \A H : Traced(H, c, t, h) => Traced(H, b, t, h)
  BY <1>0 DEF Leaves
<1>5. \A n : Has(e, t, h, n) <=> Has(b, t, h, n)
  BY <1>2 DEF Has
<1>6. ~Opening(e) /\ ~Opening(c)
  BY <1>1, <1>2 DEF Opening, Patches
<1>7. b.passed[t] \in Nat /\ e.passed[t] \in Nat /\ h.seq \in Nat /\ m.seq \in Nat /\ c.seq \in Nat
  BY <1>1 DEF Copies, Hosts, Messages
<1>8. Bounds(e, t, h)
  BY <1>2, <1>3 DEF Bounds, NotAhead
<1>9. ASSUME h.open
      PROVE  Coming(e, t, h)
  <2>1. Coming(c, t, h)
    BY <1>9 DEF Linked, Cover
  <2>2. ASSUME NEW n \in 1 .. h.seq
        PROVE  n <= e.passed[t] \/ Has(e, t, h, n)
    <3>1. CASE n <= c.passed[t]
      BY <1>1, <1>7, <3>1
    <3>2. CASE Has(b, t, h, n)
      BY <1>5, <3>2
    <3>3. CASE PatchOf(m, t, h) /\ m.seq = n
      BY <3>3 DEF PatchOf
    <3>4. QED
      BY <1>3, <2>1, <3>1, <3>2, <3>3 DEF Coming
  <2>3. QED
    BY <1>2, <1>4, <1>6, <1>9, <2>2 DEF Coming
<1>10. ASSUME NEW H, Traced(H, c, t, h)
       PROVE  Traced(H, e, t, h)
  <2>1. Traced(H, b, t, h)
    BY <1>4, <1>10
  <2>2. QED
    BY <1>2, <2>1 DEF Traced, Of
<1>11. ASSUME m.thread # c.thread \/ m.seq <= c.seq
       PROVE  Linked(e, t, h)
  <2>1. ASSUME h.open
        PROVE  Follows(e, t, h)
    <3> SUFFICES ASSUME Of(e, t, h), ~e.late, NEW n \in (e.seq + 1) .. h.seq PROVE Has(e, t, h, n)
      BY DEF Follows
    <3>1. Of(c, t, h) /\ ~c.late /\ c.connected /\ n \in (c.seq + 1) .. h.seq
      BY <1>1, <1>2 DEF Of
    <3>2. Has(c, t, h, n)
      BY <1>6, <2>1, <3>1 DEF Linked, Cover, Follows
    <3>3. ~(PatchOf(m, t, h) /\ m.seq = n)
      <4>1. m.thread = c.thread => m.seq <= c.seq
        BY <1>11
      <4>2. PatchOf(m, t, h) => m.thread = c.thread
        BY <3>1 DEF PatchOf, Of
      <4>3. ~(n <= c.seq)
        BY <1>7, <3>1
      <4>4. QED
        BY <4>1, <4>2, <4>3
    <3>4. QED
      BY <1>3, <1>5, <3>2, <3>3
  <2>2. QED
    BY <1>8, <1>9, <1>10, <2>1 DEF Linked, Cover
<1>12. QED
  BY <1>8, <1>9, <1>10, <1>11 DEF Heard

\* What a patch makes of a copy.
LEMMA PatchedIs ==
  ASSUME NEW e \in Copies, NEW m \in Messages, m.kind \in Patches
  PROVE  LET d == Web!Patched(e, m)
         IN  /\ d \in Copies /\ d.thread = e.thread /\ d.gen = e.gen /\ d.seq = m.seq /\ d.stream = e.stream
             /\ d.replies = e.replies /\ d.connected = e.connected /\ d.passed = e.passed
             /\ d.late <=> e.late \/ m.gen # e.gen
             /\ View(d) = After(View(e), m)
<1> DEFINE x == e.entries
           y == CASE m.kind = "append" -> Append(x, 0)
                  [] m.kind = "delta" -> IF x = <<>> THEN <<>> ELSE [x EXCEPT ![Len(x)] = @ + 1]
                  [] m.kind = "reset" -> m.entries
                  [] m.kind = "state" -> x
           z == IF m.kind = "state" THEN m.state ELSE e.state
           w == IF m.kind = "state" THEN e.wants \/ (e.state.busy /\ ~m.state.busy) ELSE e.wants
           l == e.late \/ m.gen # e.gen
           d == Web!Patched(e, m)
<1>1. /\ e.entries \in Seq(Nat) /\ e.state \in States /\ e.wants \in BOOLEAN /\ e.late \in BOOLEAN
      /\ m.seq \in Nat /\ m.entries \in Seq(Nat) /\ m.state \in States
  BY DEF Copies, Messages
<1>2. y \in Seq(Nat)
  <2>1. Append(x, 0) \in Seq(Nat)
    BY <1>1
  <2>2. x # <<>> => [x EXCEPT ![Len(x)] = @ + 1] \in Seq(Nat)
    <3>1. x # <<>> => Len(x) \in 1 .. Len(x) /\ x[Len(x)] \in Nat
      BY <1>1
    <3>2. QED
      BY <1>1, <3>1
  <2>3. <<>> \in Seq(Nat)
    OBVIOUS
  <2> DEFINE u == Append(x, 0)
             v == [x EXCEPT ![Len(x)] = @ + 1]
  <2> HIDE DEF u, v, x
  <2>4. u \in Seq(Nat) /\ (x # <<>> => v \in Seq(Nat)) /\ x \in Seq(Nat)
    BY <1>1, <2>1, <2>2 DEF u, v, x
  <2>5. y = CASE m.kind = "append" -> u
              [] m.kind = "delta" -> IF x = <<>> THEN <<>> ELSE v
              [] m.kind = "reset" -> m.entries
              [] m.kind = "state" -> x
    BY DEF u, v
  <2> HIDE DEF y
  <2>6. QED
    BY <1>1, <2>3, <2>4, <2>5 DEF Patches
<1>3. z \in States /\ w \in BOOLEAN /\ l \in BOOLEAN
  BY <1>1 DEF States
<1>4. d = [e EXCEPT !.seq = m.seq, !.late = l, !.entries = y, !.state = z, !.wants = w]
  <2>1. CASE m.kind = "append"
    BY <2>1 DEF Web!Patched, Copies
  <2>2. CASE m.kind = "delta"
    BY <2>2 DEF Web!Patched, Copies
  <2>3. CASE m.kind = "reset"
    BY <2>3 DEF Web!Patched, Copies
  <2>4. CASE m.kind = "state"
    BY <2>4 DEF Web!Patched, Copies
  <2>5. QED
    BY <2>1, <2>2, <2>3, <2>4 DEF Patches
<1>5. View(e).entries = x /\ View(e).state = e.state
  BY DEF View
<1>6. After(View(e), m) = [entries |-> y, state |-> z]
  BY <1>5 DEF After
<1> HIDE DEF x, y, z, w, l, d
<1>7. d \in Copies
  BY <1>1, <1>2, <1>3, <1>4 DEF Copies
<1>8. /\ d.thread = e.thread /\ d.gen = e.gen /\ d.seq = m.seq /\ d.stream = e.stream
      /\ d.replies = e.replies /\ d.connected = e.connected /\ d.passed = e.passed
      /\ d.late = l /\ d.entries = y /\ d.state = z
  BY <1>4 DEF Copies
<1>9. View(d) = After(View(e), m)
  BY <1>6, <1>8 DEF View
<1>10. d.late <=> e.late \/ m.gen # e.gen
  BY <1>8 DEF l
<1>11. QED
  BY <1>7, <1>8, <1>9, <1>10 DEF d

\* A patch is read and applied: it is the next change of what the page shows.
LEMMA AppliedLinked ==
  ASSUME NEW c \in Copies, Shaped(c), c.stream # <<>>, NEW b, b = [c EXCEPT !.stream = Tail(@)], NEW m, m
      = Head(c.stream),
         m.kind \in Patches, NEW t \in Threads, NEW h \in Hosts, Linked(c, t, h),
         NEW e \in Copies, e = [b EXCEPT !.passed = e.passed],
         b.passed[t] <= e.passed[t], e.passed[t] <= h.seq, Of(m, t, h) => m.seq <= e.passed[t],
         m.thread = c.thread, ~(m.seq <= c.seq)
  PROVE  Linked(Web!Patched(e, m), t, h)
<1> DEFINE d == Web!Patched(e, m)
<1>1. /\ m \in Messages /\ b \in Copies /\ c.connected /\ ~Opening(b)
      /\ b.thread = c.thread /\ b.gen = c.gen /\ b.seq = c.seq /\ b.late = c.late /\ View(b) = View(c)
      /\ b.connected = c.connected /\ 1 \in DOMAIN c.stream /\ c.stream[1] = m
  BY TailFacts DEF View
<1>2. /\ e.thread = c.thread /\ e.gen = c.gen /\ e.seq = c.seq /\ e.late = c.late /\ View(e) = View(c)
      /\ e.stream = b.stream /\ e.connected
  BY <1>1 DEF Copies, View
<1>3. /\ d \in Copies /\ d.thread = e.thread /\ d.gen = e.gen /\ d.seq = m.seq /\ d.stream = e.stream
      /\ d.replies = e.replies /\ d.connected = e.connected /\ d.passed = e.passed
      /\ d.late <=> e.late \/ m.gen # e.gen
      /\ View(d) = After(View(e), m)
  BY <1>1, PatchedIs
<1>4. Bounds(e, t, h) /\ (h.open => Coming(e, t, h)) /\ \A H : Traced(H, c, t, h) => Traced(H, e, t, h)
  <2>1. Heard(c, m, t, h, e)
    BY HeardLinked
  <2>2. QED
    BY <2>1 DEF Heard
<1>5. /\ NotAhead(m, t, h)
      /\ \A n : Has(c, t, h, n) => Has(b, t, h, n) \/ (PatchOf(m, t, h) /\ m.seq = n)
      /\ h.open /\ PatchOf(m, t, h) => \A n : Has(b, t, h, n) => m.seq < n
      /\ \A H : Traced(H, c, t, h) => (PatchOf(m, t, h) => m.seq > 0 /\ H[m.seq] = After(H[m.seq - 1], m))
  <2>1. Leaves(c, b, m, t, h)
    BY TailLinks
  <2>2. QED
    BY <2>1 DEF Leaves
<1>6. m.seq \in Nat /\ c.seq \in Nat /\ h.seq \in Nat
  BY <1>1 DEF Copies, Messages, Hosts
<1> HIDE DEF d
<1>7. Of(d, t, h) /\ ~d.late => Of(c, t, h) /\ ~c.late /\ PatchOf(m, t, h) /\ Of(m, t, h)
  BY <1>2, <1>3 DEF PatchOf, Of
<1>8. ~Opening(c) /\ ~Opening(d)
  BY <1>1, <1>2, <1>3 DEF Opening, Patches
<1>9. ASSUME h.open, Of(d, t, h), ~d.late
      PROVE  m.seq = c.seq + 1
  <2>1. m.seq <= h.seq
    BY <1>5, <1>7, <1>9 DEF NotAhead, Of
  <2>2. c.seq + 1 \in (c.seq + 1) .. h.seq
    BY <1>6, <2>1
  <2>3. Has(c, t, h, c.seq + 1)
    BY <1>1, <1>7, <1>8, <1>9, <2>2 DEF Linked, Cover, Follows
  <2>4. CASE Has(b, t, h, c.seq + 1)
    <3>1. m.seq < c.seq + 1
      BY <1>5, <1>7, <1>9, <2>4
    <3>2. QED
      BY <1>6, <3>1
  <2>5. QED
    BY <1>5, <2>3, <2>4
<1>10. Bounds(d, t, h)
  <2>1. ~d.late => NotAhead(d, t, h)
    <3> SUFFICES ASSUME ~d.late, d.thread = t PROVE d.gen <= h.gen /\ (d.gen = h.gen => d.seq <= h.seq)
      BY DEF NotAhead
    <3>1. m.thread = t /\ m.gen = d.gen /\ d.seq = m.seq
      BY <1>2, <1>3
    <3>2. QED
      BY <1>5, <3>1 DEF NotAhead
  <2>2. QED
    BY <1>3, <1>4, <2>1 DEF Bounds
<1>11. ASSUME h.open
       PROVE  Cover(d, t, h)
  <2>1. Coming(e, t, h) /\ Coming(c, t, h)
    BY <1>4, <1>11 DEF Linked, Cover
  <2>2. (\A n : Has(d, t, h, n) <=> Has(e, t, h, n)) /\ (\A n : Has(e, t, h, n) <=> Has(b, t, h, n))
    BY <1>2, <1>3 DEF Has
  <2>3. Coming(d, t, h)
    BY <1>3, <1>8, <2>1, <2>2 DEF Coming
  <2>4. Follows(d, t, h)
    <3> SUFFICES ASSUME Of(d, t, h), ~d.late, NEW n \in (d.seq + 1) .. h.seq PROVE Has(d, t, h, n)
      BY DEF Follows
    <3>1. d.seq = c.seq + 1
      BY <1>3, <1>9, <1>11
    <3>2. n \in (c.seq + 1) .. h.seq /\ n # m.seq
      BY <1>3, <1>6, <3>1
    <3>3. Has(c, t, h, n)
      BY <1>1, <1>7, <1>8, <1>11, <3>2 DEF Linked, Cover, Follows
    <3>4. QED
      BY <1>5, <2>2, <3>2, <3>3
  <2>5. QED
    BY <2>3, <2>4 DEF Cover
<1>12. ASSUME h.open, NEW H, Traced(H, c, t, h)
       PROVE  Traced(H, d, t, h)
  <2>1. Traced(H, e, t, h)
    BY <1>4, <1>12
  <2>2. ASSUME Of(d, t, h), ~d.late
        PROVE  H[d.seq] = View(d)
    <3>1. m.seq = c.seq + 1 /\ m.seq - 1 = c.seq
      BY <1>6, <1>9, <1>12, <2>2
    <3>2. H[m.seq] = After(H[m.seq - 1], m)
      BY <1>5, <1>7, <1>12, <2>2
    <3>3. H[c.seq] = View(c)
      BY <1>7, <1>12, <2>2 DEF Traced
    <3>4. QED
      BY <1>2, <1>3, <3>1, <3>2, <3>3
  <2>3. QED
    BY <1>3, <2>1, <2>2 DEF Traced
<1>13. QED
  BY <1>10, <1>11, <1>12 DEF Linked, d

LEMMA ReadStreamStep ==
  ASSUME WebConstants, WebInv, NEW p \in Pages, Web!ReadStream(p)
  PROVE  Together(page', host')
<1> DEFINE c == page[p]
           m == Head(c.stream)
           b == [c EXCEPT !.stream = Tail(@)]
<1>1. Together(page, host) /\ host' = host /\ c.stream # <<>>
  BY DEF WebInv, Web!ReadStream
<1>2. /\ c \in Copies /\ Shaped(c) /\ host \in [Threads -> Hosts]
      /\ \A t \in Threads : host[t] \in Hosts /\ Linked(c, t, host[t])
  BY <1>1 DEF Together
<1>3. page' = [page EXCEPT ![p] =
                 CASE m.kind = "snapshot" -> Web!Shown(b, m)
                   [] m.kind = "status" -> [b EXCEPT !.wants = TRUE]
                   [] OTHER -> IF m.thread = b.thread THEN Web!Applied(Web!Told(b, {m}), m) ELSE Web!Told(b, {m})]
  BY DEF Web!ReadStream
<1> HIDE DEF c
<1>4. b = [c EXCEPT !.stream = Tail(@)] /\ m = Head(c.stream)
  OBVIOUS
<1> HIDE DEF b, m
<1>5. /\ m \in Messages /\ b \in Copies /\ Shaped(b) /\ ~Opening(b) /\ c.connected
      /\ b.thread = c.thread /\ b.gen = c.gen /\ b.seq = c.seq /\ b.late = c.late /\ View(b) = View(c)
      /\ b.connected = c.connected /\ b.passed = c.passed /\ 1 \in DOMAIN c.stream /\ c.stream[1] = m
  BY <1>1, <1>2, <1>4, TailFacts DEF View
<1>6. \A t \in Threads :
        /\ Bounds(b, t, host[t]) /\ NotAhead(m, t, host[t])
        /\ \A n : Has(b, t, host[t], n) => Has(c, t, host[t], n)
        /\ \A n : Has(c, t, host[t], n) => Has(b, t, host[t], n) \/ (PatchOf(m, t, host[t]) /\ m.seq = n)
        /\ host[t].open => \A i, j \in DOMAIN b.stream :
             i < j /\ PatchOf(b.stream[i], t, host[t]) /\ PatchOf(b.stream[j], t, host[t]) =>
               b.stream[i].seq < b.stream[j].seq
        /\ \A H : Traced(H, c, t, host[t]) =>
             Traced(H, b, t, host[t]) /\ (m.kind = "snapshot" /\ Of(m, t, host[t]) => H[m.seq] = View(m))
  <2>1. \A t \in Threads : Leaves(c, b, m, t, host[t])
    BY <1>1, <1>2, <1>4, TailLinks
  <2>2. QED
    BY <2>1 DEF Leaves
<1>7. ASSUME m.kind \notin Patches, NEW t \in Threads, host[t].open
      PROVE  Coming(b, t, host[t])
  <2> DEFINE h == host[t]
  <2>1. Coming(c, t, h)
    BY <1>2, <1>7 DEF Linked, Cover
  <2>2. ~PatchOf(m, t, h)
    BY <1>7 DEF PatchOf
  <2>3. \A n : Has(c, t, h, n) => Has(b, t, h, n)
    BY <1>6, <2>2
  <2>4. QED
    BY <1>5, <1>6, <1>7, <2>1, <2>3 DEF Coming
<1>8. CASE m.kind = "snapshot"
  <2>1. page' = [page EXCEPT ![p] = Web!Shown(b, m)]
    BY <1>3, <1>8
  <2>2. m.kind \notin Patches
    BY <1>8 DEF Patches
  <2>3. ASSUME NEW t \in Threads
        PROVE  /\ Bounds(b, t, host[t]) /\ NotAhead(m, t, host[t])
               /\ host[t].open => /\ Coming(b, t, host[t])
                                  /\ \E H : Traced(H, b, t, host[t]) /\ (Of(m, t, host[t]) => H[m.seq] = View(m))
    <3>1. host[t].open => \E H : Traced(H, c, t, host[t])
      BY <1>2 DEF Linked
    <3>2. QED
      BY <1>6, <1>7, <1>8, <2>2, <3>1
  <2>4. ASSUME NEW t \in Threads, m.thread = b.thread, m.seq < b.seq, host[t].open
        PROVE  Follows(b, t, host[t])
    <3> DEFINE h == host[t]
    <3> SUFFICES ASSUME Of(b, t, h), ~b.late, NEW n \in (b.seq + 1) .. h.seq PROVE Has(b, t, h, n)
      BY DEF Follows
    <3>1. Coming(c, t, h) /\ h \in Hosts
      BY <1>2, <2>4 DEF Linked, Cover
    <3>2. Opening(c) /\ c.stream[1].thread = t
      BY <1>1, <1>5, <1>8, <2>4 DEF Opening, Of
    <3>3. m.seq \in Nat /\ b.seq \in Nat /\ h.seq \in Nat
      BY <1>5, <3>1 DEF Copies, Messages, Hosts
    <3>4. n \in 1 .. h.seq /\ ~(n <= m.seq)
      BY <2>4, <3>3
    <3>5. Has(c, t, h, n)
      BY <1>5, <3>1, <3>2, <3>4 DEF Coming
    <3>6. QED
      BY <1>6, <2>2, <3>5 DEF PatchOf
  <2>5. Together([page EXCEPT ![p] = Web!Shown(b, m)], host)
    BY <1>1, <1>5, <2>3, <2>4, ShownTogether
  <2>6. QED
    BY <1>1, <2>1, <2>5
<1>9. CASE m.kind = "status"
  <2> DEFINE d == [b EXCEPT !.wants = TRUE]
  <2>1. page' = [page EXCEPT ![p] = d]
    BY <1>3, <1>9
  <2>2. d \in Copies /\ Alike(b, d)
    BY <1>5 DEF Copies, Alike
  <2> HIDE DEF d
  <2>3. m.kind \notin Patches
    BY <1>9 DEF Patches
  <2>4. ASSUME NEW t \in Threads
        PROVE  Linked(b, t, host[t])
    <3> DEFINE h == host[t]
    <3>1. Linked(c, t, h) /\ h \in Hosts
      BY <1>2
    <3>2. ASSUME h.open
          PROVE  Follows(b, t, h)
      <4>1. ~Opening(c)
        BY <1>5, <1>9 DEF Opening
      <4>2. Follows(c, t, h)
        BY <3>1, <3>2 DEF Linked, Cover
      <4>3. \A n : Has(c, t, h, n) => Has(b, t, h, n)
        BY <1>6, <2>3 DEF PatchOf
      <4>4. QED
        BY <1>5, <4>1, <4>2, <4>3 DEF Follows, Of
    <3>3. QED
      BY <1>6, <1>7, <2>3, <3>1, <3>2 DEF Linked, Cover
  <2>5. Shaped(d) /\ \A t \in Threads : Linked(d, t, host[t])
    BY <1>5, <2>2, <2>4, AlikeLinked
  <2>6. QED
    BY <1>1, <2>1, <2>2, <2>5, OnePage
<1>10. CASE m.kind \in Patches
  <2> DEFINE S == {m}
             e == Web!Told(b, S)
             d == IF m.thread = b.thread THEN Web!Applied(e, m) ELSE e
  <2>1. page' = [page EXCEPT ![p] = d]
    BY <1>3, <1>10 DEF Patches
  <2>2. S \in SUBSET Messages /\ \A t \in Threads : b.passed[t] <= host[t].seq /\ \A x \in S : NotAhead(x, t, host[t])
    BY <1>5, <1>6 DEF Bounds
  <2>3. m \in S
    OBVIOUS
  <2> HIDE DEF S
  <2>4. /\ e = [b EXCEPT !.passed = e.passed] /\ e \in Copies
        /\ \A t \in Threads : /\ b.passed[t] <= e.passed[t] /\ e.passed[t] <= host[t].seq
                              /\ Of(m, t, host[t]) => m.seq <= e.passed[t]
    BY <1>2, <1>5, <2>2, <2>3, ToldLinks
  <2> HIDE DEF e
  <2>5. e.thread = b.thread /\ e.seq = b.seq /\ e.stream = b.stream /\ e.replies = b.replies /\ e.connected
            = b.connected
    BY <1>5, <2>4 DEF Copies
  <2>6. CASE m.thread # c.thread \/ m.seq <= c.seq
    <3>1. d = e
      BY <1>5, <2>5, <2>6 DEF Web!Applied
    <3>2. \A t \in Threads : Heard(c, m, t, host[t], e)
      BY <1>1, <1>2, <1>4, <1>10, <2>4, HeardLinked
    <3>3. Shaped(e)
      BY <1>5, <2>5 DEF Shaped
    <3>4. QED
      BY <1>1, <2>1, <2>4, <2>6, <3>1, <3>2, <3>3, OnePage DEF Heard
  <2>7. CASE m.thread = c.thread /\ ~(m.seq <= c.seq)
    <3>1. d = Web!Patched(e, m)
      BY <1>5, <2>5, <2>7 DEF Web!Applied
    <3>2. \A t \in Threads : Linked(Web!Patched(e, m), t, host[t])
      BY <1>1, <1>2, <1>4, <1>10, <2>4, <2>7, AppliedLinked
    <3>3. /\ d \in Copies /\ d.stream = e.stream /\ d.replies = e.replies /\ d.connected = e.connected
      BY <1>5, <1>10, <2>4, <3>1, PatchedIs
    <3> HIDE DEF d
    <3>4. Shaped(d)
      BY <1>5, <2>5, <3>3 DEF Shaped
    <3>5. QED
      BY <1>1, <2>1, <3>1, <3>2, <3>3, <3>4, OnePage
  <2>8. QED
    BY <2>6, <2>7
<1>11. QED
  BY <1>5, <1>8, <1>9, <1>10 DEF Messages

-----------------------------------------------------------------------------
(* The conversations and the pages together *)

LEMMA InitWeb ==
  ASSUME WebConstants, Web!Init
  PROVE  WebInv
<1>1. \A t \in Threads : host[t] = Web!Fresh
  BY DEF Web!Init
<1>2. Web!Fresh \in Hosts /\ ~Web!Fresh.open /\ Web!Fresh.gen = 0 /\ Web!Fresh.seq = 0
  BY DEF Web!Fresh, Hosts
<1>3. host \in [Threads -> Hosts]
  BY <1>1, <1>2 DEF Web!Init
<1>4. \A p \in Pages : page[p] = Web!NewPage
  BY DEF Web!Init
<1>5. /\ Web!NewPage \in Copies /\ Web!NewPage.stream = <<>> /\ Web!NewPage.replies = {} /\ Web!NewPage.thread = None
      /\ \A t \in Threads : Web!NewPage.passed[t] = 0
  <2>1. Web!Quiet \in States /\ [t \in Threads |-> 0] \in [Threads -> Nat]
    BY DEF Web!Quiet, States
  <2>2. Web!NewPage \in Copies
    BY <2>1 DEF Web!NewPage, Copies
  <2>3. QED
    BY <2>2 DEF Web!NewPage
<1>6. page \in [Pages -> Copies]
  BY <1>4, <1>5 DEF Web!Init
<1>7. Shaped(Web!NewPage)
  BY <1>5 DEF Shaped
<1>8. \A t \in Threads : Linked(Web!NewPage, t, Web!Fresh)
  BY <1>2, <1>5 DEF Linked, Bounds, NotAhead, WebConstants
<1>9. Together(page, host)
  BY <1>1, <1>3, <1>4, <1>6, <1>7, <1>8 DEF Together
<1>10. QED
  BY <1>9 DEF WebInv, Web!Init, Web!Still

LEMMA NextWeb ==
  ASSUME WebConstants, WebInv, [Web!Next]_(Web!vars)
  PROVE  WebInv'
<1> DEFINE Small == /\ current' \in Threads \cup {None} /\ changes' \in Nat
                    /\ moving' \in [what : {"nothing", "open", "edit"}, thread : Threads \cup {None},
                                    by : Pages \cup {None}]
                    /\ moving'.what = "open" => moving'.thread \in Threads
<1>0. Together(page', host') /\ Small => WebInv'
  BY DEF WebInv, Together, Shaped, Linked, Bounds, Cover, Coming, Follows, Traced, Has, PatchOf, Of, NotAhead, Opening,
         View, HostView, After, Web!State, Copies, Hosts, Messages, Shows, States, Patches
<1>1. CASE UNCHANGED Web!vars
  BY <1>0, <1>1 DEF WebInv, Web!vars
<1>2. ASSUME NEW p \in Pages, Web!Connect(p) \/ Web!Disconnect(p) \/ Web!Refresh(p) \/ Web!Reply(p)
          \/ Web!ReadReply(p) \/ Web!ReadStream(p)
      PROVE  WebInv'
  <2>1. Together(page', host')
    BY <1>2, WebConnectStep, DisconnectStep, RefreshStep, ReplyStep, ReadReplyStep, ReadStreamStep
  <2>2. UNCHANGED <<current, moving, changes>>
    BY <1>2 DEF Web!Connect, Web!Disconnect, Web!Refresh, Web!Reply, Web!ReadReply, Web!ReadStream
  <2>3. QED
    BY <1>0, <2>1, <2>2 DEF WebInv
<1>3. ASSUME NEW p \in Pages \cup {None}, Web!EditFolders(p)
      PROVE  WebInv'
  <2>1. Together(page', host')
    BY <1>3 DEF Web!EditFolders, WebInv
  <2>2. Small
    BY <1>3 DEF Web!EditFolders, WebInv
  <2>3. QED
    BY <1>0, <2>1, <2>2
<1>4. ASSUME NEW p \in Pages \cup {None}, NEW t \in Threads, Web!Open(p, t)
      PROVE  WebInv'
  <2>1. Together(page', host')
    <3>1. Together(page, host) /\ host' = host
      BY <1>4 DEF Web!Open, WebInv
    <3>2. page' = page \/ page' = Web!Asking(page, p)
      BY <1>4 DEF Web!Open
    <3>3. Together(Web!Asking(page, p), host)
      BY <1>4, <3>1, AskingTogether DEF WebConstants
    <3>4. QED
      BY <3>1, <3>2, <3>3
  <2>2. Small
    BY <1>4 DEF Web!Open, WebInv
  <2>3. QED
    BY <1>0, <2>1, <2>2
<1>5. ASSUME NEW t \in Threads,
             Web!Message(t) \/ Web!Say(t) \/ Web!Flush(t) \/ Web!ClearScreen(t) \/ Web!Await(t) \/ Web!Resolve(t)
                 \/ Web!Finish(t) \/ Web!CloseHost(t)
      PROVE  WebInv'
  <2>1. Together(page', host')
    BY <1>5, MessageStep, SayStep, FlushStep, ClearScreenStep, AwaitStep, ResolveStep, FinishStep, CloseHostStep
  <2>2. UNCHANGED <<current, moving>> /\ changes' \in Nat
    BY <1>5 DEF Web!Message, Web!Say, Web!Flush, Web!ClearScreen, Web!Await, Web!Resolve, Web!Finish, Web!CloseHost,
      Web!Change, WebInv
  <2>3. QED
    BY <1>0, <2>1, <2>2 DEF WebInv
<1>6. CASE Web!Attach
  <2>1. Together(page', host')
    BY <1>6, AttachStep
  <2>2. Small
    BY <1>6 DEF Web!Attach, Web!Still, WebInv
  <2>3. QED
    BY <1>0, <2>1, <2>2
<1>7. CASE Web!Edited
  <2>1. Together(page', host')
    <3>1. Together(page, host) /\ host' = host /\ page' = Web!Asking(page, moving.by) /\ moving.by \in Pages \cup {None}
      BY <1>7 DEF Web!Edited, WebInv
    <3>2. Together(Web!Asking(page, moving.by), host)
      BY <3>1, AskingTogether DEF WebConstants
    <3>3. QED
      BY <3>1, <3>2
  <2>2. Small
    BY <1>7 DEF Web!Edited, Web!Still, WebInv
  <2>3. QED
    BY <1>0, <2>1, <2>2
<1>8. QED
  BY <1>1, <1>2, <1>3, <1>4, <1>5, <1>6, <1>7 DEF Web!Next


-----------------------------------------------------------------------------
(* The property *)

LEMMA AgreeFromInv ==
  ASSUME WebConstants, WebInv
  PROVE  Web!PageAgrees
<1> SUFFICES ASSUME NEW p \in Pages, Web!Settled(p), page[p].thread # None,
                    page[p].gen = host[page[p].thread].gen, host[page[p].thread].open, ~page[p].late
             PROVE  Web!Agrees(p)
  BY DEF Web!PageAgrees
<1> DEFINE c == page[p]
           t == c.thread
           h == host[t]
<1>1. c \in Copies /\ t \in Threads /\ h \in Hosts
  BY DEF WebInv, Together, Copies
<1>2. Bounds(c, t, h) /\ Cover(c, t, h)
  BY <1>1 DEF WebInv, Together, Linked
<1>3. PICK H : Traced(H, c, t, h)
  BY <1>1 DEF WebInv, Together, Linked
<1>4. c.stream = <<>> /\ c.connected /\ ~c.late /\ Of(c, t, h)
  BY DEF Web!Settled, Of
<1>5. c.seq \in Nat /\ h.seq \in Nat
  BY <1>1 DEF Copies, Hosts
<1>6. c.seq = h.seq
  <2>1. c.seq <= h.seq
    BY <1>2, <1>4 DEF Bounds, NotAhead, Of
  <2>2. \A n \in (c.seq + 1) .. h.seq : Has(c, t, h, n)
    BY <1>2, <1>4 DEF Cover, Coming, Follows, Opening
  <2>3. \A n \in (c.seq + 1) .. h.seq : FALSE
    BY <1>4, <2>2 DEF Has
  <2>4. QED
    BY <1>5, <2>1, <2>3
<1>7. View(c) = HostView(h)
  BY <1>3, <1>4, <1>6 DEF Traced
<1>8. QED
  BY <1>7 DEF View, HostView, Web!Agrees

-----------------------------------------------------------------------------
(* The components side by side *)

LEMMA DecisionsRun == SideBySide => Decisions!Spec
<1>1. SetOut => Decisions!Init
  BY DEF SetOut
<1>2. [Move]_all => [Decisions!Next]_(Decisions!vars)
  BY DEF Move, all, decisions, Decisions!vars
<1> QED
  BY <1>1, <1>2, PTL DEF SideBySide, Decisions!Spec

\* A service that nobody uses has a timer that ends it: one without a connection, and one whose worker has nothing
\* to do, in whatever order probes, requests, cancellations, failures and closed connections arrive (service.ts). It is
\* said of a service that was not stopped before it had its worker: nothing ends one that was (:245-249).
THEOREM UnusedServicesEnd == SideBySide => []UnusedServiceEnds
<1>1. DecisionsConstants
  BY DecisionsAssumption DEF DecisionsConstants, Decisions!Conns
<1>2. DecisionsConstants => (Decisions!Init => DecisionInv)
  BY InitDecision
<1>3. DecisionsConstants /\ DecisionInv /\ [Decisions!Next]_(Decisions!vars) => DecisionInv'
  BY NextDecision
<1>4. DecisionInv => UnusedServiceEnds
  BY DEF DecisionInv, UnusedServiceEnds
<1> QED
  BY <1>1, <1>2, <1>3, <1>4, DecisionsRun, PTL DEF Decisions!Spec

LEMMA CommandsRun == SideBySide => Terminal!Spec
<1>1. SetOut => Terminal!Init
  BY DEF SetOut
<1>2. [Move]_all => [Terminal!Next]_(Terminal!vars)
  BY DEF Move, all, commands, Terminal!vars, Terminal!disk
<1> QED
  BY <1>1, <1>2, PTL DEF SideBySide, Terminal!Spec

\* A target that may still run and that no process waits for any more keeps every process from starting another
\* command, whatever was killed, lost, reconciled or recovered on the way (assertEnvironmentSafe, SandboxRecovery).
THEOREM UnknownStaysBlocked == SideBySide => []UnknownIsBlocked
<1>1. Terminal!Init => CommandsInv
  BY InitCommands, CommandsAssumption
<1>2. CommandsInv /\ [Terminal!Next]_(Terminal!vars) => CommandsInv'
  BY NextCommands
<1>3. CommandsInv => UnknownIsBlocked
  BY BlockedFromInv DEF UnknownIsBlocked
<1> QED
  BY <1>1, <1>2, <1>3, CommandsRun, PTL DEF Terminal!Spec

\* What the result of a command says of its execution is so: "not_started" of a target that never ran, "exited" of
\* one that has ended (the lifecycle that CommandProcessRun reports).
THEOREM ReportsAreTrue == SideBySide => []ReportIsTrue
<1>1. Terminal!Init => CommandsInv
  BY InitCommands, CommandsAssumption
<1>2. CommandsInv /\ [Terminal!Next]_(Terminal!vars) => CommandsInv'
  BY NextCommands
<1>3. CommandsInv => ReportIsTrue
  BY TruthFromInv DEF ReportIsTrue
<1> QED
  BY <1>1, <1>2, <1>3, CommandsRun, PTL DEF Terminal!Spec

\* A turn only completes when the result of every command that was started on its behalf has been shown, and the
\* worker of each is gone (hasOpenCommandHandles in the completion gate).
THEOREM CompletedTurnsHaveSeenAll == SideBySide => CompletedTurnHasSeenAll
<1>1. Terminal!Init => CommandsInv
  BY InitCommands, CommandsAssumption
<1>2. CommandsInv /\ [Terminal!Next]_(Terminal!vars) => CommandsInv'
  BY NextCommands
<1>3. CommandsInv /\ [Terminal!Next]_(Terminal!vars) =>
        [\A p \in Processes : Terminal!CompleteTurn(p) =>
           \A c \in Terminal!Mine(p) :
             Terminal!At(c, "closed") /\ cmd[c].handle # "open" /\ cmd[c].worker \in {"none", "gone"}]_(Terminal!vars)
  BY SeenFromInv
<1> QED
  BY <1>1, <1>2, <1>3, CommandsRun, PTL DEF Terminal!Spec, CompletedTurnHasSeenAll, Terminal!CompletedTurnHasSeenAll

LEMMA WebRuns == SideBySide => Web!Spec
<1>1. SetOut => Web!Init
  BY DEF SetOut
<1>2. [Move]_all => [Web!Next]_(Web!vars)
  BY DEF Move, all, web, Web!vars
<1> QED
  BY <1>1, <1>2, PTL DEF SideBySide, Web!Spec

\* A page that has read all that is on its way to it shows the conversation as it is, whatever snapshots, patches and
\* reconnections came in which order (applySnapshot, applyPatch), but for the two cases PageAgrees names.
THEOREM PagesAgree == SideBySide => []PageAgrees
<1>1. Web!Init => WebInv
  BY InitWeb, WebAssumption DEF WebConstants
<1>2. WebInv /\ [Web!Next]_(Web!vars) => WebInv'
  BY NextWeb, WebAssumption DEF WebConstants
<1>3. WebInv => PageAgrees
  BY AgreeFromInv, WebAssumption DEF WebConstants, PageAgrees
<1> QED
  BY <1>1, <1>2, <1>3, WebRuns, PTL DEF Web!Spec
=============================================================================
