---------------------------- MODULE LocalDecision ----------------------------
(***************************************************************************)
(* The local decision model: every application connects to one service per *)
(* user (local-decision/client.ts), which it starts when nobody answers at  *)
(* the endpoint. The service (local-decision/service.ts) binds the          *)
(* endpoint, a socket file that survives a crash, runs the model in a       *)
(* worker that takes one request at a time, and ends itself when nobody     *)
(* needs it.                                                               *)
(*                                                                         *)
(* Timers: those of a client may fire whenever they are armed; those of a   *)
(* service are in the state, because what arms and clears them decides      *)
(* whether the process, and the model it holds in memory, ever ends.        *)
(* "conn" is a connection; what its ends hold and what is on the way in it  *)
(* are kept apart from it, for a client may be back on a second connection  *)
(* before the service has noticed the end of the first.                    *)
(***************************************************************************)
EXTENDS Naturals, Sequences, SequencesExt, FiniteSets

CONSTANTS
  Clients, Services, Requests, None,
  MaxConns,    \* bound: connections
  MaxFaults    \* bound: crashes, failures of a worker, timers of clients that fire early

VARIABLES
  file,        \* the endpoint: None, the service that bound it, or "stale"
  recovery,    \* recovery.lock: None or the service that made it
  client, request, service, conn, faults

vars == <<file, recovery, client, request, service, conn, faults>>

Conns == 1..MaxConns
Unused == [by |-> None, to |-> None, held |-> {}, up |-> <<>>, down |-> <<>>]
Away == [at |-> "away", conn |-> 0, ready |-> FALSE, launched |-> FALSE]
Off == [at |-> "off", ready |-> FALSE, queue |-> <<>>, active |-> None, canceled |-> {}, timers |-> {}, used |-> FALSE]

Init ==
  /\ file \in {None, "stale"} /\ recovery = None
  /\ client = [c \in Clients |-> Away]
  /\ request = [r \in Requests |-> [at |-> "new", by |-> None, via |-> 0]]
  /\ service = [s \in Services |-> Off]
  /\ conn = [k \in Conns |-> Unused]
  /\ faults = 0

Fault == faults < MaxFaults /\ faults' = faults + 1

-----------------------------------------------------------------------------
(* The client *)

Mine(c, at) == {r \in Requests : request[r].by = c /\ request[r].at = at}
\* Requests S end without an answer.
Rejected(S) == [r \in Requests |-> IF r \in S THEN [at |-> "failed", by |-> None, via |-> 0] ELSE request[r]]
Closed(k, side) ==
  [conn EXCEPT ![k] = [by |-> @.by, to |-> @.to, held |-> @.held \ {side},
                       up |-> IF side = "service" THEN <<>> ELSE @.up,
                       down |-> IF side = "client" THEN <<>> ELSE @.down]]
\* What waited for the connection and is sent now that the service is ready.
Sent(k, S) == [conn EXCEPT ![k].up = @ \o SetToSeq({[type |-> "decide", id |-> r] : r \in S})]

\* decide, ensureReady: at once, or when the startup that is under way has ended.
Ask(c, r) ==
  /\ request[r].at = "new" /\ client[c].at # "closed"
  /\ IF client[c].ready
     THEN /\ request' = [request EXCEPT ![r] = [at |-> "pending", by |-> c, via |-> client[c].conn]]
          /\ conn' = Sent(client[c].conn, {r}) /\ UNCHANGED client
     ELSE /\ request' = [request EXCEPT ![r] = [at |-> "waiting", by |-> c, via |-> 0]]
          /\ client' = [client EXCEPT ![c].at = IF @ = "away" THEN "connecting" ELSE @]
          /\ UNCHANGED conn
  /\ UNCHANGED <<file, recovery, service, faults>>

\* connectOnce succeeds: the service accepts, and says that it is ready if it is.
FreeConns == {k \in Conns : conn[k].by = None}
Connect(c) ==
  LET k == Min(FreeConns)
  IN  /\ client[c].at = "connecting" /\ file \in Services /\ FreeConns # {}
      /\ client' = [client EXCEPT ![c] = [at |-> "starting", conn |-> k, ready |-> FALSE, launched |-> FALSE]]
      /\ conn' = [conn EXCEPT ![k] = [by |-> c, to |-> file, held |-> {"client", "service"}, up |-> <<>>,
                     down |-> IF service[file].ready THEN <<[type |-> "ready", id |-> None]>> ELSE <<>>]]
      /\ service' = [service EXCEPT ![file].timers = @ \ {"empty", "initial"}]
      /\ UNCHANGED <<file, recovery, request, faults>>

\* connectOnce fails: the first time a service is started.
Launch(c) ==
  /\ client[c].at = "connecting" /\ file \notin Services /\ ~client[c].launched
  /\ \E s \in Services :
       /\ service[s].at = "off"
       /\ service' = [service EXCEPT ![s].at = "listen"]
  /\ client' = [client EXCEPT ![c].launched = TRUE]
  /\ UNCHANGED <<file, recovery, request, conn, faults>>

\* The endpoint has not opened in ten seconds.
GiveUp(c) ==
  /\ client[c].at = "connecting" /\ Fault
  /\ client' = [client EXCEPT ![c] = Away]
  /\ request' = Rejected(Mine(c, "waiting"))
  /\ UNCHANGED <<file, recovery, service, conn>>

\* transportFailed
Failed(c) ==
  /\ client' = [client EXCEPT ![c] = Away]
  /\ request' = Rejected(Mine(c, "waiting") \cup Mine(c, "pending"))
  /\ conn' = Closed(client[c].conn, "client")

StartTimeout(c) ==
  /\ client[c].at = "starting" /\ Fault /\ Failed(c)
  /\ UNCHANGED <<file, recovery, service>>

Disconnected(c) ==
  /\ client[c].conn # 0 /\ "service" \notin conn[client[c].conn].held /\ Failed(c)
  /\ UNCHANGED <<file, recovery, service, faults>>

\* receive: an answer to what is not pending any more is dropped.
Receive(c) ==
  LET k == client[c].conn
      m == Head(conn[k].down)
      rest == [conn EXCEPT ![k].down = Tail(@)]
  IN  /\ k # 0 /\ conn[k].down # <<>>
      /\ CASE m.type = "ready" ->
                /\ client' = [client EXCEPT ![c].at = "ready", ![c].ready = TRUE]
                /\ request' = [r \in Requests |-> IF r \in Mine(c, "waiting")
                                 THEN [at |-> "pending", by |-> c, via |-> k] ELSE request[r]]
                /\ conn' = [Sent(k, Mine(c, "waiting")) EXCEPT ![k].down = Tail(@)]
           [] m.type = "fatal" -> Failed(c)
           [] m.type = "result" ->
                /\ request' = IF m.id \in Mine(c, "pending")
                              THEN [request EXCEPT ![m.id] = [at |-> "answered", by |-> None, via |-> 0]] ELSE request
                /\ conn' = rest /\ UNCHANGED client
      /\ UNCHANGED <<file, recovery, service, faults>>

\* A decision takes too long or is aborted: a request that was sent is canceled.
Cancel(r) ==
  /\ request[r].at \in {"waiting", "pending"} /\ Fault
  /\ request' = Rejected({r})
  /\ conn' = IF request[r].at = "pending"
             THEN [conn EXCEPT ![request[r].via].up = Append(@, [type |-> "cancel", id |-> r])] ELSE conn
  /\ UNCHANGED <<file, recovery, client, service>>

\* close: the application ends; a startup that is under way gives up.
Close(c) ==
  /\ client[c].at # "closed"
  /\ client' = [client EXCEPT ![c] = [Away EXCEPT !.at = "closed"]]
  /\ request' = Rejected(Mine(c, "waiting") \cup Mine(c, "pending"))
  /\ conn' = IF client[c].conn = 0 THEN conn ELSE Closed(client[c].conn, "client")
  /\ UNCHANGED <<file, recovery, service, faults>>

-----------------------------------------------------------------------------
(* The service: the endpoint *)

Up(s) == service[s].at \in {"bound", "up", "halted"}
Held(s) == {k \in Conns : conn[k].to = s /\ "service" \in conn[k].held}
Goes(s, at) == service' = [service EXCEPT ![s].at = at]
Ends(s) == service' = [service EXCEPT ![s] = Off]
Bind(s) ==
  /\ file' = s
  /\ service' = [service EXCEPT ![s].at = "bound"]
Alive == file \in Services

\* listen
Listen(s) ==
  /\ service[s].at = "listen"
  /\ IF file = None THEN Bind(s) ELSE UNCHANGED file /\ Goes(s, "probe")
  /\ UNCHANGED <<recovery, client, request, conn, faults>>

\* probeEndpoint: the service that answers sees a connection come and go, and this one
\* ends. (A service that was used has a connection, or has stopped.)
Answered(s) ==
  LET left == [service EXCEPT ![s] = Off]
  IN  service' = [left EXCEPT ![file].timers =
                    (@ \ {"empty", "initial"}) \cup (IF Held(file) = {} THEN {"empty"} ELSE {})]

\* Another process won.
Probe(s) ==
  /\ service[s].at = "probe"
  /\ IF Alive THEN Answered(s) ELSE Goes(s, "lock")
  /\ UNCHANGED <<file, recovery, client, request, conn, faults>>

\* recoverStaleSocket: a lock that is there is left alone for thirty seconds. Only
\* one that died keeps it that long, but who removes it does not look again.
Contending == {"verify", "inspect", "unlink"}
Lock(s) ==
  /\ service[s].at = "lock"
  /\ \/ recovery = None /\ recovery' = s /\ Goes(s, "verify")
     \/ recovery # None /\ UNCHANGED recovery /\ Ends(s)
     \/ /\ recovery # None /\ (recovery = s \/ service[recovery].at \notin Contending)
        /\ UNCHANGED recovery /\ Goes(s, "steal")
  /\ UNCHANGED <<file, client, request, conn, faults>>

Steal(s) ==
  /\ service[s].at = "steal"
  /\ recovery' = None
  /\ IF recovery = None THEN Ends(s) ELSE Goes(s, "lock")
  /\ UNCHANGED <<file, client, request, conn, faults>>

Verify(s) ==
  /\ service[s].at = "verify"
  /\ IF Alive THEN recovery' = None /\ Answered(s) ELSE UNCHANGED recovery /\ Goes(s, "inspect")
  /\ UNCHANGED <<file, client, request, conn, faults>>

Inspect(s) ==
  /\ service[s].at = "inspect"
  /\ IF file = None THEN recovery' = None /\ Goes(s, "again") ELSE UNCHANGED recovery /\ Goes(s, "unlink")
  /\ UNCHANGED <<file, client, request, conn, faults>>

\* Whatever the file is by now.
Unlink(s) ==
  /\ service[s].at = "unlink"
  /\ recovery' = None /\ file' = None
  /\ IF file = None THEN Ends(s) ELSE Goes(s, "again")
  /\ UNCHANGED <<client, request, conn, faults>>

ListenAgain(s) ==
  /\ service[s].at = "again"
  /\ IF file = None THEN Bind(s) ELSE UNCHANGED file /\ Ends(s)
  /\ UNCHANGED <<recovery, client, request, conn, faults>>

-----------------------------------------------------------------------------
(* The service: its clients and its worker *)

\* The file has its mode: only now is there a worker, and a timer for the first client.
\* One whose file another process removed goes on without either. One that was stopped
\* meanwhile ends if its file went first; if not it starts the worker all the same, and
\* nothing will stop it: stop, dispatch and workerFailure return at once.
Arm(s) ==
  /\ \/ /\ service[s].at = "bound"
        /\ service' = [service EXCEPT ![s].at = "up", ![s].timers = @ \cup {"initial"}]
     \/ service[s].at = "bound" /\ file # s /\ Goes(s, "halted")
     \/ service[s].at = "stopping" /\ (Ends(s) \/ Goes(s, "stray"))
  /\ UNCHANGED <<file, recovery, client, request, conn, faults>>

\* stop: the socket file goes, whoever has bound it since. A process that still waits
\* for the mode of its file has no worker to kill, and does not end.
Stopped(s, last) ==
  /\ service' = [service EXCEPT ![s] = IF @.at = "bound" THEN [Off EXCEPT !.at = "stopping"] ELSE Off]
  /\ file' = None
  /\ conn' = [k \in Conns |-> IF k \in Held(s)
                THEN [conn[k] EXCEPT !.held = @ \ {"service"}, !.up = <<>>, !.down = @ \o last] ELSE conn[k]]

\* The requests in the queue that somebody still waits for.
Wanted(v, s) == {i \in DOMAIN v.queue : v.queue[i].id \notin v.canceled /\ v.queue[i].via \in Held(s)}
\* The first of them; what stood before it is dropped.
Taken(v, s) ==
  LET first == Min(Wanted(v, s))
  IN  [v EXCEPT !.active = v.queue[first], !.queue = SubSeq(@, first + 1, Len(@))]

\* Mutant: nothing is scheduled when what is left of the queue was canceled.
DispatchOnly(v, s) ==
  IF ~v.ready \/ v.active # None THEN v
  ELSE IF Wanted(v, s) = {} THEN [v EXCEPT !.queue = <<>>]
  ELSE Taken(v, s)

\* dispatch, scheduleIdle
Dispatch(v, s) ==
  IF ~v.ready \/ v.active # None THEN v
  ELSE IF Wanted(v, s) = {} THEN [v EXCEPT !.queue = <<>>, !.timers = @ \cup {"idle"}]
  ELSE Taken(v, s)

\* A message arrives from a client.
Serve(s, k) ==
  LET m == Head(conn[k].up)
      v == service[s]
      new == [v EXCEPT !.queue = Append(@, [id |-> m.id, via |-> k]), !.used = TRUE, !.timers = @ \ {"idle"}]
  IN  /\ Up(s) /\ k \in Held(s) /\ conn[k].up # <<>>
      /\ conn' = [conn EXCEPT ![k].up = Tail(@)]
      /\ service' = [service EXCEPT ![s] = IF m.type = "cancel" THEN [v EXCEPT !.canceled = @ \cup {m.id}]
                                           ELSE Dispatch(new, s)]
      /\ UNCHANGED <<file, recovery, client, request, faults>>

\* A connection closes: with the last one the service ends, or soon will.
Closes(s, k) ==
  LET v == service[s]
      gone == {q.id : q \in {q \in ToSet(v.queue) \cup (IF v.active = None THEN {} ELSE {v.active}) : q.via = k}}
  IN  /\ Up(s) /\ k \in Held(s) /\ "client" \notin conn[k].held
      /\ IF Held(s) # {k}
         THEN /\ service' = [service EXCEPT ![s].canceled = @ \cup gone]
              /\ conn' = Closed(k, "service") /\ UNCHANGED file
         ELSE IF v.used THEN Stopped(s, <<>>)
         ELSE /\ service' = [service EXCEPT ![s].canceled = @ \cup gone, ![s].timers = @ \cup {"empty"}]
              /\ conn' = Closed(k, "service") /\ UNCHANGED file
      /\ UNCHANGED <<recovery, client, request, faults>>

\* A timer fires.
TimerFires(s) ==
  /\ Up(s)
  /\ \E t \in service[s].timers :
       IF t = "initial" /\ Held(s) # {}
       THEN service' = [service EXCEPT ![s].timers = @ \ {t}] /\ UNCHANGED <<file, conn>>
       ELSE Stopped(s, <<>>)
  /\ UNCHANGED <<recovery, client, request, faults>>

Told(s, m) == [k \in Conns |-> IF k \in Held(s) THEN [conn[k] EXCEPT !.down = Append(@, m)] ELSE conn[k]]
WorkerReady(s) ==
  /\ service[s].at = "up" /\ ~service[s].ready
  /\ service' = [service EXCEPT ![s] = Dispatch([@ EXCEPT !.ready = TRUE], s)]
  /\ conn' = Told(s, [type |-> "ready", id |-> None])
  /\ UNCHANGED <<file, recovery, client, request, faults>>

WorkerAnswers(s) ==
  LET a == service[s].active
  IN  /\ Up(s) /\ a # None
      /\ conn' = IF a.id \in service[s].canceled \/ a.via \notin Held(s) THEN conn
                 ELSE [conn EXCEPT ![a.via].down = Append(@, [type |-> "result", id |-> a.id])]
      /\ service' = [service EXCEPT ![s] = Dispatch([@ EXCEPT !.active = None], s)]
      /\ UNCHANGED <<file, recovery, client, request, faults>>

\* The worker exits or answers nonsense.
WorkerFails(s) ==
  /\ service[s].at = "up" /\ Fault /\ Stopped(s, <<[type |-> "fatal", id |-> None]>>)
  /\ UNCHANGED <<recovery, client, request>>

\* The worker that nothing stops exits, and its process with it.
StrayEnds(s) ==
  /\ service[s].at = "stray" /\ Fault /\ Ends(s)
  /\ UNCHANGED <<file, recovery, client, request, conn>>

Crash(s) ==
  /\ service[s].at # "off" /\ Fault /\ Ends(s)
  /\ file' = IF file = s THEN "stale" ELSE file
  /\ conn' = [k \in Conns |-> IF k \in Held(s) THEN [conn[k] EXCEPT !.held = @ \ {"service"}, !.up = <<>>] ELSE conn[k]]
  /\ UNCHANGED <<recovery, client, request>>

Next ==
  \/ \E c \in Clients :
       \/ (\E r \in Requests : Ask(c, r))
       \/ Connect(c) \/ Launch(c) \/ GiveUp(c) \/ StartTimeout(c) \/ Disconnected(c) \/ Receive(c) \/ Close(c)
  \/ \E r \in Requests : Cancel(r)
  \/ \E s \in Services :
       \/ Listen(s) \/ Probe(s) \/ Lock(s) \/ Steal(s) \/ Verify(s) \/ Inspect(s) \/ Unlink(s) \/ ListenAgain(s)
       \/ (\E k \in Conns : Serve(s, k) \/ Closes(s, k))
       \/ Arm(s) \/ TimerFires(s) \/ WorkerReady(s) \/ WorkerAnswers(s) \/ WorkerFails(s) \/ StrayEnds(s) \/ Crash(s)

Spec == Init /\ [][Next]_vars

-----------------------------------------------------------------------------
(* Properties *)

\* A service that nobody uses has a timer that ends it: one without a connection, and
\* one whose worker has nothing to do, in whatever order probes, requests, cancellations
\* and closed connections arrive. It is said of a service that was not stopped before it
\* had its worker ("up"): one that was ("stray") keeps its model with no timer at all.
UnusedServiceEnds ==
  \A s \in Services : service[s].at = "up" =>
    /\ Held(s) = {} => service[s].timers # {}
    /\ service[s].ready /\ service[s].active = None /\ service[s].queue = <<>> => "idle" \in service[s].timers
=============================================================================
