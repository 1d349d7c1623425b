------------------------------ MODULE EventLog ------------------------------
(***************************************************************************)
(* What the event journal of a thread promises: events are only ever added *)
(* at its end, and those promised to a caller stay until the thread is     *)
(* deleted. An event that was not promised may appear, and may be lost.    *)
(***************************************************************************)
EXTENDS Naturals, Sequences

CONSTANT Events

VARIABLES
  log,      \* the readable events, in order
  promised  \* the events some caller was told are recorded

logVars == <<log, promised>>

Readable == {log[i] : i \in DOMAIN log}

Init == log \in Seq(Events) /\ Len(log) = 1 /\ promised = Readable

Record(e) ==
  /\ e \notin Readable
  /\ log' = Append(log, e)
  /\ UNCHANGED promised

Promise(e) ==
  /\ e \in Readable
  /\ promised' = promised \cup {e}
  /\ UNCHANGED log

\* The last events are lost, those that were promised are not.
Lose ==
  /\ \E n \in 0 .. Len(log) : log' = SubSeq(log, 1, n)
  /\ promised \subseteq {log'[i] : i \in DOMAIN log'}
  /\ UNCHANGED promised

Delete == log' = <<>> /\ promised' = {}

Next == Lose \/ Delete \/ \E e \in Events : Record(e) \/ Promise(e)

Spec == Init /\ [][Next]_logVars
=============================================================================
