--------------------------- MODULE SteeringInbox ---------------------------
(***************************************************************************)
(* What a thread promises the people and agents who write to it while a    *)
(* turn runs: a message is accepted at most once, every accepted message   *)
(* is delivered to the conversation exactly once and in the order of       *)
(* acceptance, only a running turn accepts or receives, and a turn that    *)
(* ends with an answer has been given every message it accepted.           *)
(***************************************************************************)
EXTENDS Naturals, Sequences, SequencesExt

CONSTANT Writing            \* what can be sent: adjustments and peer messages

VARIABLES accepted,         \* the messages taken in, in order
          delivered,        \* the ones the conversation has been given
          turn              \* "none", "running" or "closed" (answering)

vars == <<accepted, delivered, turn>>

Init ==
  /\ accepted = <<>>
  /\ delivered = <<>>
  /\ turn = "none"

Accept(m) ==
  /\ turn = "running"
  /\ m \notin ToSet(accepted)
  /\ accepted' = Append(accepted, m)
  /\ UNCHANGED <<delivered, turn>>

\* One boundary delivers a run of consecutive messages.
Deliver ==
  /\ turn = "running"
  /\ \E k \in Len(delivered) + 1 .. Len(accepted) :
       delivered' = SubSeq(accepted, 1, k)
  /\ UNCHANGED <<accepted, turn>>

Open ==
  /\ turn = "none"
  /\ turn' = "running"
  /\ UNCHANGED <<accepted, delivered>>

\* The turn commits to its answer: nothing may be left undelivered.
Close ==
  /\ turn = "running"
  /\ delivered = accepted
  /\ turn' = "closed"
  /\ UNCHANGED <<accepted, delivered>>

\* A turn may end at any time; what was not delivered waits for the next one.
End ==
  /\ turn # "none"
  /\ turn' = "none"
  /\ UNCHANGED <<accepted, delivered>>

Next == (\E m \in Writing : Accept(m)) \/ Deliver \/ Open \/ Close \/ End

Spec == Init /\ [][Next]_vars
=============================================================================
