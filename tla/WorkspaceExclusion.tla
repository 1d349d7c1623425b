------------------------- MODULE WorkspaceExclusion -------------------------
(***************************************************************************)
(* What the shared workspace lock promises, without its queue: an operation *)
(* that may modify the workspace runs alone, and while an agent keeps a     *)
(* service alive only that agent's operations run.                          *)
(***************************************************************************)
CONSTANTS Calls, NoOwner, OwnerOf

VARIABLES
  active,    \* calls that hold the workspace (a short operation or a job)
  services   \* calls whose service is alive beside the short operations

vars == <<active, services>>

Init == active = {} /\ services = {}

\* An operation starts on a free workspace, reserved by nobody else.
Enter(c) ==
  /\ active = {}
  /\ c \notin services
  /\ \A s \in services : OwnerOf[s] = OwnerOf[c]
  /\ active' = {c}
  /\ UNCHANGED services

Leave(c) ==
  /\ c \in active
  /\ active' = active \ {c}
  /\ UNCHANGED services

\* The operation ends and leaves a service behind.
LeaveAsService(c) ==
  /\ c \in active
  /\ OwnerOf[c] # NoOwner
  /\ active' = active \ {c}
  /\ services' = services \cup {c}

EndService(c) ==
  /\ c \in services
  /\ services' = services \ {c}
  /\ UNCHANGED active

Next == \E c \in Calls : Enter(c) \/ Leave(c) \/ LeaveAsService(c) \/ EndService(c)

Spec == Init /\ [][Next]_vars
=============================================================================
