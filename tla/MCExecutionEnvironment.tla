------------------------ MODULE MCExecutionEnvironment ------------------------
(* Instances of ExecutionEnvironment: two children, room for one worktree.   *)
EXTENDS ExecutionEnvironment

CONSTANTS c1, c2
=============================================================================
