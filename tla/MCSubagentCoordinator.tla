------------------------ MODULE MCSubagentCoordinator ------------------------
(***************************************************************************)
(* Two children over no graph, over two tasks that are independent and     *)
(* over two tasks in a chain.                                              *)
(***************************************************************************)
EXTENDS SubagentCoordinator

CONSTANTS t1, t2, a1, a2

Independent == [t \in {t1, t2} |-> NewNode({})]
Chain == [Independent EXCEPT ![t2].deps = {t1}]

SomeGraphs == {NoGraph, Independent, Chain}
=============================================================================
