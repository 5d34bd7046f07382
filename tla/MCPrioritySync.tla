--------------------------- MODULE MCPrioritySync ---------------------------
(* Instantiates PrioritySync for TLC: three threads of priorities 0, 1 and *)
(* 2 (standing for PRI_MIN .. PRI_MAX, only their order matters), two      *)
(* locks, and client programs of a few kernel calls each.                   *)
EXTENDS PrioritySync

CONSTANTS t1, t2, t3

MCThreads == {t1, t2, t3}
MCInitPri == (t1 :> 0) @@ (t2 :> 1) @@ (t3 :> 2)
MCLocks == {1, 2}
MCPriorities == 0..2
=============================================================================
