--------------------------- MODULE MCProcessManager ---------------------------
(***************************************************************************)
(* Instance of ProcessManager for TLC: two commands on one queue and two   *)
(* without a queue, one of them with the id of the first: three can run at *)
(* the same time, one more than MaxJobs.                                   *)
(***************************************************************************)
EXTENDS ProcessManager, TLC

CONSTANTS j1, j2, j3, j4, a, b, c, q

MCCmdID == (j1 :> a) @@ (j2 :> b) @@ (j3 :> a) @@ (j4 :> c)

MCCmdQueue == [j \in Job |-> IF j \in {j1, j2} THEN q ELSE NoQueue]
=============================================================================
