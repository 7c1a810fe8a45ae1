---------------------------- MODULE MCWriteBatch ----------------------------
(* Small patches for TLC: the plans, the fault sets and the callers of the  *)
(* runs of WriteBatch.                                                      *)
EXTENDS WriteBatch, TLC

\* Four operations in batches of two, one and one.
Plan211 == (0 :> 0) @@ (1 :> 2) @@ (2 :> 3) @@ (3 :> 4)

\* Three operations in batches of two and one.
Plan21 == (0 :> 0) @@ (1 :> 2) @@ (2 :> 3)

\* A caller that calls again meets the faults it survives; left out are those the
\* configurations below are about.
LaterFaults == [c \in Repeaters |-> Survives(c)]

\* A caller that calls once may meet every fault.
CallerFaults == ("once" :> FaultKinds) @@ LaterFaults

\* The faults that lead to each disagreement with the documentation.
ReapplyFaults  == [c \in {"reapply"} |-> {"session_dies"}]
SaveKillFaults == [c \in {"resume_advised"} |-> {"session_dies", "kill_after_save"}]
CrashFaults    == [c \in {"resume_crashed"} |-> {"op_error", "executor_crash"}]
StaleFaults    == [c \in {"resume_advised"} |-> {"session_dies", "load_failure"}]
RefusedFaults  == [c \in {"reapply_fresh"} |-> {"router_refuses"}]
=============================================================================
