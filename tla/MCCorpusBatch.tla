--------------------------- MODULE MCCorpusBatch ----------------------------
(* A small corpus for TLC: the faults each caller meets.                    *)
EXTENDS CorpusBatch, TLC

\* One that asks for the same operations again may meet every fault.  One that asks
\* for others may not meet a death that leaves an old envelope behind.
CorpusFaults ==
  [c \in Callers |->
     IF c = "same_ops" THEN FaultKinds ELSE {"op_error", "dies_late"}]

\* That death alone (see CorpusBatchStale.cfg).
StaleFaults == [c \in Callers |-> {"dies_early"}]
=============================================================================
