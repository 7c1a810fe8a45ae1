--------------------------- MODULE MCApplyStaged ----------------------------
(* Small patches for TLC: three operations in batches of two and one.      *)
EXTENDS ApplyStaged, TLC

Plan21 == (0 :> 0) @@ (1 :> 2) @@ (2 :> 3)

\* Every fault but the two that the per-op lane does not notice, which have runs of
\* their own.
NoticedFaults == FaultKinds \ {"op_silent", "inspect_error"}
=============================================================================
