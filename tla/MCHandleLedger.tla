--------------------------- MODULE MCHandleLedger ---------------------------
(* Small patches for TLC: the relinks of the handle ledger's run.           *)
EXTENDS HandleLedger, MCWriteBatch

\* Two appends, a third in a batch of its own, and a relink: of an entity of
\* either batch, or of one that no operation recreates.
Relinks211 == { << {}, {}, {}, {2, 3} >>, << {}, {}, {}, {1, 0} >> }
=============================================================================
