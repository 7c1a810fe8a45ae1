--------------------------- MODULE MCBatchPlanner ---------------------------
(* Every patch of up to MaxOps operations over two blocks, for TLC.         *)
EXTENDS BatchPlanner

CONSTANTS MaxOps, Door, Window

\* Only block operations carry a block name.
OperationsMC ==
  {op \in [operation : {"create_block", "append_block_entity", "relink_hatch_assoc", "other"},
           block : {Door, Window, NoName}] :
     op.block # NoName => op.operation \in {"create_block", "append_block_entity"}}

PatchesMC == UNION {[1 .. n -> OperationsMC] : n \in 0 .. MaxOps}
=============================================================================
