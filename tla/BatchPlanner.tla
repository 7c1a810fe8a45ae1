---------------------------- MODULE BatchPlanner ----------------------------
(***************************************************************************)
(* The batch planner, tools/patch_batch_planner.py: one scan over the      *)
(* operations of a patch that groups them into batches, one accoreconsole  *)
(* session each.  A block definition (create_block and the appends into    *)
(* that block right after it) is one unit and is never split; a relink     *)
(* operation never shares a batch with another kind; a batch holds at most *)
(* `max' operations, unless it is one unit larger than that.               *)
(*                                                                         *)
(* validate_plan, which execute_write_batches consults before it runs a    *)
(* plan, is the operator ValidPlan.  Indices start at 1 here, at 0 there.  *)
(***************************************************************************)
EXTENDS Naturals, Sequences

LOCAL INSTANCE SequencesExt

CONSTANTS
  Names,    \* block names
  NoName,   \* no block name: absent, empty or not a string
  Patches,  \* the operation lists to plan
  Limits    \* the values of max_ops_per_batch

Operation ==
  [operation : {"create_block", "append_block_entity", "relink_hatch_assoc", "other"},
   block : Names \cup {NoName}]

ASSUME PlannerAssumption ==
  /\ NoName \notin Names
  /\ Patches \subseteq Seq(Operation)
  /\ Limits \subseteq Nat \ {0}

VARIABLES
  ops,               \* operations
  max,               \* max_ops_per_batch
  next,              \* first operation of the next unit
  batches,           \* the closed batches
  current,           \* the open batch
  currentIsRelink,   \* current_is_relink
  planned            \* plan_batches has returned

vars == <<ops, max, next, batches, current, currentIsRelink, planned>>

IsRelink(op) == op.operation = "relink_hatch_assoc"

\* _block_group_name is not None.
OpensGroup(op) == op.operation = "create_block" /\ op.block \in Names

\* _is_matching_block_append
AppendsTo(op, name) == op.operation = "append_block_entity" /\ op.block = name

\* Operation i opens a block definition and i + 1 .. j append to that block.
InGroup(i, j) ==
  OpensGroup(ops[i]) /\ \A k \in i + 1 .. j : AppendsTo(ops[k], ops[i].block)

\* The unit that starts at i ends at j: a whole block definition, or one operation.
IsUnit(i, j) ==
  IF OpensGroup(ops[i])
  THEN InGroup(i, j) /\ (j < Len(ops) => ~InGroup(i, j + 1))
  ELSE j = i

\* The operations i .. j as a list.
Run(i, j) == [k \in 1 .. (j - i) + 1 |-> i + k - 1]

Batch(indices, over) == [op_indices |-> indices, oversized |-> over]
-----------------------------------------------------------------------------
Init ==
  /\ ops \in Patches
  /\ max \in Limits
  /\ next = 1 /\ batches = << >> /\ current = << >> /\ currentIsRelink = FALSE
  /\ planned = FALSE

\* Variant: no relink barrier.
ClosesUnmixed(i, j) == current # << >> /\ Len(current) + Len(Run(i, j)) > max

\* Variant: the limit is off by one.
ClosesOneLate(i, j) ==
  /\ current # << >>
  /\ \/ IsRelink(ops[i]) # currentIsRelink
     \/ Len(current) + Len(Run(i, j)) > max + 1

\* The open batch is closed before the unit i .. j: across the relink barrier, or
\* because the unit does not fit (one that is larger than max never does).
ClosesBatch(i, j) ==
  /\ current # << >>
  /\ \/ IsRelink(ops[i]) # currentIsRelink
     \/ Len(current) + Len(Run(i, j)) > max

ClosedBefore(i, j) ==
  IF ClosesBatch(i, j) THEN Append(batches, Batch(current, FALSE)) ELSE batches

OpenBefore(i, j) == IF ClosesBatch(i, j) THEN << >> ELSE current

\* The unit after the one that ends at j.
After(j) == j + 1

PlaceUnit ==
  /\ next <= Len(ops)
  /\ \E last \in next .. Len(ops) :
       /\ IsUnit(next, last)
       /\ IF Len(Run(next, last)) > max
          THEN /\ batches' = Append(ClosedBefore(next, last), Batch(Run(next, last), TRUE))
               /\ current' = << >>
          ELSE /\ batches' = ClosedBefore(next, last)
               /\ current' = OpenBefore(next, last) \o Run(next, last)
       /\ next' = After(last)
  /\ currentIsRelink' = IsRelink(ops[next])
  /\ UNCHANGED <<ops, max, planned>>

\* Variant: the last open batch is dropped.
ReturnDropping ==
  /\ next > Len(ops) /\ ~planned
  /\ planned' = TRUE
  /\ UNCHANGED <<ops, max, next, batches, current, currentIsRelink>>

Return ==
  /\ next > Len(ops) /\ ~planned
  /\ batches' = IF current = << >> THEN batches ELSE Append(batches, Batch(current, FALSE))
  /\ current' = << >>
  /\ planned' = TRUE
  /\ UNCHANGED <<ops, max, next, currentIsRelink>>

Done == planned /\ UNCHANGED vars

Next == PlaceUnit \/ Return \/ Done

Spec == Init /\ [][Next]_vars
-----------------------------------------------------------------------------
Indices(k) == batches[k].op_indices

\* The last operation of batch k of a plan; 0 for the batch before the first.
End(bs, k) == IF k = 0 THEN 0 ELSE bs[k].op_indices[Len(bs[k].op_indices)]

\* Batch k of the plan made so far holds the operations First(k) .. Final(k).
Final(k) == End(batches, k)
First(k) == Final(k - 1) + 1

Holds(k, i) == i \in {Indices(k)[m] : m \in DOMAIN Indices(k)}

\* validate_plan returns no violation: no index is missing, out of range,
\* duplicated or out of order, no group is split, no batch mixes relinks with
\* other operations.
ValidPlan ==
  /\ FlattenSeq([k \in 1 .. Len(batches) |-> Indices(k)]) = Run(1, Len(ops))
  /\ \A i, j \in 1 .. Len(ops) : i < j /\ InGroup(i, j) =>
       \A k \in 1 .. Len(batches) : Holds(k, i) <=> Holds(k, j)
  /\ \A k \in 1 .. Len(batches) :
       \A i, j \in 1 .. Len(ops) :
         Holds(k, i) /\ Holds(k, j) => (IsRelink(ops[i]) <=> IsRelink(ops[j]))

-----------------------------------------------------------------------------
(* Properties.                                                             *)

\* The type of every variable.
TypeOK ==
  /\ ops \in Seq(Operation)
  /\ max \in Nat \ {0}
  /\ next \in 1 .. Len(ops) + 1
  /\ batches \in Seq([op_indices : Seq(Nat), oversized : BOOLEAN])
  /\ current \in Seq(Nat)
  /\ currentIsRelink \in BOOLEAN
  /\ planned \in BOOLEAN

\* execute_write_batches never refuses a plan of its own planner: what
\* plan_batches returns passes validate_plan.
ValidatorAccepts == planned => ValidPlan

\* The batches closed so far are consecutive, nonempty ranges of the patch.
Consecutive ==
  /\ \A k \in 1 .. Len(batches) : Indices(k) = Run(First(k), Final(k))
  /\ \A a, b \in 0 .. Len(batches) : a < b => Final(a) < Final(b)

\* A finished plan is what the write lane assumes of one (PlanAssumption of
\* WriteBatch with N = Len(ops), NB = Len(batches), Last = Final): consecutive
\* nonempty ranges in the order of the patch that end at its last operation.
PlanFitsLane == planned => Consecutive /\ Final(Len(batches)) = Len(ops)

\* No block definition goes on after operation i.
EndsUnit(i) == i < Len(ops) => \A g \in 1 .. i : ~InGroup(g, i + 1)

\* A block definition is applied in one session: no batch ends between a
\* create_block and the last of the appends that follow it.
GroupsWhole == \A k \in 1 .. Len(batches) : EndsUnit(Final(k))

Uniform(i, j) == \A a, b \in i .. j : IsRelink(ops[a]) <=> IsRelink(ops[b])

\* The handle ledger is filled from whole batches, so every operation before a
\* relink that could create what it links is in a strictly earlier batch.
RelinksWait == \A k \in 1 .. Len(batches) : Uniform(First(k), Final(k))

\* The batch b of the operations i .. j is over the limit only if it is flagged,
\* and then it is a single unit.
Bounded(b, i, j) ==
  IF b.oversized THEN Len(Run(i, j)) > max /\ IsUnit(i, j) ELSE Len(Run(i, j)) <= max

\* max_ops_per_batch is kept but for single units, which are flagged (validate_plan does
\* not look at the limit).
BatchesBounded == \A k \in 1 .. Len(batches) : Bounded(batches[k], First(k), Final(k))

-----------------------------------------------------------------------------
(* The invariant of the scan.                                              *)

GoodBatch(b, i, j) ==
  /\ b.op_indices = Run(i, j)
  /\ Uniform(i, j)
  /\ EndsUnit(j)
  /\ Bounded(b, i, j)

GoodPlan(bs) ==
  /\ \A k \in 1 .. Len(bs) : GoodBatch(bs[k], End(bs, k - 1) + 1, End(bs, k))
  /\ \A k \in 0 .. Len(bs) : End(bs, k) \in Nat
  /\ \A a, b \in 0 .. Len(bs) : a < b => End(bs, a) < End(bs, b)

\* The open batch holds what lies between the closed ones and the cursor.
OpenBatch ==
  /\ Final(Len(batches)) < next
  /\ current = Run(Final(Len(batches)) + 1, next - 1)
  /\ Len(current) <= max
  /\ \A i \in Final(Len(batches)) + 1 .. next - 1 : IsRelink(ops[i]) <=> currentIsRelink
  /\ EndsUnit(next - 1)
  /\ planned => current = << >> /\ next = Len(ops) + 1

ScanInv == GoodPlan(batches) /\ OpenBatch
=============================================================================
