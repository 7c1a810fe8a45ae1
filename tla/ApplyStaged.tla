----------------------------- MODULE ApplyStaged ----------------------------
(***************************************************************************)
(* apply_staged of tools/patch_engine.py: a patch of N native write        *)
(* operations is applied to a copy of a drawing that other programs may    *)
(* edit meanwhile, and the call may be repeated in the same out_dir.       *)
(*                                                                         *)
(* The per-op lane makes one router call for each operation; every call    *)
(* works on its own copy and hands a mutated drawing back, which becomes   *)
(* the input of the next.  The batched lane mutates the staged copy in     *)
(* place, batch by batch; its inside is the module WriteBatch, and here it *)
(* keeps the promise of StagedPatch.                                       *)
(***************************************************************************)
EXTENDS Naturals, Sequences

CONSTANTS
  N,         \* number of resolved write operations
  NB, Last,  \* the planned batches: Last[b] is the last operation of batch b
  MaxEdits,  \* bound on the edits of the original by others
  MaxCalls,  \* bound on the calls of apply_staged on one out_dir
  Faults     \* the faults a run admits, see FaultKinds

FaultKinds ==
  { "staging",       \* a copy of the drawing cannot be written
    "op_lost",       \* a router call hands back no mutated drawing
    "op_silent",     \* ... hands back one that the operation did not change
    "batch_stops",   \* the batched lane stops
    "inspect",       \* an inspection returns nothing
    "inspect_error", \* an inspection returns the error document of its native job
    "review",        \* the diff or the validator is unavailable or fails
    "crash" }        \* the Python process dies

ASSUME ApplyAssumption ==
  /\ N \in Nat \ {0}
  /\ NB \in Nat \ {0}
  /\ Last \in [0 .. NB -> 0 .. N]
  /\ Last[0] = 0
  /\ Last[NB] = N
  /\ \A a, b \in 0 .. NB : a < b => Last[a] < Last[b]
  /\ MaxEdits \in Nat
  /\ MaxCalls \in Nat \ {0}
  /\ Faults \subseteq FaultKinds

VARIABLES
  original,  \* the version of the original drawing
  before,    \* original_sha256: the version hashed when it was staged
  input,     \* staged_input.dwg
  step,      \* per operation: apply/op_NN/staged_step.dwg
  output,    \* staged_output.dwg
  preIR,     \* the drawing that pre/dwg_graph_ir.json of this call describes
  postIR,    \* the drawing that post/dwg_graph_ir.json of this call describes
  options,   \* of the call: its lane, its inspections, whether it relinks
  pc,        \* where the call is
  n,         \* operations (or batches) applied so far
  status,    \* the status of the result envelope
  calls      \* calls made so far

world == <<original, options, calls>>
vars  == <<original, before, input, step, output, preIR, postIR, options, pc, n, status,
           calls>>

Ops      == 1 .. N
Versions == 1 .. MaxEdits + 1
Options  == [lane : {"per_op", "batched"}, pre : BOOLEAN, post : BOOLEAN, relink : BOOLEAN]

\* A drawing file: a version of the original and the operations applied to it;
\* and what is no drawing at all.
NoFile      == [base |-> 0, ops |-> << >>]
Pristine(v) == [base |-> v, ops |-> << >>]
FirstOps(k) == [i \in 1 .. k |-> i]

PerOp   == options.lane = "per_op"
Batched == options.lane = "batched"

\* The per-op lane always inspects; the batched lane when it is told to.
InspectsPre  == PerOp \/ options.pre
InspectsPost == PerOp \/ options.post

-----------------------------------------------------------------------------
Init ==
  /\ original = 1 /\ before = 1
  /\ input = NoFile /\ step = [i \in Ops |-> NoFile] /\ output = NoFile
  /\ preIR = NoFile /\ postIR = NoFile
  /\ options \in Options
  /\ pc = "idle" /\ n = 0 /\ status = "ok" /\ calls = 0

\* Somebody saves a new version of the original.
Edit ==
  /\ original <= MaxEdits
  /\ original' = original + 1
  /\ UNCHANGED <<before, input, step, output, preIR, postIR, options, pc, n, status, calls>>

\* _finish: the result envelope is written and returned.
Finish(st) ==
  /\ pc' = "done" /\ status' = st
  /\ UNCHANGED <<world, before, step, output, preIR, postIR, n>>

-----------------------------------------------------------------------------
(* Guards and staging.                                                     *)

\* A first call, or another one in the same out_dir: the files are still there.
Call ==
  /\ pc \in {"idle", "done", "crashed"} /\ calls < MaxCalls
  /\ pc' = "check" /\ n' = 0 /\ calls' = calls + 1
  /\ options' \in (IF calls = 0 THEN {options} ELSE Options)
  /\ preIR' = NoFile /\ postIR' = NoFile /\ status' = "ok"
  /\ UNCHANGED <<original, before, input, step, output>>

\* The patch is malformed, too risky, unguarded or without a native handler, a
\* sibling module is missing or the input is not there: nothing is touched.
Refuse ==
  /\ pc = "check"
  /\ \E st \in {"blocked", "not_implemented"} : Finish(st)
  /\ UNCHANGED input

\* create_staged_copy: the original is hashed, then copied.
Hash ==
  /\ pc = "check"
  /\ before' = original
  /\ pc' = "copy"
  /\ UNCHANGED <<world, input, step, output, preIR, postIR, n, status>>

Copy ==
  /\ pc = "copy"
  /\ input' = Pristine(original)
  /\ pc' = "pre"
  /\ UNCHANGED <<world, before, step, output, preIR, postIR, n, status>>

\* _native_full_ir: any result object is made into a graph, the error document of
\* a job that failed into a graph of nothing.
GraphsOf(d) == {d} \cup (IF "inspect_error" \in Faults THEN {NoFile} ELSE {})

\* The copy, or the batched lane's snapshot of it, cannot be written, or the module
\* of that lane is missing.
StagingFails ==
  /\ "staging" \in Faults
  /\ \/ pc = "copy" /\ Finish("blocked")
     \/ pc = "pre" /\ Batched /\ \E st \in {"blocked", "not_implemented"} : Finish(st)
  /\ UNCHANGED input

PreInspect ==
  /\ pc = "pre"
  /\ preIR' \in (IF InspectsPre THEN GraphsOf(input) ELSE {NoFile})
  /\ pc' = "apply"
  /\ UNCHANGED <<world, before, input, step, output, postIR, n, status>>

\* The per-op lane gives up, the batched lane goes on without the IR.
PreInspectFails ==
  /\ "inspect" \in Faults
  /\ pc = "pre" /\ InspectsPre
  /\ \/ /\ PerOp
        /\ \E st \in {"partial", "unavailable"} : Finish(st)
     \/ /\ Batched
        /\ pc' = "apply"
        /\ UNCHANGED <<world, before, step, output, preIR, postIR, n, status>>
  /\ UNCHANGED input

-----------------------------------------------------------------------------
(* The per-op lane.                                                        *)

\* Relinking needs the handle ledger that only the batched lane fills.
RefuseRelink ==
  /\ pc = "apply" /\ PerOp /\ options.relink
  /\ Finish("blocked")
  /\ UNCHANGED input

\* current_input: the staged copy, then the output of the last operation.
CurrentInput == IF n = 0 THEN input ELSE step[n]

MoreOps == n < N

\* The next operation on a working copy d of the current input.
WithNext(d) == [base |-> d.base, ops |-> Append(d.ops, n + 1)]

\* Variant: a step output that is there already is kept.
StepKept(d) == IF step[n + 1] = NoFile THEN [step EXCEPT ![n + 1] = d] ELSE step

\* shutil.copy2(mutated, step_out).
StepCopied(d) == [step EXCEPT ![n + 1] = d]

\* A router call hands its working copy back.  It is named whatever became of the
\* native job, and the lane looks at nothing else.
ApplyOp ==
  /\ pc = "apply" /\ PerOp /\ ~options.relink /\ MoreOps
  /\ \E d \in {WithNext(CurrentInput)} \cup
              (IF "op_silent" \in Faults THEN {CurrentInput} ELSE {}) :
       step' = StepCopied(d)
  /\ n' = n + 1
  /\ UNCHANGED <<world, before, input, output, preIR, postIR, pc, status>>

\* The router refused, timed out or could not be launched.
LoseOp ==
  /\ "op_lost" \in Faults
  /\ pc = "apply" /\ PerOp /\ ~options.relink /\ MoreOps
  /\ \E st \in {"partial", "unavailable"} : Finish(st)
  /\ UNCHANGED input

PublishPerOp ==
  /\ pc = "apply" /\ PerOp /\ ~options.relink /\ ~MoreOps
  /\ output' = CurrentInput
  /\ pc' = "post"
  /\ UNCHANGED <<world, before, input, step, preIR, postIR, n, status>>

-----------------------------------------------------------------------------
(* The batched lane (see WriteBatch), called with resume off when its       *)
(* out_dir holds the files of an earlier call.                              *)

ApplyBatch ==
  /\ pc = "apply" /\ Batched /\ n < NB
  /\ input' = [input EXCEPT !.ops = FirstOps(Last[n + 1])]
  /\ n' = n + 1
  /\ UNCHANGED <<world, before, step, output, preIR, postIR, pc, status>>

\* What a batch that stops may leave: the earlier batches and some of its own
\* operations, in order.
Halfway(b) ==
  {d \in UNION {[1 .. k -> Ops] : k \in Last[b - 1] .. Last[b]} :
     /\ \A i \in 1 .. Last[b - 1] : d[i] = i
     /\ \A i, j \in DOMAIN d : i < j => d[i] < d[j]
     /\ \A i \in DOMAIN d : d[i] <= Last[b]}

StopBatched ==
  /\ "batch_stops" \in Faults
  /\ pc = "apply" /\ Batched /\ n < NB
  /\ \E d \in Halfway(n + 1) : input' = [input EXCEPT !.ops = d]
  /\ \E st \in {"partial", "blocked"} : Finish(st)

PublishBatched ==
  /\ pc = "apply" /\ Batched /\ n = NB
  /\ output' = input
  /\ pc' = "post"
  /\ UNCHANGED <<world, before, input, step, preIR, postIR, n, status>>

-----------------------------------------------------------------------------
(* The evidence.                                                           *)

\* Variant: the staged input is inspected again.
PostInspectedInput == input

\* staged_output is inspected, not the copy the lane worked on.
PostInspected == output

PostInspect ==
  /\ pc = "post"
  /\ postIR' \in (IF InspectsPost THEN GraphsOf(PostInspected) ELSE {NoFile})
  /\ pc' = "review"
  /\ UNCHANGED <<world, before, input, step, output, preIR, n, status>>

PostInspectFails ==
  /\ "inspect" \in Faults
  /\ pc = "post" /\ InspectsPost
  /\ \/ /\ PerOp
        /\ \E st \in {"partial", "unavailable"} : Finish(st)
     \/ /\ Batched
        /\ pc' = "review"
        /\ UNCHANGED <<world, before, step, output, preIR, postIR, n, status>>
  /\ UNCHANGED input

\* Diff and validation.  What the validator finds is recorded, not obeyed; the
\* batched lane goes on without either.
Review ==
  /\ pc = "review"
  /\ pc' = "prove"
  /\ UNCHANGED <<world, before, input, step, output, preIR, postIR, n, status>>

ReviewFails ==
  /\ "review" \in Faults
  /\ pc = "review" /\ PerOp
  /\ Finish("partial")
  /\ UNCHANGED input

\* Variant: the original is not hashed again.
UnchangedAssumed == TRUE

\* _original_unchanged: the hash of the original now is the hash it had.
Unchanged == original = before

\* Only an original that is byte-identical lets the call end in "ok".
Prove ==
  /\ pc = "prove"
  /\ Finish(IF Unchanged THEN "ok" ELSE "blocked")
  /\ UNCHANGED input

Crash ==
  /\ "crash" \in Faults
  /\ pc \notin {"idle", "done", "crashed"}
  /\ pc' = "crashed"
  /\ UNCHANGED <<world, before, input, step, output, preIR, postIR, n, status>>

Next ==
  \/ Edit \/ Call \/ Refuse \/ Hash \/ Copy \/ StagingFails \/ PreInspect \/ PreInspectFails
  \/ RefuseRelink \/ ApplyOp \/ LoseOp \/ PublishPerOp
  \/ ApplyBatch \/ StopBatched \/ PublishBatched
  \/ PostInspect \/ PostInspectFails \/ Review \/ ReviewFails \/ Prove \/ Crash

Spec == Init /\ [][Next]_vars

-----------------------------------------------------------------------------
Drawing == [base : 0 .. MaxEdits + 1, ops : Seq(Ops)]

\* The type of every variable.
TypeOK ==
  /\ original \in Versions /\ before \in Versions
  /\ input \in Drawing /\ step \in [Ops -> Drawing] /\ output \in Drawing
  /\ preIR \in Drawing /\ postIR \in Drawing
  /\ options \in Options
  /\ pc \in {"idle", "check", "copy", "pre", "apply", "post", "review", "prove", "done",
             "crashed"}
  /\ n \in 0 .. (IF PerOp THEN N ELSE NB)
  /\ status \in {"ok", "partial", "unavailable", "blocked", "not_implemented"}
  /\ calls \in 0 .. MaxCalls

Ok == pc = "done" /\ status = "ok"

\* "ok" means that the mutation applied: the output holds every operation of the
\* patch, once and in order, over the original that was hashed when it was staged
\* (apply_staged's docstring: "ok -- the mutation applied").
OkIsPatched == Ok => output = [base |-> before, ops |-> FirstOps(N)]

\* The graphs of an "ok" report, which its diff compares, are those of the hashed
\* original and of the output; the per-op lane has both of them.
InspectsMatch ==
  Ok =>
    /\ preIR \in {Pristine(before)} \cup (IF PerOp THEN {} ELSE {NoFile})
    /\ postIR \in {output} \cup (IF PerOp THEN {} ELSE {NoFile})

-----------------------------------------------------------------------------
(* The inductive invariant, of lanes that notice their faults.             *)

\* What was copied is no older than what was hashed.
StagedInv ==
  /\ pc = "copy" => before <= original
  /\ pc \in {"pre", "apply", "post", "review", "prove"} =>
       /\ input.base \in Versions
       /\ before <= input.base /\ input.base <= original

\* The current input holds the operations applied so far.
ChainInv ==
  /\ pc \in {"check", "copy", "pre"} => n = 0
  /\ pc = "pre" \/ (pc = "apply" /\ PerOp) => input = Pristine(input.base)
  /\ pc = "apply" /\ PerOp => CurrentInput = [base |-> input.base, ops |-> FirstOps(n)]
  /\ pc = "apply" /\ Batched => input = [base |-> input.base, ops |-> FirstOps(Last[n])]

OutputInv ==
  pc \in {"post", "review", "prove"} => output = [base |-> input.base, ops |-> FirstOps(N)]

\* No graph of an earlier call is left over.
EvidenceInv ==
  /\ pc \in {"check", "copy", "pre"} => preIR = NoFile
  /\ pc \in {"check", "copy", "pre", "apply", "post"} => postIR = NoFile
  /\ pc \in {"apply", "post", "review", "prove"} =>
       preIR \in {Pristine(input.base)} \cup (IF PerOp THEN {} ELSE {NoFile})
  /\ pc \in {"review", "prove"} =>
       postIR \in {output} \cup (IF PerOp THEN {} ELSE {NoFile})

CopyInv ==
  /\ StagedInv /\ ChainInv /\ OutputInv /\ EvidenceInv
  /\ OkIsPatched /\ InspectsMatch

\* What a caller sees of the call.
Verdict == IF pc # "done" THEN "open" ELSE IF status = "ok" THEN "ok" ELSE "stopped"

\* The calls keep the promise of PatchedCopy: staged_output.dwg never holds less than
\* the whole patch, and an "ok" is true of the original at the moment it is given.
Promise == INSTANCE PatchedCopy WITH verdict <- Verdict

CopyPromiseKept == Promise!Spec
=============================================================================
