------------------------- MODULE ApplyStagedProofs --------------------------
(* Theorems of ApplyStaged, for every patch, plan and bound.               *)
EXTENDS ApplyStaged, TLAPS

-----------------------------------------------------------------------------
(* Drawings.                                                               *)

\* Drawings that the lanes make are drawings.
LEMMA DrawingTypes ==
  /\ NoFile \in Drawing
  /\ \A v \in Versions : Pristine(v) \in Drawing
  /\ \A d \in Drawing, k \in Ops : [base |-> d.base, ops |-> Append(d.ops, k)] \in Drawing
  /\ \A d \in Drawing, s \in Seq(Ops) : [d EXCEPT !.ops = s] \in Drawing
<1>1. 0 \in 0 .. MaxEdits + 1 /\ << >> \in Seq(Ops) /\ Versions \subseteq 0 .. MaxEdits + 1
  BY ApplyAssumption DEF Versions
<1>2. \A d \in Drawing, s \in Seq(Ops) : [d EXCEPT !.ops = s] \in Drawing
  BY DEF Drawing
<1>3. \A d \in Drawing, k \in Ops : Append(d.ops, k) \in Seq(Ops)
  BY DEF Drawing
<1>4. \A d \in Drawing, k \in Ops : [base |-> d.base, ops |-> Append(d.ops, k)] \in Drawing
  BY <1>3 DEF Drawing
<1> QED BY <1>1, <1>2, <1>4 DEF NoFile, Pristine, Drawing

\* The first k operations are a sequence of operations.
LEMMA FirstOpsType ==
  ASSUME NEW k \in 0 .. N
  PROVE  FirstOps(k) \in Seq(Ops)
BY ApplyAssumption DEF FirstOps, Ops

LEMMA FirstOpsGrow ==
  ASSUME NEW k \in Nat
  PROVE  Append(FirstOps(k), k + 1) = FirstOps(k + 1)
BY DEF FirstOps

LEMMA FirstOpsEmpty == FirstOps(0) = << >>
BY DEF FirstOps

\* The next operation extends the operations and keeps the version.
LEMMA WithNextOf ==
  ASSUME NEW b, NEW s, NEW d, d = [base |-> b, ops |-> s]
  PROVE  WithNext(d) = [base |-> b, ops |-> Append(s, n + 1)]
BY DEF WithNext

\* A batch that stops leaves a sequence of operations.
LEMMA HalfwayType ==
  ASSUME NEW b \in 1 .. NB
  PROVE  Halfway(b) \subseteq Seq(Ops)
<1> SUFFICES ASSUME NEW d \in Halfway(b) PROVE d \in Seq(Ops)
  OBVIOUS
<1>1. Last[b - 1] \in Nat /\ Last[b] \in Nat
  BY ApplyAssumption
<1>2. PICK k \in Last[b - 1] .. Last[b] : d \in [1 .. k -> Ops]
  BY DEF Halfway
<1>3. k \in Nat
  BY <1>1, <1>2
<1> QED BY <1>2, <1>3

-----------------------------------------------------------------------------
(* Type correctness.                                                       *)

LEMMA InitType == Init => TypeOK
<1> SUFFICES ASSUME Init PROVE TypeOK
  OBVIOUS
<1>1. 1 \in Versions /\ 0 \in 0 .. MaxCalls /\ 0 \in 0 .. N /\ 0 \in 0 .. NB
  BY ApplyAssumption DEF Versions
<1> QED BY <1>1, DrawingTypes DEF Init, TypeOK

\* The result envelope of a call that ends.
LEMMA FinishType ==
  ASSUME TypeOK, NEW st, Finish(st), input' \in Drawing,
         st \in {"ok", "partial", "unavailable", "blocked", "not_implemented"}
  PROVE  TypeOK'
BY DEF TypeOK, Finish, world, PerOp

\* Every step keeps the types.
LEMMA NextType ==
  ASSUME TypeOK, [Next]_vars
  PROVE  TypeOK'
<1> USE DEF world, PerOp
<1>1. CASE Edit
  BY <1>1, ApplyAssumption DEF Edit, TypeOK, Versions
<1>2. CASE Call
  BY <1>2, ApplyAssumption, DrawingTypes DEF Call, TypeOK
<1>3. CASE Refuse
  BY <1>3, FinishType DEF Refuse, TypeOK
<1>4. CASE Hash
  BY <1>4 DEF Hash, TypeOK
<1>5. CASE Copy
  BY <1>5, DrawingTypes DEF Copy, TypeOK
<1>6. CASE PreInspect
  BY <1>6, DrawingTypes DEF PreInspect, TypeOK, GraphsOf
<1>7. CASE PreInspectFails
  <2>1. CASE PerOp /\ \E st \in {"partial", "unavailable"} : Finish(st)
    BY <1>7, <2>1, FinishType DEF PreInspectFails, TypeOK
  <2>2. CASE ~(PerOp /\ \E st \in {"partial", "unavailable"} : Finish(st))
    BY <1>7, <2>2 DEF PreInspectFails, TypeOK
  <2> QED BY <2>1, <2>2
<1>8. CASE RefuseRelink
  BY <1>8, FinishType DEF RefuseRelink, TypeOK
<1>9. CASE ApplyOp
  <2>0. n \in 0 .. N
    BY <1>9 DEF ApplyOp, TypeOK
  <2>1. n + 1 \in Ops /\ n' \in 0 .. N
    BY <1>9, <2>0, ApplyAssumption DEF ApplyOp, MoreOps, Ops
  <2>2. CurrentInput \in Drawing
    BY <2>0, <2>1 DEF CurrentInput, TypeOK, Ops
  <2>3. \A d \in Drawing : StepCopied(d) \in [Ops -> Drawing]
    BY DEF StepCopied, TypeOK
  <2>4. WithNext(CurrentInput) \in Drawing
    BY <2>1, <2>2, DrawingTypes DEF WithNext
  <2>5. step' \in [Ops -> Drawing]
    BY <1>9, <2>2, <2>3, <2>4 DEF ApplyOp
  <2> QED BY <1>9, <2>1, <2>5 DEF ApplyOp, TypeOK
<1>10. CASE LoseOp
  BY <1>10, FinishType DEF LoseOp, TypeOK
<1>11. CASE PublishPerOp
  <2>1. CurrentInput \in Drawing
    BY <1>11, ApplyAssumption DEF PublishPerOp, CurrentInput, TypeOK, Ops
  <2> QED BY <1>11, <2>1 DEF PublishPerOp, TypeOK
<1>12. CASE ApplyBatch
  <2>1. n + 1 \in 0 .. NB /\ ~PerOp
    BY <1>12, ApplyAssumption DEF ApplyBatch, TypeOK, Batched
  <2>2. FirstOps(Last[n + 1]) \in Seq(Ops)
    BY <2>1, ApplyAssumption, FirstOpsType
  <2>3. input' \in Drawing
    BY <1>12, <2>2, DrawingTypes DEF ApplyBatch, TypeOK
  <2> QED BY <1>12, <2>1, <2>3 DEF ApplyBatch, TypeOK
<1>13. CASE StopBatched
  <2>1. n + 1 \in 1 .. NB
    BY <1>13, ApplyAssumption DEF StopBatched, TypeOK, Batched
  <2>2. input' \in Drawing
    BY <1>13, <2>1, HalfwayType, DrawingTypes DEF StopBatched, TypeOK
  <2> QED BY <1>13, <2>2, FinishType DEF StopBatched
<1>14. CASE PublishBatched
  BY <1>14 DEF PublishBatched, TypeOK
<1>15. CASE PostInspect
  BY <1>15, DrawingTypes DEF PostInspect, PostInspected, TypeOK, GraphsOf
<1>16. CASE PostInspectFails
  <2>1. CASE PerOp /\ \E st \in {"partial", "unavailable"} : Finish(st)
    BY <1>16, <2>1, FinishType DEF PostInspectFails, TypeOK
  <2>2. CASE ~(PerOp /\ \E st \in {"partial", "unavailable"} : Finish(st))
    BY <1>16, <2>2 DEF PostInspectFails, TypeOK
  <2> QED BY <2>1, <2>2
<1>17. CASE Review
  BY <1>17 DEF Review, TypeOK
<1>18. CASE ReviewFails
  BY <1>18, FinishType DEF ReviewFails, TypeOK
<1>19. CASE Prove
  BY <1>19, FinishType DEF Prove, TypeOK
<1>20. CASE Crash
  BY <1>20 DEF Crash, TypeOK
<1>21. CASE StagingFails
  BY <1>21, FinishType DEF StagingFails, TypeOK
<1>22. CASE UNCHANGED vars
  BY <1>22 DEF vars, TypeOK
<1> QED
  BY <1>1, <1>2, <1>3, <1>4, <1>5, <1>6, <1>7, <1>8, <1>9, <1>10, <1>11, <1>12, <1>13,
     <1>14, <1>15, <1>16, <1>17, <1>18, <1>19, <1>20, <1>21, <1>22 DEF Next

\* Every variable keeps its type in both lanes, whatever fails.
THEOREM TypeCorrect == Spec => []TypeOK
<1>1. Init => TypeOK
  BY InitType
<1>2. TypeOK /\ [Next]_vars => TypeOK'
  BY NextType
<1> QED BY <1>1, <1>2, PTL DEF Spec

-----------------------------------------------------------------------------
(* The invariant, when no fault goes unnoticed.                            *)

Noticed == "op_silent" \notin Faults /\ "inspect_error" \notin Faults

\* A call that ends otherwise than "ok" claims nothing.
LEMMA FinishInv ==
  ASSUME NEW st, st # "ok", Finish(st)
  PROVE  CopyInv'
BY DEF Finish, CopyInv, StagedInv, ChainInv, OutputInv, EvidenceInv, OkIsPatched,
       InspectsMatch, Ok

\* Every step keeps the invariant.
LEMMA NextInv ==
  ASSUME Noticed, TypeOK, CopyInv, [Next]_vars
  PROVE  CopyInv'
<1> USE DEF world, CopyInv, StagedInv, ChainInv, OutputInv, EvidenceInv, OkIsPatched,
            InspectsMatch, Ok, PerOp, Batched
<1>0. original \in Nat /\ before \in Nat
  BY ApplyAssumption DEF TypeOK, Versions
<1>1. CASE Edit
  BY <1>0, <1>1, ApplyAssumption DEF Edit, Versions, CurrentInput
<1>2. CASE Call
  BY <1>2 DEF Call
<1>3. CASE Refuse
  BY <1>3, FinishInv DEF Refuse
<1>4. CASE Hash
  BY <1>0, <1>4 DEF Hash
<1>5. CASE Copy
  BY <1>0, <1>5 DEF Copy, Pristine, TypeOK
<1>6. CASE PreInspect
  <2>1. preIR' \in {Pristine(input.base)} \cup (IF PerOp THEN {} ELSE {NoFile})
    BY <1>6 DEF PreInspect, GraphsOf, Noticed, InspectsPre
  <2>2. n = 0 /\ input = [base |-> input.base, ops |-> FirstOps(n)]
    BY <1>6, FirstOpsEmpty DEF PreInspect, Pristine
  <2>3. FirstOps(Last[n]) = FirstOps(n)
    BY <2>2, ApplyAssumption
  <2> QED BY <1>6, <2>1, <2>2, <2>3 DEF PreInspect, CurrentInput
<1>7. CASE PreInspectFails
  <2>1. CASE PerOp
    BY <1>7, <2>1, FinishInv DEF PreInspectFails
  <2>2. CASE Batched /\ ~PerOp
    <3>1. preIR' = NoFile
      BY <1>7, <2>2 DEF PreInspectFails
    <3>2. n = 0 /\ input = [base |-> input.base, ops |-> FirstOps(n)]
      BY <1>7, FirstOpsEmpty DEF PreInspectFails, Pristine
    <3>3. FirstOps(Last[n]) = FirstOps(n)
      BY <3>2, ApplyAssumption
    <3> QED BY <1>7, <2>2, <3>1, <3>2, <3>3 DEF PreInspectFails, CurrentInput
  <2> QED BY <1>7, <2>1, <2>2 DEF PreInspectFails
<1>8. CASE RefuseRelink
  BY <1>8, FinishInv DEF RefuseRelink
<1>9. CASE ApplyOp
  <2>0. n \in 0 .. N
    BY <1>9 DEF ApplyOp, TypeOK
  <2>1. n \in Nat /\ n + 1 \in Ops /\ n' = n + 1 /\ n' # 0
    BY <1>9, <2>0, ApplyAssumption DEF ApplyOp, MoreOps, Ops
  <2>2. step' = StepCopied(WithNext(CurrentInput))
    BY <1>9 DEF ApplyOp, Noticed
  <2>3. step'[n + 1] = WithNext(CurrentInput)
    BY <2>1, <2>2 DEF StepCopied, TypeOK
  <2>4. CurrentInput = [base |-> input.base, ops |-> FirstOps(n)]
    BY <1>9 DEF ApplyOp
  <2>5. WithNext(CurrentInput) = [base |-> input.base, ops |-> Append(FirstOps(n), n + 1)]
    BY <2>4, WithNextOf
  <2>6. CurrentInput' = [base |-> input'.base, ops |-> FirstOps(n')]
    BY <1>9, <2>1, <2>3, <2>5, FirstOpsGrow DEF ApplyOp, CurrentInput
  <2> QED BY <1>9, <2>6 DEF ApplyOp
<1>10. CASE LoseOp
  BY <1>10, FinishInv DEF LoseOp
<1>11. CASE PublishPerOp
  <2>0. n \in 0 .. N
    BY <1>11 DEF PublishPerOp, TypeOK
  <2>1. n = N
    BY <1>11, <2>0, ApplyAssumption DEF PublishPerOp, MoreOps
  <2> QED BY <1>11, <2>1 DEF PublishPerOp
<1>12. CASE ApplyBatch
  <2>1. input' = [base |-> input.base, ops |-> FirstOps(Last[n + 1])]
    BY <1>12 DEF ApplyBatch
  <2> QED BY <1>12, <2>1 DEF ApplyBatch
<1>13. CASE StopBatched
  BY <1>13, FinishInv DEF StopBatched
<1>14. CASE PublishBatched
  <2>1. output' = [base |-> input.base, ops |-> FirstOps(N)]
    BY <1>14, ApplyAssumption DEF PublishBatched
  <2> QED BY <1>14, <2>1 DEF PublishBatched
<1>15. CASE PostInspect
  <2>1. postIR' \in {output} \cup (IF PerOp THEN {} ELSE {NoFile})
    BY <1>15 DEF PostInspect, PostInspected, GraphsOf, Noticed, InspectsPost
  <2> QED BY <1>15, <2>1 DEF PostInspect
<1>16. CASE PostInspectFails
  <2>1. CASE PerOp
    BY <1>16, <2>1, FinishInv DEF PostInspectFails
  <2>2. CASE Batched /\ ~PerOp
    <3>1. postIR' = NoFile
      BY <1>16, <2>2 DEF PostInspectFails
    <3> QED BY <1>16, <2>2, <3>1 DEF PostInspectFails
  <2> QED BY <1>16, <2>1, <2>2 DEF PostInspectFails
<1>17. CASE Review
  BY <1>17 DEF Review
<1>18. CASE ReviewFails
  BY <1>18, FinishInv DEF ReviewFails
<1>19. CASE Prove
  <2>1. CASE Unchanged
    <3>1. input.base = before
      BY <1>0, <1>19, <2>1, ApplyAssumption DEF Prove, Unchanged, Versions
    <3>2. OkIsPatched'
      BY <1>19, <2>1, <3>1 DEF Prove, Finish
    <3>3. InspectsMatch'
      BY <1>19, <2>1, <3>1 DEF Prove, Finish
    <3> QED BY <1>19, <2>1, <3>2, <3>3 DEF Prove, Finish
  <2>2. CASE ~Unchanged
    BY <1>19, <2>2, FinishInv DEF Prove
  <2> QED BY <2>1, <2>2
<1>20. CASE Crash
  BY <1>20 DEF Crash
<1>21. CASE StagingFails
  BY <1>21, FinishInv DEF StagingFails
<1>22. CASE UNCHANGED vars
  BY <1>22 DEF vars, CurrentInput
<1> QED
  BY <1>1, <1>2, <1>3, <1>4, <1>5, <1>6, <1>7, <1>8, <1>9, <1>10, <1>11, <1>12, <1>13,
     <1>14, <1>15, <1>16, <1>17, <1>18, <1>19, <1>20, <1>21, <1>22 DEF Next

LEMMA InitInv == Init => CopyInv
BY DEF Init, CopyInv, StagedInv, ChainInv, OutputInv, EvidenceInv, OkIsPatched,
       InspectsMatch, Ok

LEMMA InvariantHolds == Noticed => (Spec => [](TypeOK /\ CopyInv))
<1> SUFFICES ASSUME Noticed PROVE Spec => [](TypeOK /\ CopyInv)
  OBVIOUS
<1>1. Init => TypeOK /\ CopyInv
  BY InitType, InitInv
<1>2. TypeOK /\ CopyInv /\ [Next]_vars => (TypeOK /\ CopyInv)'
  BY NextType, NextInv
<1> QED BY <1>1, <1>2, PTL DEF Spec

\* An "ok" report means that the output is the patched version of the original that
\* was hashed, for every patch, plan, number of edits and of calls, as long as no
\* router call hides that its operation did nothing.
THEOREM OkPatched == Noticed => (Spec => []OkIsPatched)
<1> SUFFICES ASSUME Noticed PROVE Spec => []OkIsPatched
  OBVIOUS
<1>1. TypeOK /\ CopyInv => OkIsPatched
  BY DEF CopyInv
<1> QED BY <1>1, InvariantHolds, PTL

\* The graphs behind an "ok" report are those of its two drawings, unless an
\* inspection's error document was taken for a graph.
THEOREM EvidenceMatches == Noticed => (Spec => []InspectsMatch)
<1> SUFFICES ASSUME Noticed PROVE Spec => []InspectsMatch
  OBVIOUS
<1>1. TypeOK /\ CopyInv => InspectsMatch
  BY DEF CopyInv
<1> QED BY <1>1, InvariantHolds, PTL

-----------------------------------------------------------------------------
(* The lanes implement PatchedCopy.                                        *)

\* A step that leaves what a caller sees is a stutter of the promise.
LEMMA Stutter ==
  ASSUME original' = original, output' = output, pc # "done", pc' # "done"
  PROVE  UNCHANGED Promise!vars
BY DEF Promise!vars, Verdict

\* A call that ends otherwise than "ok" stops.
LEMMA FinishStops ==
  ASSUME NEW st, st # "ok", Finish(st), pc # "done"
  PROVE  Promise!Next
<1>1. Verdict = "open" /\ Verdict' = "stopped"
  BY DEF Finish, Verdict
<1> QED BY <1>1 DEF Finish, world, Promise!Next, Promise!Stop

\* The output that is published is a whole patch of a version there was.
LEMMA PublishIsPublish ==
  ASSUME TypeOK, CopyInv, pc = "apply", pc' = "post", original' = original,
         output' = [base |-> input.base, ops |-> FirstOps(N)]
  PROVE  Promise!Next
<1>1. input.base \in 1 .. original
  BY ApplyAssumption DEF TypeOK, CopyInv, StagedInv, Versions
<1>2. output' = Promise!Patched(input.base)
  BY DEF Promise!Patched, FirstOps
<1>3. Verdict = "open" /\ Verdict' = "open"
  BY DEF Verdict
<1> QED BY <1>1, <1>2, <1>3 DEF Promise!Next, Promise!Publish

\* Every step is a step of the promise or a stutter.
LEMMA StepImplements ==
  ASSUME Noticed, TypeOK, CopyInv, [Next]_vars
  PROVE  [Promise!Next]_Promise!vars
<1> USE DEF world
<1>1. CASE Edit
  BY <1>1 DEF Edit, Promise!Next, Promise!Edit, Verdict
<1>2. CASE Call
  <2>1. CASE pc = "done"
    BY <1>2, <2>1 DEF Call, Promise!Next, Promise!Retry, Verdict
  <2>2. CASE pc # "done"
    BY <1>2, <2>2, Stutter DEF Call
  <2> QED BY <2>1, <2>2
<1>3. CASE Refuse
  BY <1>3, FinishStops DEF Refuse
<1>4. CASE Hash
  BY <1>4, Stutter DEF Hash
<1>5. CASE Copy
  BY <1>5, Stutter DEF Copy
<1>6. CASE PreInspect
  BY <1>6, Stutter DEF PreInspect
<1>7. CASE PreInspectFails
  BY <1>7, FinishStops, Stutter DEF PreInspectFails
<1>8. CASE RefuseRelink
  BY <1>8, FinishStops DEF RefuseRelink
<1>9. CASE ApplyOp
  BY <1>9, Stutter DEF ApplyOp
<1>10. CASE LoseOp
  BY <1>10, FinishStops DEF LoseOp
<1>11. CASE PublishPerOp
  <2>0. n \in 0 .. N
    BY <1>11 DEF PublishPerOp, TypeOK
  <2>1. n = N
    BY <1>11, <2>0, ApplyAssumption DEF PublishPerOp, MoreOps
  <2>2. output' = [base |-> input.base, ops |-> FirstOps(N)]
    BY <1>11, <2>1 DEF PublishPerOp, CopyInv, ChainInv
  <2> QED BY <1>11, <2>2, PublishIsPublish DEF PublishPerOp
<1>12. CASE ApplyBatch
  BY <1>12, Stutter DEF ApplyBatch
<1>13. CASE StopBatched
  BY <1>13, FinishStops DEF StopBatched
<1>14. CASE PublishBatched
  <2>1. output' = [base |-> input.base, ops |-> FirstOps(N)]
    BY <1>14, ApplyAssumption DEF PublishBatched, CopyInv, ChainInv
  <2> QED BY <1>14, <2>1, PublishIsPublish DEF PublishBatched
<1>15. CASE PostInspect
  BY <1>15, Stutter DEF PostInspect
<1>16. CASE PostInspectFails
  BY <1>16, FinishStops, Stutter DEF PostInspectFails
<1>17. CASE Review
  BY <1>17, Stutter DEF Review
<1>18. CASE ReviewFails
  BY <1>18, FinishStops DEF ReviewFails
<1>19. CASE Prove
  <2>1. CASE Unchanged
    <3>1. input.base = original
      BY <1>19, <2>1, ApplyAssumption
      DEF Prove, Unchanged, TypeOK, CopyInv, StagedInv, Versions
    <3>2. output = Promise!Patched(original)
      BY <1>19, <3>1 DEF Prove, CopyInv, OutputInv, Promise!Patched, FirstOps
    <3>3. Verdict = "open" /\ Verdict' = "ok"
      BY <1>19, <2>1 DEF Prove, Finish, Verdict
    <3> QED BY <1>19, <3>2, <3>3 DEF Prove, Finish, Promise!Next, Promise!Accept
  <2>2. CASE ~Unchanged
    BY <1>19, <2>2, FinishStops DEF Prove
  <2> QED BY <2>1, <2>2
<1>20. CASE Crash
  BY <1>20, Stutter DEF Crash
<1>21. CASE StagingFails
  BY <1>21, FinishStops DEF StagingFails
<1>22. CASE UNCHANGED vars
  BY <1>22 DEF vars, Promise!vars, Verdict
<1> QED
  BY <1>1, <1>2, <1>3, <1>4, <1>5, <1>6, <1>7, <1>8, <1>9, <1>10, <1>11, <1>12, <1>13,
     <1>14, <1>15, <1>16, <1>17, <1>18, <1>19, <1>20, <1>21, <1>22 DEF Next

\* apply_staged implements PatchedCopy: its output is never less than the whole patch,
\* and "ok" is said only of a patch of the original as it is at that moment.
THEOREM KeepsCopyPromise == Noticed => (Spec => CopyPromiseKept)
<1> SUFFICES ASSUME Noticed PROVE Spec => CopyPromiseKept
  OBVIOUS
<1>1. Init => Promise!Init
  BY DEF Init, Promise!Init, Verdict, NoFile
<1>2. TypeOK /\ CopyInv /\ [Next]_vars => [Promise!Next]_Promise!vars
  BY StepImplements
<1> QED BY <1>1, <1>2, InvariantHolds, PTL DEF Spec, CopyPromiseKept, Promise!Spec
=============================================================================
