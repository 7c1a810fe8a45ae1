-------------------------- MODULE WriteBatchProofs --------------------------
(* Theorems of the batched write lane, WriteBatch and its HandleLedger, for *)
(* every patch, plan, set of faults and bound.                              *)
EXTENDS HandleLedger, FiniteSetTheorems, TLAPS

-----------------------------------------------------------------------------
(* The plan and the drawings.                                              *)

\* Batches partition the operations into consecutive, nonempty ranges.
LEMMA PlanRange ==
  ASSUME NEW b \in Batches
  PROVE  /\ b - 1 \in 0 .. NB /\ b \in 0 .. NB
         /\ Last[b - 1] \in 0 .. N /\ Last[b] \in 0 .. N
         /\ Last[b - 1] < Last[b]
         /\ OpsOf(b) \subseteq Ops
<1>1. b - 1 \in 0 .. NB /\ b \in 0 .. NB /\ b - 1 < b
  BY PlanAssumption DEF Batches
<1>2. Last[b - 1] \in 0 .. N /\ Last[b] \in 0 .. N /\ Last[b - 1] < Last[b]
  BY <1>1, PlanAssumption
<1>3. OpsOf(b) \subseteq Ops
  BY <1>2, PlanAssumption DEF OpsOf, Ops
<1> QED BY <1>1, <1>2, <1>3

\* The whole drawing of k operations grows by the operation k + 1.
LEMMA FirstOpsGrow ==
  ASSUME NEW k \in Nat
  PROVE  Append(FirstOps(k), k + 1) = FirstOps(k + 1)
BY DEF FirstOps

LEMMA EmptyDrawing == << >> \in Seq(Ops)
OBVIOUS

LEMMA FirstOpsEmpty == FirstOps(0) = << >>
BY DEF FirstOps

\* The first k operations are k.
LEMMA PrefixSize ==
  ASSUME NEW k \in Nat
  PROVE  IsFiniteSet(1 .. k) /\ Cardinality(1 .. k) = k
BY FS_Interval

\* A batch is finite.
LEMMA BatchFinite == ASSUME NEW b \in Batches PROVE IsFiniteSet(OpsOf(b))
<1>1. Last[b - 1] + 1 \in Int /\ Last[b] \in Int
  BY PlanRange
<1>2. PICK m \in Int, n \in Int : m = Last[b - 1] + 1 /\ n = Last[b]
  BY <1>1
<1>3. IsFiniteSet(m .. n)
  BY FS_Interval
<1>4. OpsOf(b) = m .. n
  BY <1>2 DEF OpsOf
<1> QED BY <1>3, <1>4

\* Counts of operations of a batch are natural numbers.
LEMMA BatchCount ==
  ASSUME NEW b \in Batches, NEW S
  PROVE  /\ Cardinality(OpsOf(b)) \in Nat
         /\ Cardinality(S \cap OpsOf(b)) \in Nat
<1>1. IsFiniteSet(OpsOf(b))
  BY BatchFinite
<1>2. IsFiniteSet(S \cap OpsOf(b))
  BY <1>1, FS_Subset
<1> QED BY <1>1, <1>2, FS_CardinalityType

-----------------------------------------------------------------------------
(* Type correctness.                                                       *)

LEMMA InitType == Init => TypeOK
<1> SUFFICES ASSUME Init PROVE TypeOK
  OBVIOUS
<1>1. 1 \in Batches /\ 1 \in 1 .. N + 1 /\ 1 \in 1 .. NB + 1 /\ 0 \in 0 .. MaxCalls
  BY PlanAssumption, CallAssumption DEF Batches
<1>2. NoEnvelope \in EnvelopeType
  BY DEF NoEnvelope, EnvelopeType
<1>3. DiskType
  BY <1>2, EmptyDrawing DEF Init, DiskType
<1>4. SessionType
  BY <1>1, EmptyDrawing DEF Init, SessionType
<1>5. ExecutorType
  BY <1>1 DEF Init, ExecutorType
<1> QED BY <1>3, <1>4, <1>5 DEF TypeOK

\* A new call resets the executor and, perhaps, the staged copy.
LEMMA CallerType == TypeOK /\ Caller => TypeOK'
<1> USE DEF files, sess, exec
<1>1. ASSUME TypeOK, NEW rs \in BOOLEAN, StartCall(rs), calls < MaxCalls,
             pc # "running", router = "gone", dwg' \in {dwg, << >>}
      PROVE  TypeOK'
  <2>1. calls + 1 \in 0 .. MaxCalls /\ 1 \in 1 .. NB + 1
    BY <1>1, PlanAssumption, CallAssumption DEF TypeOK, ExecutorType
  <2>2. DiskType'
    <3>1. dwg' \in Seq(Ops)
      BY <1>1, EmptyDrawing DEF TypeOK, DiskType
    <3> QED BY <1>1, <3>1 DEF TypeOK, DiskType, StartCall
  <2>3. SessionType'
    BY <1>1 DEF TypeOK, SessionType, StartCall
  <2>4. ExecutorType'
    BY <1>1, <2>1 DEF TypeOK, ExecutorType, StartCall
  <2> QED BY <2>2, <2>3, <2>4 DEF TypeOK
<1> SUFFICES ASSUME TypeOK, Caller PROVE TypeOK'
  OBVIOUS
<1>2. pc = "idle" => calls < MaxCalls /\ router = "gone"
  BY CallAssumption DEF TypeOK, SessionType, ExecutorType
<1>3. calls \in 1 .. MaxCalls - 1 => calls < MaxCalls
  BY CallAssumption
<1>4. CASE FirstCall
  BY <1>1, <1>2, <1>4 DEF FirstCall
<1>5. CASE ResumeCall
  BY <1>1, <1>3, <1>5 DEF ResumeCall, MayCallAgain
<1>6. ASSUME NEW rs \in BOOLEAN, ReapplyCall(rs) PROVE TypeOK'
  BY <1>1, <1>3, <1>6 DEF ReapplyCall, MayCallAgain
<1> QED BY <1>4, <1>5, <1>6 DEF Caller

\* The executor moves its cursor inside the plan.
LEMMA ExecutorKeepsType == TypeOK /\ (Executor \/ ExecutorCrash) => TypeOK'
<1> SUFFICES ASSUME TypeOK, Executor \/ ExecutorCrash PROVE TypeOK'
  OBVIOUS
<1> USE DEF files, sess, exec
<1>1. dwg' = dwg /\ files' = files /\ sess' = sess
  BY DEF Executor, SkipBatch, RefuseBatch, LaunchBatch, AcceptBatch, StopBatch,
         Finish, ExecutorCrash
<1>2. router' \in {"gone", "starting", "waiting"}
  BY DEF TypeOK, SessionType, Executor, SkipBatch, RefuseBatch, LaunchBatch, AcceptBatch,
         StopBatch, Finish, ExecutorCrash
<1>3. DiskType' /\ SessionType'
  BY <1>1, <1>2 DEF TypeOK, DiskType, SessionType
<1>4. ASSUME cur \in Batches
      PROVE  /\ cur + 1 \in 1 .. NB + 1
             /\ okTotal + Cardinality(OpsOf(cur)) \in Nat
             /\ \A S : okTotal + Cardinality(S \cap OpsOf(cur)) \in Nat
  <2>1. okTotal \in Nat /\ cur + 1 \in 1 .. NB + 1
    BY <1>4, PlanAssumption DEF TypeOK, ExecutorType, Batches
  <2>2. okTotal + Cardinality(OpsOf(cur)) \in Nat
    BY <1>4, <2>1, BatchCount
  <2>3. ASSUME NEW S PROVE okTotal + Cardinality(S \cap OpsOf(cur)) \in Nat
    BY <1>4, <2>1, BatchCount
  <2> QED BY <2>1, <2>2, <2>3
<1>5. pc = "batch" /\ cur <= NB => cur \in Batches
  BY PlanAssumption DEF TypeOK, ExecutorType, Batches
<1> USE DEF TypeOK, ExecutorType
<1>6. CASE SkipBatch
  BY <1>3, <1>4, <1>5, <1>6 DEF SkipBatch
<1>7. CASE RefuseBatch
  BY <1>3, <1>7 DEF RefuseBatch, MustRun
<1>8. CASE LaunchBatch
  BY <1>3, <1>5, <1>8 DEF LaunchBatch, MustRun
<1>9. CASE AcceptBatch
  BY <1>3, <1>4, <1>9 DEF AcceptBatch, Returned, OkOf
<1>10. CASE StopBatch
  BY <1>3, <1>4, <1>10 DEF StopBatch, Returned, OkOf, StopAdvice
<1>11. CASE Finish
  BY <1>3, <1>11 DEF Finish
<1>12. CASE ExecutorCrash
  BY <1>3, <1>12 DEF ExecutorCrash
<1> QED BY <1>6, <1>7, <1>8, <1>9, <1>10, <1>11, <1>12 DEF Executor

\* The router writes well-formed envelopes and starts sessions inside a batch.
LEMMA RouterKeepsType == TypeOK /\ (Router \/ RouterKilled) => TypeOK'
<1> SUFFICES ASSUME TypeOK, Router \/ RouterKilled PROVE TypeOK'
  OBVIOUS
<1> USE DEF files, sess, exec
<1>1. exec' = exec /\ calls' = calls /\ caller' = caller
  BY DEF Router, RouterRefuse, RouterStart, RouterTimeout, RouterCollect, RouterKilled
<1>2. /\ cur \in Batches /\ pc \in {"running", "crashed"}
      /\ router' \in {"gone", "starting", "waiting"}
  BY DEF TypeOK, ExecutorType, Router, RouterRefuse, RouterStart, RouterTimeout,
         RouterCollect, RouterKilled
<1>3. ExecutorType'
  BY <1>1, <1>2 DEF TypeOK, ExecutorType
<1>4. CASE RouterRefuse \/ RouterTimeout \/ RouterKilled
  BY <1>2, <1>3, <1>4 DEF TypeOK, DiskType, SessionType, RouterRefuse, RouterTimeout,
                          RouterKilled
<1>5. CASE RouterStart
  <2>1. Last[cur - 1] + 1 \in 1 .. N + 1
    BY <1>2, PlanRange, PlanAssumption
  <2>2. DiskType'
    BY <1>5 DEF TypeOK, DiskType, RouterStart
  <2>3. SessionType'
    BY <1>2, <1>5, <2>1 DEF TypeOK, DiskType, SessionType, RouterStart, Opened
  <2> QED BY <1>3, <2>2, <2>3 DEF TypeOK
<1>6. CASE RouterCollect
  <2>1. [st |-> EnvelopeStatus(OkOps(cur), cur), qsave |-> marker[cur], ok |-> OkOps(cur)]
          \in EnvelopeType
    BY <1>2, PlanRange
    DEF TypeOK, DiskType, EnvelopeType, EnvelopeStatus, OkOps
  <2>2. DiskType'
    BY <1>2, <1>6, <2>1 DEF TypeOK, DiskType, RouterCollect
  <2>3. SessionType'
    BY <1>2, <1>6 DEF TypeOK, SessionType, RouterCollect
  <2> QED BY <1>3, <2>2, <2>3 DEF TypeOK
<1> QED BY <1>4, <1>5, <1>6 DEF Router

\* The session runs the operations of its batch.
LEMMA SessionKeepsType ==
  TypeOK /\ (Session \/ JobHangs \/ SessionDies) => TypeOK'
<1> SUFFICES ASSUME TypeOK, Session \/ JobHangs \/ SessionDies PROVE TypeOK'
  OBVIOUS
<1> USE DEF files, sess, exec
<1>1. exec' = exec /\ calls' = calls /\ caller' = caller /\ router' = router /\ sbatch' = sbatch
  BY DEF Session, JobOk, JobError, JobUnknown, SaveDwg, WriteMarker, Quit, JobHangs,
         SessionDies
<1>2. ExecutorType'
  BY <1>1 DEF TypeOK, ExecutorType
<1>3. sbatch \in Batches /\ Last[sbatch] \in 0 .. N
  BY PlanRange DEF TypeOK, SessionType
<1>4. at <= Last[sbatch] => at \in Ops /\ at + 1 \in 1 .. N + 1
  BY <1>3, PlanAssumption DEF TypeOK, SessionType, Ops
<1>5. CASE JobOk
  <2>1. DiskType'
    BY <1>4, <1>5 DEF TypeOK, DiskType, JobOk
  <2>2. mem' \in Seq(Ops)
    BY <1>4, <1>5 DEF TypeOK, SessionType, JobOk
  <2>3. SessionType'
    BY <1>4, <1>5, <2>2 DEF TypeOK, SessionType, JobOk
  <2> QED BY <1>2, <2>1, <2>3 DEF TypeOK
<1>6. CASE JobError \/ JobUnknown
  <2>1. DiskType'
    BY <1>4, <1>6 DEF TypeOK, DiskType, JobError, JobUnknown
  <2>2. SessionType'
    BY <1>4, <1>6 DEF TypeOK, SessionType, JobError, JobUnknown
  <2> QED BY <1>2, <2>1, <2>2 DEF TypeOK
<1>7. CASE SaveDwg \/ Quit \/ JobHangs \/ SessionDies
  <2>1. DiskType'
    BY <1>7 DEF TypeOK, DiskType, SessionType, SaveDwg, Quit, JobHangs, SessionDies
  <2>2. SessionType'
    BY <1>7 DEF TypeOK, SessionType, SaveDwg, Quit, JobHangs, SessionDies
  <2> QED BY <1>2, <2>1, <2>2 DEF TypeOK
<1>8. CASE WriteMarker
  <2>1. DiskType'
    BY <1>3, <1>8 DEF TypeOK, DiskType, WriteMarker
  <2>2. SessionType'
    BY <1>8 DEF TypeOK, SessionType, WriteMarker
  <2> QED BY <1>2, <2>1, <2>2 DEF TypeOK
<1> QED BY <1>5, <1>6, <1>7, <1>8 DEF Session

\* A step that changes nothing keeps the types.
LEMMA StutterKeepsType == TypeOK /\ UNCHANGED vars => TypeOK'
BY DEF TypeOK, DiskType, SessionType, ExecutorType, vars, files, sess, exec

LEMMA StepKeepsType == TypeOK /\ [Next]_vars => TypeOK'
BY CallerType, ExecutorKeepsType, RouterKeepsType, SessionKeepsType, StutterKeepsType
DEF Next, Faulty

\* Every variable keeps its type, and a batch being run is one of the plan.
THEOREM TypeCorrect == Spec => []TypeOK
BY InitType, StepKeepsType, PTL DEF Spec

-----------------------------------------------------------------------------
(* Between two calls the lane runs down: the executor, the router and the   *)
(* session have only so many steps before them.                             *)

\* The steps of a session: what is left of its script.
SessionSteps ==
  IF session = "jobs" THEN 3 + ((N + 1) - at)
  ELSE IF session = "saved" THEN 2 ELSE IF session = "none" THEN 0 ELSE 1

\* Those of a router, which may start a session.
RouterSteps ==
  IF router = "starting" THEN N + 6 ELSE IF router = "waiting" THEN 1 ELSE 0

\* A batch that is run takes a router and its session.
BatchSteps == N + 8

ExecutorSteps ==
  IF pc = "batch" THEN BatchSteps * ((NB + 1) - cur) + BatchSteps
  ELSE IF pc = "running" THEN BatchSteps * ((NB + 1) - cur) + 1 ELSE 0

StepsLeft == ExecutorSteps + RouterSteps + SessionSteps

LEMMA StepsNat ==
  ASSUME TypeOK
  PROVE  /\ BatchSteps \in Nat /\ (NB + 1) - cur \in Nat
         /\ ExecutorSteps \in Nat /\ RouterSteps \in Nat /\ SessionSteps \in Nat
         /\ StepsLeft \in Nat
<1>1. N \in Nat /\ NB \in Nat /\ cur \in 1 .. NB + 1 /\ at \in 1 .. N + 1
  BY PlanAssumption DEF TypeOK, ExecutorType, SessionType
<1>2. BatchSteps \in Nat /\ (NB + 1) - cur \in Nat
  BY <1>1 DEF BatchSteps
<1>3. BatchSteps * ((NB + 1) - cur) \in Nat
  BY <1>2
<1>4. ExecutorSteps \in Nat
  BY <1>2, <1>3 DEF ExecutorSteps
<1>5. RouterSteps \in Nat /\ SessionSteps \in Nat
  BY <1>1 DEF RouterSteps, SessionSteps
<1> QED BY <1>2, <1>4, <1>5 DEF StepsLeft

LEMMA ExecutorFalls ==
  ASSUME TypeOK, Executor \/ ExecutorCrash
  PROVE  StepsLeft' < StepsLeft
<1> DEFINE left == (NB + 1) - cur
           e == ExecutorSteps
           r == RouterSteps
           s == SessionSteps
<1>1. /\ BatchSteps \in Nat /\ BatchSteps = N + 8 /\ left \in Nat /\ N \in Nat /\ cur \in Nat /\ NB \in Nat
      /\ e \in Nat /\ r \in Nat /\ s \in Nat
  BY StepsNat, PlanAssumption DEF BatchSteps, TypeOK, ExecutorType
<1>2. BatchSteps * left \in Nat
  BY <1>1
<1>3. s' = s /\ StepsLeft = e + r + s /\ StepsLeft' = e' + r' + s'
  BY DEF Executor, SkipBatch, RefuseBatch, LaunchBatch, AcceptBatch, StopBatch, Finish,
         ExecutorCrash, Returned, MustRun, sess, SessionSteps, StepsLeft
<1>4. CASE SkipBatch \/ AcceptBatch
  <2>1. pc' = "batch" /\ cur' = cur + 1 /\ cur <= NB /\ router' = router
    BY <1>4 DEF SkipBatch, AcceptBatch, Returned, TypeOK, ExecutorType, Batches
  <2>2. PICK n \in Nat : left = n + 1
    <3>1. left - 1 \in Nat /\ left = (left - 1) + 1
      BY <1>1, <2>1
    <3> QED BY <3>1
  <2>3. (NB + 1) - cur' = n
    BY <1>1, <2>1, <2>2
  <2>4. e' = BatchSteps * n + BatchSteps
    BY <2>1, <2>3 DEF ExecutorSteps
  <2>5. BatchSteps * left = BatchSteps * n + BatchSteps /\ BatchSteps * n \in Nat
    BY <1>1, <2>2
  <2>6. e >= BatchSteps * left + 1
    BY <1>1, <1>2, <1>4 DEF ExecutorSteps, SkipBatch, AcceptBatch, Returned
  <2>7. r' = r
    BY <2>1 DEF RouterSteps
  <2> HIDE DEF left, e, r, s
  <2>8. PICK m \in Nat : m = BatchSteps * n + BatchSteps
    BY <1>1, <2>5
  <2> QED BY <1>1, <1>3, <2>4, <2>5, <2>6, <2>7, <2>8
<1>5. CASE LaunchBatch
  <2>1. pc = "batch" /\ pc' = "running" /\ cur' = cur /\ router' = "starting"
    BY <1>5 DEF LaunchBatch, MustRun
  <2>2. router = "gone"
    BY <2>1 DEF TypeOK, ExecutorType
  <2>3. e = BatchSteps * left + BatchSteps /\ e' = BatchSteps * left + 1
    BY <2>1 DEF ExecutorSteps
  <2>4. r = 0 /\ r' = N + 6
    BY <2>1, <2>2 DEF RouterSteps
  <2>5. PICK m \in Nat : m = BatchSteps * left
    BY <1>2
  <2> HIDE DEF left, e, r, s
  <2> QED BY <1>1, <1>3, <2>3, <2>4, <2>5
<1>6. CASE RefuseBatch \/ StopBatch \/ Finish \/ ExecutorCrash
  <2>1. pc \in {"batch", "running"} /\ pc' \in {"done", "crashed"} /\ router' = router
    BY <1>6 DEF RefuseBatch, MustRun, StopBatch, Returned, Finish, ExecutorCrash
  <2>2. e' = 0 /\ r' = r
    BY <2>1 DEF ExecutorSteps, RouterSteps
  <2>3. e > 0
    BY <1>1, <1>2, <2>1 DEF ExecutorSteps
  <2> HIDE DEF left, e, r, s
  <2> QED BY <1>1, <1>3, <2>2, <2>3
<1> QED BY <1>4, <1>5, <1>6 DEF Executor

LEMMA RouterFalls ==
  ASSUME TypeOK, Router \/ RouterKilled \/ Session \/ JobHangs \/ SessionDies
  PROVE  StepsLeft' < StepsLeft
<1> DEFINE e == ExecutorSteps
           r == RouterSteps
           s == SessionSteps
<1>1. /\ e \in Nat /\ r \in Nat /\ s \in Nat /\ N \in Nat /\ at \in 1 .. N + 1 /\ sbatch \in Batches
  BY StepsNat, PlanAssumption DEF TypeOK, SessionType
<1>2. UNCHANGED exec
  BY DEF Router, RouterRefuse, RouterStart, RouterTimeout, RouterCollect, RouterKilled, Session,
         JobOk, JobError, JobUnknown, SaveDwg, WriteMarker, Quit, JobHangs, SessionDies
<1>3. e' = e /\ StepsLeft = e + r + s /\ StepsLeft' = e' + r' + s'
  BY <1>2 DEF exec, ExecutorSteps, StepsLeft
<1>4. CASE RouterRefuse \/ RouterCollect \/ RouterKilled
  <2>1. router # "gone" /\ router' = "gone" /\ UNCHANGED sess
    BY <1>4 DEF RouterRefuse, RouterCollect, RouterKilled
  <2>2. s' = s /\ r' = 0
    BY <2>1 DEF sess, SessionSteps, RouterSteps
  <2>3. r > 0
    BY <1>1, <2>1 DEF RouterSteps, TypeOK, SessionType
  <2> HIDE DEF e, r, s
  <2> QED BY <1>1, <1>3, <2>2, <2>3
<1>5. CASE RouterStart
  <2>1. /\ router = "starting" /\ router' = "waiting" /\ session = "none" /\ session' = "jobs"
        /\ at' = Last[cur - 1] + 1
    BY <1>5 DEF RouterStart
  <2>2. cur \in Batches
    BY <2>1 DEF TypeOK, ExecutorType
  <2>3. Last[cur - 1] \in 0 .. N
    BY <2>2, PlanRange
  <2>4. PICK k \in 0 .. N : k = Last[cur - 1]
    BY <2>3
  <2>5. r = N + 6 /\ r' = 1 /\ s = 0
    BY <2>1 DEF RouterSteps, SessionSteps
  <2>6. s' = 3 + ((N + 1) - (k + 1))
    BY <2>1, <2>4 DEF SessionSteps
  <2> HIDE DEF e, r, s
  <2> QED BY <1>1, <1>3, <2>5, <2>6
<1>6. CASE JobOk \/ JobError \/ JobUnknown
  <2>1. /\ session = "jobs" /\ session' = "jobs" /\ at' = at + 1 /\ at <= Last[sbatch]
        /\ router' = router
    BY <1>6 DEF JobOk, JobError, JobUnknown
  <2>2. r' = r /\ s = 3 + ((N + 1) - at) /\ s' = 3 + ((N + 1) - (at + 1))
    BY <2>1 DEF RouterSteps, SessionSteps
  <2> HIDE DEF e, r, s
  <2> QED BY <1>1, <1>3, <2>2
<1>7. CASE SaveDwg \/ JobHangs
  <2>1. session = "jobs" /\ session' \in {"saved", "hung"} /\ router' = router
    BY <1>7 DEF SaveDwg, JobHangs
  <2>2. r' = r /\ s = 3 + ((N + 1) - at) /\ s' \in {1, 2}
    BY <2>1 DEF RouterSteps, SessionSteps
  <2>3. s >= 3
    BY <1>1, <2>2
  <2>4. s' = 1 \/ s' = 2
    BY <2>2
  <2> HIDE DEF e, r, s
  <2>5. CASE s' = 1
    <3>1. StepsLeft' = e + r + 1
      BY <1>3, <2>2, <2>5
    <3> QED BY <1>1, <1>3, <2>3, <3>1
  <2>6. CASE s' = 2
    <3>1. StepsLeft' = e + r + 2
      BY <1>3, <2>2, <2>6
    <3> QED BY <1>1, <1>3, <2>3, <3>1
  <2> QED BY <2>4, <2>5, <2>6
<1>8. CASE WriteMarker
  <2>1. session = "saved" /\ session' = "quit" /\ router' = router
    BY <1>8 DEF WriteMarker
  <2>2. r' = r /\ s = 2 /\ s' = 1
    BY <2>1 DEF RouterSteps, SessionSteps
  <2> HIDE DEF e, r, s
  <2> QED BY <1>1, <1>3, <2>2
<1>9. CASE Quit \/ SessionDies \/ RouterTimeout
  <2>1. session \in {"jobs", "hung", "quit", "saved"} /\ session' = "none" /\ router' = router
    BY <1>9 DEF Quit, SessionDies, RouterTimeout, Killable
  <2>2. r' = r /\ s' = 0
    BY <2>1 DEF RouterSteps, SessionSteps
  <2>3. s > 0
    BY <1>1, <2>1 DEF SessionSteps
  <2> HIDE DEF e, r, s
  <2> QED BY <1>1, <1>3, <2>2, <2>3
<1> QED BY <1>4, <1>5, <1>6, <1>7, <1>8, <1>9 DEF Router, Session

\* Every step but a new call takes from what the executor, the router and the session
\* have left, whatever dies or hangs on the way.  So no call goes on for ever, with a
\* router that was orphaned or without, and CallEnds asks of the three only that they go
\* on (execute_write_batches).
THEOREM LaneRunsDown ==
  Spec => [](StepsLeft \in Nat) /\ [][Caller \/ StepsLeft' < StepsLeft]_vars
<1>1. TypeOK => StepsLeft \in Nat
  BY StepsNat
<1>2. TypeOK /\ [Next]_vars => [Caller \/ StepsLeft' < StepsLeft]_vars
  BY ExecutorFalls, RouterFalls DEF Next, Faulty
<1> QED BY <1>1, <1>2, TypeCorrect, PTL DEF Spec

-----------------------------------------------------------------------------
(* The first call on an out_dir.                                           *)

\* Different batches share no operation.
LEMMA BatchesDisjoint ==
  ASSUME NEW a \in Batches, NEW b \in Batches, a # b
  PROVE  OpsOf(a) \cap OpsOf(b) = {}
<1>1. CASE a < b
  <2>1. a \in 0 .. NB /\ b - 1 \in 0 .. NB /\ (a < b - 1 \/ a = b - 1)
    BY <1>1, PlanAssumption DEF Batches
  <2>2. Last[a] <= Last[b - 1] /\ Last[a] \in Int /\ Last[b - 1] \in Int
    BY <2>1, PlanAssumption
  <2> QED BY <2>2, PlanRange DEF OpsOf
<1>2. CASE b < a
  <2>1. b \in 0 .. NB /\ a - 1 \in 0 .. NB /\ (b < a - 1 \/ b = a - 1)
    BY <1>2, PlanAssumption DEF Batches
  <2>2. Last[b] <= Last[a - 1] /\ Last[b] \in Int /\ Last[a - 1] \in Int
    BY <2>1, PlanAssumption
  <2> QED BY <2>2, PlanRange DEF OpsOf
<1> QED BY <1>1, <1>2, PlanAssumption DEF Batches

LEMMA InitFirstCall == Init => FirstCallInv
<1> SUFFICES ASSUME Init PROVE LaneInv
  BY DEF FirstCallInv
<1>1. \A b \in Batches : Fresh(b)
  BY PlanRange DEF Init, Fresh
<1>2. dwg = FirstOps(Last[cur - 1])
  BY FirstOpsEmpty, PlanAssumption DEF Init
<1>3. ~Complete(NoEnvelope)
  BY DEF Complete, NoEnvelope
<1> QED
  BY <1>1, <1>2, <1>3
  DEF Init, LaneInv, AheadIsFresh, BetweenBatches, RunningJobs, SavedJobs, SessionOwnsBatch,
      ProofsAreTrue, ReportInv, Fresh

\* The first call starts between batches; a later call is out of scope.
LEMMA CallerFirst ==
  TypeOK /\ LaneInv /\ calls' <= 1 /\ Caller => LaneInv'
<1> SUFFICES ASSUME TypeOK, LaneInv, calls' <= 1, Caller PROVE LaneInv'
  OBVIOUS
<1> USE DEF files, sess
<1>1. FirstCall
  BY CallAssumption DEF Caller, ResumeCall, ReapplyCall, MayCallAgain, StartCall, TypeOK,
                        ExecutorType
<1>2. cur = 1 /\ pc = "idle" /\ router = "gone" /\ session = "none"
  BY <1>1 DEF FirstCall, TypeOK, ExecutorType, LaneInv, ReportInv, BetweenBatches
<1> QED
  BY <1>1, <1>2
  DEF FirstCall, StartCall, LaneInv, AheadIsFresh, BetweenBatches, RunningJobs, SavedJobs,
      SessionOwnsBatch, ProofsAreTrue, ReportInv, Fresh, OkBefore

\* A step that changes nothing keeps the invariant of the lane.
LEMMA StutterFirst == LaneInv /\ UNCHANGED vars => LaneInv'
BY DEF vars, files, sess, exec, LaneInv, AheadIsFresh, BetweenBatches, RunningJobs, SavedJobs,
       SessionOwnsBatch, ProofsAreTrue, ReportInv, Fresh, OkBefore, Complete

\* The executor accepts a batch only when it is on disk, and stops otherwise.
LEMMA ExecutorFirst ==
  TypeOK /\ LaneInv /\ (Executor \/ ExecutorCrash) => LaneInv'
<1> SUFFICES ASSUME TypeOK, LaneInv, Executor \/ ExecutorCrash PROVE LaneInv'
  OBVIOUS
<1> USE DEF files, sess
<1>1. /\ dwg' = dwg /\ result' = result /\ marker' = marker /\ envelope' = envelope
      /\ session' = session /\ sbatch' = sbatch /\ loaded' = loaded /\ at' = at /\ mem' = mem
  BY DEF Executor, SkipBatch, RefuseBatch, LaunchBatch, AcceptBatch, StopBatch,
         Finish, ExecutorCrash
<1>2. \A b \in Batches : Fresh(b)' <=> Fresh(b)
  BY <1>1 DEF Fresh
<1>3. CASE SkipBatch
  <2>1. cur \in Batches
    BY <1>3, PlanAssumption DEF SkipBatch, TypeOK, ExecutorType, Batches
  <2>2. envelope[cur] = NoEnvelope
    BY <1>3, <2>1 DEF SkipBatch, LaneInv, AheadIsFresh, Fresh
  <2> QED BY <1>3, <2>2 DEF SkipBatch, Complete, NoEnvelope
<1>4. CASE cur' = cur /\ UNCHANGED router /\ (RefuseBatch \/ StopBatch \/ Finish \/ ExecutorCrash)
  <2>1. AheadIsFresh' /\ BetweenBatches'
    BY <1>1, <1>2, <1>4 DEF LaneInv, AheadIsFresh, BetweenBatches, RefuseBatch, StopBatch,
                            Finish, ExecutorCrash, MustRun
  <2>2. RunningJobs' /\ SavedJobs' /\ ProofsAreTrue'
    BY <1>1, <1>4 DEF LaneInv, RunningJobs, SavedJobs, ProofsAreTrue, OkBefore, Complete
  <2>3. SessionOwnsBatch'
    <3>1. session # "none" => ~Finish /\ ~RefuseBatch
      BY DEF LaneInv, BetweenBatches, Finish, RefuseBatch, MustRun
    <3>2. StopBatch /\ session # "none" => status' # "ok"
      BY DEF StopBatch
    <3> QED BY <1>1, <1>4, <3>1, <3>2 DEF LaneInv, SessionOwnsBatch, ExecutorCrash
  <2>4. ReportInv'
    <3>1. CASE Finish
      <4>1. cur = NB + 1
        BY <3>1, PlanAssumption DEF Finish, TypeOK, ExecutorType
      <4>2. cur - 1 = NB
        BY <4>1, PlanAssumption
      <4> QED BY <1>1, <3>1, <4>2, PlanAssumption
              DEF Finish, LaneInv, BetweenBatches, ReportInv
    <3>2. CASE RefuseBatch \/ StopBatch
      BY <3>2 DEF RefuseBatch, StopBatch, ReportInv
    <3>3. CASE ExecutorCrash
      BY <3>3 DEF ExecutorCrash, LaneInv, ReportInv
    <3> QED BY <1>4, <3>1, <3>2, <3>3
  <2> QED BY <2>1, <2>2, <2>3, <2>4 DEF LaneInv
<1>5. CASE LaunchBatch
  BY <1>1, <1>2, <1>5
  DEF LaunchBatch, MustRun, LaneInv, AheadIsFresh, BetweenBatches, RunningJobs, SavedJobs,
      SessionOwnsBatch, ProofsAreTrue, ReportInv, Fresh, OkBefore, Complete
<1>6. CASE AcceptBatch
  <2>1. cur \in Batches
    BY <1>6 DEF AcceptBatch, Returned, TypeOK, ExecutorType
  <2>2. envelope[cur] # NoEnvelope
    BY <1>6 DEF AcceptBatch, Complete, NoEnvelope
  <2>3. session = "none" /\ dwg = FirstOps(Last[cur])
    BY <1>6, <2>1, <2>2 DEF AcceptBatch, LaneInv, SessionOwnsBatch, ProofsAreTrue
  <2>4. cur' = cur + 1 /\ cur' - 1 = cur /\ pc' = "batch" /\ router' = "gone" /\ status' = status
        /\ pc = "running"
    BY <1>6, <2>1, PlanAssumption DEF AcceptBatch, Returned, Batches
  <2>5. \A b \in Batches : b > cur <=> b > cur' \/ b = cur'
    BY <2>1, <2>4, PlanAssumption DEF Batches
  <2>6. \A b \in Batches : b > cur => Fresh(b)
    BY DEF LaneInv, AheadIsFresh
  <2>7. AheadIsFresh'
    BY <1>2, <2>5, <2>6 DEF AheadIsFresh
  <2>8. BetweenBatches' /\ RunningJobs' /\ SavedJobs' /\ SessionOwnsBatch'
    BY <1>1, <2>3, <2>4 DEF BetweenBatches, RunningJobs, SavedJobs, SessionOwnsBatch
  <2>9. ProofsAreTrue'
    BY <1>1, <2>4, <2>5, <2>6
    DEF ProofsAreTrue, Fresh, Complete, NoEnvelope
  <2>10. ReportInv'
    BY <2>4 DEF LaneInv, ReportInv
  <2> QED BY <2>7, <2>8, <2>9, <2>10 DEF LaneInv
<1>7. RefuseBatch \/ StopBatch \/ Finish \/ ExecutorCrash => cur' = cur /\ UNCHANGED router
  BY DEF RefuseBatch, StopBatch, Finish, ExecutorCrash
<1> QED BY <1>3, <1>4, <1>5, <1>6, <1>7 DEF Executor

\* The router starts a session on the drawing the executor left, and its
\* envelope says PASS only of a batch that is on disk.
LEMMA RouterFirst ==
  TypeOK /\ LaneInv /\ (Router \/ RouterKilled) => LaneInv'
<1> SUFFICES ASSUME TypeOK, LaneInv, Router \/ RouterKilled PROVE LaneInv'
  OBVIOUS
<1> USE DEF files, sess, exec
<1>1. dwg' = dwg /\ result' = result /\ pc' = pc /\ cur' = cur /\ status' = status
  BY DEF Router, RouterRefuse, RouterStart, RouterTimeout, RouterCollect, RouterKilled
<1>2. cur \in Batches /\ pc \in {"running", "crashed"}
  BY DEF TypeOK, ExecutorType, Router, RouterRefuse, RouterStart, RouterTimeout,
         RouterCollect, RouterKilled
<1>3. Last[cur - 1] \in Nat /\ Last[cur] \in Nat /\ Last[cur - 1] < Last[cur] /\ Last[cur] <= N
  BY <1>2, PlanRange
<1>4. ReportInv'
  BY <1>1, <1>2 DEF LaneInv, ReportInv
<1>5. CASE RouterRefuse \/ RouterKilled \/ RouterTimeout
  <2>1. marker' = marker /\ envelope' = envelope /\ sbatch' = sbatch /\ at' = at /\ mem' = mem
        /\ router' \in {"gone", router} /\ session' \in {"none", session}
    BY <1>5 DEF RouterRefuse, RouterKilled, RouterTimeout
  <2>2. \A b \in Batches : Fresh(b) <=> Fresh(b)'
    BY <1>1, <2>1 DEF Fresh
  <2>3. AheadIsFresh' /\ BetweenBatches'
    BY <1>1, <1>2, <2>1, <2>2 DEF LaneInv, AheadIsFresh, BetweenBatches
  <2>4. RunningJobs' /\ SavedJobs' /\ SessionOwnsBatch'
    BY <1>1, <1>2, <2>1 DEF LaneInv, RunningJobs, SavedJobs, SessionOwnsBatch, OkBefore
  <2>5. ProofsAreTrue'
    BY <1>1, <2>1 DEF LaneInv, ProofsAreTrue, OkBefore, Complete
  <2> QED BY <1>4, <2>3, <2>4, <2>5 DEF LaneInv
<1>6. CASE RouterStart
  <2>1. /\ router' = "waiting" /\ session' = "jobs" /\ sbatch' = cur
        /\ at' = Last[cur - 1] + 1 /\ mem' = dwg /\ envelope' = envelope
        /\ marker' = [marker EXCEPT ![cur] = FALSE]
    BY <1>6 DEF RouterStart, Opened
  <2>2. Fresh(cur) /\ dwg = FirstOps(Last[cur - 1])
    BY <1>2, <1>6 DEF RouterStart, LaneInv, AheadIsFresh, BetweenBatches
  <2>3. marker' = marker /\ ~marker'[cur]
    BY <1>2, <2>1, <2>2 DEF TypeOK, DiskType, Fresh
  <2>4. AheadIsFresh' /\ BetweenBatches'
    BY <1>1, <1>2, <2>1, <2>3 DEF LaneInv, AheadIsFresh, BetweenBatches, Fresh
  <2>5. RunningJobs'
    <3>1. at' \in Last[cur - 1] + 1 .. Last[cur] + 1 /\ at' - 1 = Last[cur - 1]
      BY <1>3, <2>1
    <3> QED BY <1>1, <2>1, <2>2, <2>3, <3>1 DEF RunningJobs, Fresh
  <2>6. SavedJobs' /\ SessionOwnsBatch'
    BY <1>1, <1>2, <2>1, <2>2 DEF SavedJobs, SessionOwnsBatch, Fresh
  <2>7. ProofsAreTrue'
    BY <1>1, <2>1, <2>2, <2>3 DEF ProofsAreTrue, Fresh, Complete, NoEnvelope
  <2> QED BY <1>4, <2>4, <2>5, <2>6, <2>7 DEF LaneInv
<1>7. CASE RouterCollect
  <2>1. /\ router' = "gone" /\ session = "none" /\ session' = "none" /\ marker' = marker
        /\ envelope' = [envelope EXCEPT ![cur] =
             [st |-> EnvelopeStatus(OkOps(cur), cur), qsave |-> marker[cur], ok |-> OkOps(cur)]]
    BY <1>7 DEF RouterCollect
  <2>2. AheadIsFresh' /\ BetweenBatches'
    BY <1>1, <1>2, <2>1, <1>7, PlanAssumption
    DEF RouterCollect, TypeOK, DiskType, LaneInv, AheadIsFresh, BetweenBatches, Fresh, Batches
  <2>3. RunningJobs' /\ SavedJobs' /\ SessionOwnsBatch'
    BY <2>1 DEF RunningJobs, SavedJobs, SessionOwnsBatch
  <2>4. Complete(envelope'[cur]) => marker[cur] /\ OkOps(cur) = OpsOf(cur)
    BY <1>2, <2>1 DEF TypeOK, DiskType, Complete, EnvelopeStatus
  <2>5. OkOps(cur) = OpsOf(cur) => OkBefore(N + 1)
    BY DEF OkOps, OkBefore
  <2>6. ProofsAreTrue'
    BY <1>1, <1>2, <2>1, <2>4, <2>5 DEF LaneInv, ProofsAreTrue, OkBefore, Complete
  <2> QED BY <1>4, <2>2, <2>3, <2>6 DEF LaneInv
<1> QED BY <1>5, <1>6, <1>7 DEF Router

\* A session writes results in order, saves, and only then writes its marker.
LEMMA SessionFirst ==
  TypeOK /\ LaneInv /\ (Session \/ JobHangs \/ SessionDies) => LaneInv'
<1> SUFFICES ASSUME TypeOK, LaneInv, Session \/ JobHangs \/ SessionDies PROVE LaneInv'
  OBVIOUS
<1> USE DEF files, sess, exec
<1>1. /\ pc' = pc /\ cur' = cur /\ status' = status /\ router' = router
      /\ envelope' = envelope /\ sbatch' = sbatch
  BY DEF Session, JobOk, JobError, JobUnknown, SaveDwg, WriteMarker, Quit, JobHangs,
         SessionDies
<1>2. session # "none"
  BY DEF Session, JobOk, JobError, JobUnknown, SaveDwg, WriteMarker, Quit, JobHangs,
         SessionDies, Killable
<1>3. /\ sbatch = cur /\ cur \in Batches /\ envelope[cur] = NoEnvelope
      /\ pc = "done" => status # "ok"
      /\ pc \notin {"idle", "batch"} /\ router # "starting"
  BY <1>2 DEF LaneInv, SessionOwnsBatch, BetweenBatches
<1>4. Last[cur - 1] \in Nat /\ Last[cur] \in Nat /\ Last[cur - 1] < Last[cur] /\ Last[cur] <= N
  BY <1>3, PlanRange
<1>5. ~Complete(envelope[cur])
  BY <1>3 DEF Complete, NoEnvelope
<1>6. BetweenBatches' /\ ReportInv' /\ SessionOwnsBatch'
  BY <1>1, <1>3 DEF LaneInv, BetweenBatches, ReportInv, SessionOwnsBatch
<1>7. CASE JobOk \/ JobError \/ JobUnknown
  <2>1. /\ session = "jobs" /\ session' = "jobs" /\ dwg' = dwg /\ marker' = marker
        /\ at' = at + 1 /\ at <= Last[cur]
        /\ result' \in {result, [result EXCEPT ![at] = "ok"], [result EXCEPT ![at] = "error"]}
    BY <1>3, <1>7 DEF JobOk, JobError, JobUnknown
  <2>2. /\ dwg = FirstOps(Last[cur - 1]) /\ ~marker[cur]
        /\ at \in Last[cur - 1] + 1 .. Last[cur] + 1
        /\ \A i \in OpsOf(cur) : i >= at => result[i] = "none"
        /\ OkBefore(at) => mem = FirstOps(at - 1)
    BY <2>1 DEF LaneInv, RunningJobs
  <2>3. at \in OpsOf(cur) /\ at \in Nat /\ at - 1 \in Nat
    BY <1>4, <2>1, <2>2 DEF OpsOf
  <2>4. \A i \in Ops : i # at => result'[i] = result[i]
    BY <2>1, <2>3 DEF TypeOK, DiskType
  <2>5. AheadIsFresh'
    <3>1. ASSUME NEW b \in Batches, b > cur PROVE Fresh(b)'
      <4>1. OpsOf(b) \cap OpsOf(cur) = {} /\ OpsOf(b) \subseteq Ops
        BY <1>3, <3>1, BatchesDisjoint, PlanRange, PlanAssumption DEF Batches
      <4>2. Fresh(b)
        BY <3>1 DEF LaneInv, AheadIsFresh
      <4>3. \A i \in OpsOf(b) : result'[i] = result[i]
        BY <2>3, <2>4, <4>1
      <4> QED BY <1>1, <2>1, <4>2, <4>3 DEF Fresh
    <3> QED BY <1>1, <1>3, <3>1 DEF AheadIsFresh
  <2>6. RunningJobs'
    <3>1. at' \in Last[cur - 1] + 1 .. Last[cur] + 1 /\ at' - 1 = at
      BY <1>4, <2>1, <2>2
    <3>2. \A i \in OpsOf(cur) : i >= at' => result'[i] = "none"
      <4>1. \A i \in OpsOf(cur) : i \in Ops /\ (i >= at' => i >= at /\ i # at)
        BY <1>3, <2>1, <2>3, PlanRange DEF OpsOf
      <4> QED BY <2>2, <2>4, <4>1
    <3>3. (\A i \in OpsOf(cur) : i < at' => result'[i] = "ok") => mem' = FirstOps(at)
      <4> SUFFICES ASSUME \A i \in OpsOf(cur) : i < at' => result'[i] = "ok"
                   PROVE  mem' = FirstOps(at)
        OBVIOUS
      <4>0. result'[at] = "ok"
        BY <2>1, <2>3
      <4>1. JobOk
        <5>1. ~JobUnknown
          BY <2>2, <2>3, <4>0 DEF JobUnknown
        <5>2. ~JobError
          BY <1>3, <2>3, <4>0, PlanRange DEF JobError, TypeOK, DiskType
        <5> QED BY <1>7, <5>1, <5>2
      <4>2. \A i \in OpsOf(cur) : i < at => result[i] = "ok"
        <5>1. \A i \in OpsOf(cur) : i \in Ops /\ (i < at => i # at)
          BY <1>3, <2>3, PlanRange DEF OpsOf
        <5> QED BY <2>1, <2>3, <2>4, <5>1 DEF OpsOf
      <4>3. mem = FirstOps(at - 1)
        BY <2>2, <4>2 DEF OkBefore
      <4>4. Append(FirstOps(at - 1), (at - 1) + 1) = FirstOps((at - 1) + 1)
        BY <2>3, FirstOpsGrow
      <4> QED BY <2>3, <4>1, <4>3, <4>4 DEF JobOk
    <3> QED BY <1>1, <2>1, <2>2, <3>1, <3>2, <3>3 DEF RunningJobs, OkBefore
  <2>7. SavedJobs' /\ ProofsAreTrue'
    BY <1>1, <1>3, <1>5, <2>1, <2>2 DEF SavedJobs, ProofsAreTrue, Complete
  <2> QED BY <1>6, <2>5, <2>6, <2>7 DEF LaneInv
<1>8. CASE SaveDwg
  <2>1. session = "jobs" /\ session' = "saved" /\ dwg' = mem /\ result' = result
        /\ marker' = marker /\ at > Last[cur]
    BY <1>3, <1>8 DEF SaveDwg
  <2>2. ~marker[cur] /\ (OkBefore(at) => mem = FirstOps(at - 1)) /\ at = Last[cur] + 1
    BY <1>4, <2>1 DEF LaneInv, RunningJobs
  <2>3. AheadIsFresh' /\ RunningJobs'
    BY <1>1, <2>1 DEF LaneInv, AheadIsFresh, Fresh, RunningJobs
  <2>4. SavedJobs'
    <3>1. OkBefore(N + 1) => OkBefore(at)
      BY <1>4, <2>2, PlanAssumption DEF OkBefore, OpsOf
    <3>2. at - 1 = Last[cur]
      BY <1>4, <2>2
    <3> QED BY <1>1, <2>1, <2>2, <3>1, <3>2 DEF SavedJobs, OkBefore
  <2>5. ProofsAreTrue'
    BY <1>1, <1>3, <1>5, <2>1, <2>2 DEF ProofsAreTrue, Complete
  <2> QED BY <1>6, <2>3, <2>4, <2>5 DEF LaneInv
<1>9. CASE WriteMarker
  <2>1. session = "saved" /\ session' = "quit" /\ dwg' = dwg /\ result' = result
        /\ marker' = [marker EXCEPT ![cur] = TRUE]
    BY <1>3, <1>9 DEF WriteMarker
  <2>2. OkBefore(N + 1) => dwg = FirstOps(Last[cur])
    BY <2>1 DEF LaneInv, SavedJobs
  <2>3. AheadIsFresh'
    BY <1>1, <1>3, <2>1, PlanAssumption
    DEF TypeOK, DiskType, LaneInv, AheadIsFresh, Fresh, Batches
  <2>4. RunningJobs' /\ SavedJobs' /\ ProofsAreTrue'
    BY <1>1, <1>3, <1>5, <2>1, <2>2
    DEF RunningJobs, SavedJobs, ProofsAreTrue, OkBefore, Complete
  <2> QED BY <1>6, <2>3, <2>4 DEF LaneInv
<1>10. CASE Quit \/ JobHangs \/ SessionDies
  <2>1. /\ dwg' = dwg /\ result' = result /\ marker' = marker /\ at' = at /\ mem' = mem
        /\ session' = "none" \/ (session' = "hung" /\ session = "jobs")
    BY <1>10 DEF Quit, JobHangs, SessionDies
  <2>2. AheadIsFresh' /\ RunningJobs' /\ SavedJobs'
    BY <1>1, <2>1 DEF LaneInv, AheadIsFresh, Fresh, RunningJobs, SavedJobs, OkBefore
  <2>3. ProofsAreTrue'
    BY <1>1, <2>1 DEF LaneInv, ProofsAreTrue, OkBefore, Complete
  <2> QED BY <1>6, <2>2, <2>3 DEF LaneInv
<1> QED BY <1>7, <1>8, <1>9, <1>10 DEF Session

\* Calls are only counted up, and only by the caller.
LEMMA CallsGrow ==
  TypeOK /\ [Next]_vars => calls \in Nat /\ (calls' = calls \/ (Caller /\ calls' = calls + 1))
<1> USE DEF Next, Caller, FirstCall, ResumeCall, ReapplyCall, StartCall, vars
<1>1. TypeOK => calls \in Nat
  BY CallAssumption DEF TypeOK, ExecutorType
<1>2. Caller => calls' = calls + 1
  OBVIOUS
<1>3. Executor \/ Router \/ Session \/ Faulty => calls' = calls
  BY DEF Executor, SkipBatch, RefuseBatch, LaunchBatch, AcceptBatch, StopBatch, Finish,
         Router, RouterRefuse, RouterStart, RouterTimeout, RouterCollect,
         Session, JobOk, JobError, JobUnknown, SaveDwg, WriteMarker, Quit,
         Faulty, ExecutorCrash, RouterKilled, JobHangs, SessionDies
<1> QED BY <1>1, <1>2, <1>3

LEMMA StepKeepsFirst == TypeOK /\ FirstCallInv /\ [Next]_vars => FirstCallInv'
<1> SUFFICES ASSUME TypeOK, FirstCallInv, [Next]_vars, calls' <= 1 PROVE LaneInv'
  BY DEF FirstCallInv
<1>1. LaneInv
  BY CallsGrow DEF FirstCallInv
<1> QED BY <1>1, CallerFirst, ExecutorFirst, RouterFirst, SessionFirst, StutterFirst
        DEF Next, Faulty

\* The first call on an out_dir keeps the invariant of the lane whatever fails.
THEOREM FirstCallInvariant == Spec => []FirstCallInv
BY InitFirstCall, TypeCorrect, StepKeepsFirst, PTL DEF Spec

\* Whatever dies or fails in it, the first call on an out_dir reports "ok" only
\* when the staged DWG holds the whole patch, in order.
THEOREM FirstCallCorrect == Spec => [](calls <= 1 => OkMeansApplied)
<1>1. FirstCallInv => (calls <= 1 => OkMeansApplied)
  BY DEF FirstCallInv, LaneInv, ReportInv, OkMeansApplied
<1> QED BY FirstCallInvariant, <1>1, PTL

-----------------------------------------------------------------------------
(* What a first call reports and persists when it does not end well.       *)
(* LaneInv says what a call that goes well has done; ExactInv adds what is *)
(* in the drawing, the envelope and the count of one that stops.           *)


\* The operations of the batches behind the cursor.
Behind == 1 .. Last[cur - 1]

\* The drawing d holds these and what the current batch reported ok, in order.
Holds(d) == InOrder(d) /\ Persisted(d) = Behind \cup OkOps(cur)

\* Operations of the current batch follow those behind it.
Extends(d) ==
  /\ Len(d) >= Last[cur - 1]
  /\ \A i \in 1 .. Len(d) :
       IF i <= Last[cur - 1] THEN d[i] = i ELSE d[i] \in OpsOf(cur)

\* The drawing never loses what is behind the cursor, nor the order.
NothingLost == InOrder(dwg) /\ Behind \subseteq Persisted(dwg)

\* What reported ok is in memory, and once saved in the drawing.
ResultsAreTrue ==
  cur \in Batches =>
    /\ session \in {"jobs", "hung"} => Holds(mem) /\ Extends(mem)
    /\ session \in {"saved", "quit"} => Holds(dwg)
    /\ marker[cur] => Holds(dwg)

\* Only a kill between the save and the marker hides a save.
SaveIsMarked ==
  cur \in Batches =>
    /\ session = "quit" => marker[cur]
    /\ ~Admits("kill_after_save") /\ session # "saved" /\ ~marker[cur] =>
         dwg = FirstOps(Last[cur - 1])

\* An envelope is what the marker and the result files still say.
EnvelopeIsTrue ==
  cur \in Batches /\ envelope[cur] # NoEnvelope =>
    /\ session = "none"
    /\ envelope[cur].qsave = marker[cur]
    /\ envelope[cur].ok = OkOps(cur)
    /\ Complete(envelope[cur]) => OkOps(cur) = OpsOf(cur)

\* Batches behind the cursor are counted in full.
CountIsTrue ==
  pc # "done" => okTotal = Last[cur - 1] /\ advice = "none"

\* The report goes by the envelope of the batch it stopped at.
ReportIsTrue ==
  pc = "done" =>
    /\ advice = "none" => cur = NB + 1 /\ okTotal = Last[NB] /\ status = "ok"
    /\ advice \in {"half", "safe"} => cur \in Batches /\ envelope[cur] # NoEnvelope
    /\ advice = "half" =>
         /\ envelope[cur].qsave
         /\ okTotal = Last[cur - 1] + Cardinality(OkOf(envelope[cur]))
    /\ advice = "safe" => ~envelope[cur].qsave

ExactInv ==
  /\ NothingLost
  /\ ResultsAreTrue
  /\ SaveIsMarked
  /\ EnvelopeIsTrue
  /\ CountIsTrue
  /\ ReportIsTrue

ExactCallInv == calls <= 1 => ExactInv

-----------------------------------------------------------------------------
(* Drawings.                                                               *)

\* The cursor lies in the plan, or one behind it.
LEMMA CursorRange ==
  ASSUME NEW c \in 1 .. NB + 1
  PROVE  /\ c - 1 \in 0 .. NB /\ Last[c - 1] \in 0 .. N
         /\ c - 1 \in Nat /\ Last[c - 1] \in Nat
         /\ c = NB + 1 \/ c \in Batches
<1>1. c - 1 \in 0 .. NB /\ c - 1 \in Nat
  BY PlanAssumption
<1>2. Last[c - 1] \in 0 .. N
  BY <1>1, PlanAssumption
<1> QED BY <1>1, <1>2, PlanAssumption DEF Batches

\* The first k operations are in order and are all there.
LEMMA FirstOpsHold ==
  ASSUME NEW k \in Nat
  PROVE  /\ InOrder(FirstOps(k)) /\ Persisted(FirstOps(k)) = 1 .. k
         /\ Len(FirstOps(k)) = k
         /\ \A i \in 1 .. k : FirstOps(k)[i] = i
<1>1. DOMAIN FirstOps(k) = 1 .. k /\ \A i \in 1 .. k : FirstOps(k)[i] = i
  BY DEF FirstOps
<1>2. Len(FirstOps(k)) = k
  BY DEF FirstOps
<1> QED BY <1>1, <1>2 DEF InOrder, Persisted

\* A drawing in order holds as many operations as it is long.
LEMMA InOrderSize ==
  ASSUME NEW d \in Seq(Ops), InOrder(d)
  PROVE  Len(d) = Cardinality(Persisted(d))
<1>1. Len(d) \in Nat /\ DOMAIN d = 1 .. Len(d) /\ \A i \in 1 .. Len(d) : d[i] \in Nat
  BY PlanAssumption DEF Ops
<1>2. d \in [1 .. Len(d) -> Persisted(d)]
  BY <1>1 DEF Persisted
<1>3. ASSUME NEW i \in 1 .. Len(d), NEW j \in 1 .. Len(d), d[i] = d[j] PROVE i = j
  <2>1. ~(i < j) /\ ~(j < i)
    BY <1>1, <1>3 DEF InOrder
  <2> QED BY <1>1, <2>1
<1>4. d \in Bijection(1 .. Len(d), Persisted(d))
  BY <1>1, <1>2, <1>3 DEF Bijection, Injection, IsInjective, Surjection, Persisted
<1>5. ExistsBijection(1 .. Len(d), Persisted(d))
  BY <1>4 DEF ExistsBijection
<1>6. IsFiniteSet(1 .. Len(d)) /\ Cardinality(1 .. Len(d)) = Len(d)
  BY <1>1, PrefixSize
<1> QED BY <1>5, <1>6, FS_Bijection

\* Disjoint finite sets add up.
LEMMA DisjointSize ==
  ASSUME NEW S, NEW T, IsFiniteSet(S), IsFiniteSet(T), S \cap T = {}
  PROVE  Cardinality(S \cup T) = Cardinality(S) + Cardinality(T)
<1>1. Cardinality(S \cup T) = Cardinality(S) + Cardinality(T) - Cardinality(S \cap T)
  BY FS_Union
<1>2. Cardinality(S) \in Nat /\ Cardinality(T) \in Nat /\ Cardinality({}) = 0
  BY FS_EmptySet, FS_CardinalityType
<1>3. Cardinality(S \cap T) = 0
  BY <1>2
<1> QED BY <1>1, <1>2, <1>3

\* The operations behind the cursor and some of the current batch add up.
LEMMA HoldsSize ==
  ASSUME NEW b \in Batches, NEW S \in SUBSET OpsOf(b)
  PROVE  Cardinality((1 .. Last[b - 1]) \cup S) = Last[b - 1] + Cardinality(S)
<1>1. Last[b - 1] \in Nat /\ Last[b] \in Nat
  BY PlanRange
<1>2. IsFiniteSet(1 .. Last[b - 1]) /\ Cardinality(1 .. Last[b - 1]) = Last[b - 1]
  BY <1>1, PrefixSize
<1>3. IsFiniteSet(OpsOf(b))
  BY BatchFinite
<1>4. IsFiniteSet(S)
  BY <1>3, FS_Subset
<1>5. (1 .. Last[b - 1]) \cap S = {}
  BY <1>1 DEF OpsOf
<1> QED BY <1>2, <1>4, <1>5, DisjointSize

\* A batch holds as many operations as the plan says.
LEMMA BatchSize ==
  ASSUME NEW b \in Batches
  PROVE  Last[b - 1] + Cardinality(OpsOf(b)) = Last[b]
<1>1. Last[b - 1] \in Nat /\ Last[b] \in Nat /\ Last[b - 1] < Last[b]
  BY PlanRange
<1>2. PICK m \in Nat, n \in Nat : m = Last[b - 1] /\ n = Last[b]
  BY <1>1
<1>3. m + 1 \in Int /\ n \in Int /\ ~(m + 1 > n)
  BY <1>1, <1>2
<1>4. Cardinality((m + 1) .. n) = n - (m + 1) + 1
  BY <1>3, FS_Interval
<1>5. OpsOf(b) = (m + 1) .. n
  BY <1>2 DEF OpsOf
<1> QED BY <1>2, <1>4, <1>5

\* An operation that follows all those in the drawing keeps it in order.
LEMMA AppendInOrder ==
  ASSUME NEW d \in Seq(Ops), NEW x \in Ops, InOrder(d), \A y \in Persisted(d) : y < x
  PROVE  /\ InOrder(Append(d, x)) /\ Persisted(Append(d, x)) = Persisted(d) \cup {x}
         /\ Len(Append(d, x)) = Len(d) + 1
         /\ \A i \in 1 .. Len(d) + 1 : Append(d, x)[i] = IF i <= Len(d) THEN d[i] ELSE x
<1>1. PICK n \in Nat : n = Len(d)
  OBVIOUS
<1>2. DOMAIN d = 1 .. n /\ DOMAIN Append(d, x) = 1 .. n + 1 /\ Len(Append(d, x)) = n + 1
  BY <1>1
<1>3. \A i \in 1 .. n + 1 : Append(d, x)[i] = IF i <= n THEN d[i] ELSE x
  BY <1>1
<1>4. \A i \in 1 .. n + 1 : IF i <= n THEN i \in 1 .. n ELSE i = n + 1
  OBVIOUS
<1>5. \A i \in 1 .. n : d[i] < x
  BY <1>2 DEF Persisted
<1>6. InOrder(Append(d, x))
  BY <1>2, <1>3, <1>4, <1>5 DEF InOrder
<1>7. Persisted(Append(d, x)) = Persisted(d) \cup {x}
  <2>1. ASSUME NEW y \in Persisted(Append(d, x)) PROVE y \in Persisted(d) \cup {x}
    BY <1>2, <1>3, <1>4 DEF Persisted
  <2>0. PICK e : e = Append(d, x)
    OBVIOUS
  <2>2. ASSUME NEW y \in Persisted(d) PROVE y \in Persisted(Append(d, x))
    <3>1. PICK i \in 1 .. n : y = d[i]
      BY <1>2, <2>2 DEF Persisted
    <3>2. i \in 1 .. n + 1 /\ i <= n
      BY <3>1
    <3>3. e[i] = y
      BY <1>3, <2>0, <3>1, <3>2
    <3> QED BY <1>2, <2>0, <3>2, <3>3 DEF Persisted
  <2>3. x \in Persisted(Append(d, x))
    <3>1. n + 1 \in 1 .. n + 1 /\ ~(n + 1 <= n)
      OBVIOUS
    <3>2. e[n + 1] = x
      BY <1>3, <2>0, <3>1
    <3> QED BY <1>2, <2>0, <3>1, <3>2 DEF Persisted
  <2> QED BY <2>1, <2>2, <2>3
<1> QED BY <1>1, <1>2, <1>3, <1>6, <1>7

-----------------------------------------------------------------------------
(* The invariant.                                                          *)

LEMMA InitExact == Init => ExactCallInv
<1> SUFFICES ASSUME Init PROVE ExactInv
  BY DEF ExactCallInv
<1>1. Last[cur - 1] = 0 /\ dwg = FirstOps(0) /\ 0 \in Nat
  BY FirstOpsEmpty, PlanAssumption DEF Init
<1>2. NothingLost
  BY <1>1, FirstOpsHold DEF NothingLost, Behind
<1>3. ResultsAreTrue
  BY DEF Init, ResultsAreTrue
<1>4. SaveIsMarked
  BY <1>1 DEF Init, SaveIsMarked
<1>5. EnvelopeIsTrue
  BY DEF Init, EnvelopeIsTrue
<1>6. CountIsTrue /\ ReportIsTrue
  BY <1>1 DEF Init, CountIsTrue, ReportIsTrue
<1> QED BY <1>2, <1>3, <1>4, <1>5, <1>6 DEF ExactInv

\* The first call begins on a new out_dir.
LEMMA CallerExact == TypeOK /\ LaneInv /\ ExactInv /\ FirstCall => ExactInv'
<1> SUFFICES ASSUME TypeOK, LaneInv, ExactInv, FirstCall PROVE ExactInv'
  OBVIOUS
<1>1. /\ dwg' = dwg /\ result' = result /\ marker' = marker /\ envelope' = envelope
      /\ session' = session /\ mem' = mem /\ caller' = caller
      /\ cur' = cur /\ pc' = "batch" /\ okTotal' = 0 /\ advice' = "none" /\ Last[cur'-1] = 0
  BY PlanAssumption DEF FirstCall, StartCall, files, sess, LaneInv, ReportInv
<1>2. NothingLost'
  BY <1>1 DEF ExactInv, NothingLost, Behind
<1>3. ResultsAreTrue'
  BY <1>1 DEF ExactInv, ResultsAreTrue, Holds, Extends, Behind, OkOps
<1>4. SaveIsMarked'
  BY <1>1 DEF ExactInv, SaveIsMarked, Admits
<1>5. EnvelopeIsTrue'
  BY <1>1 DEF ExactInv, EnvelopeIsTrue, OkOps
<1>6. CountIsTrue' /\ ReportIsTrue'
  BY <1>1 DEF CountIsTrue, ReportIsTrue
<1> QED BY <1>2, <1>3, <1>4, <1>5, <1>6 DEF ExactInv

\* The executor stops or goes on by the envelope, and counts what it goes by.
LEMMA ExecutorExact ==
  TypeOK /\ LaneInv /\ ExactInv /\ (Executor \/ ExecutorCrash) => ExactInv'
<1> SUFFICES ASSUME TypeOK, LaneInv, ExactInv, Executor \/ ExecutorCrash PROVE ExactInv'
  OBVIOUS
<1> USE DEF files, sess
<1>1. /\ dwg' = dwg /\ result' = result /\ marker' = marker /\ envelope' = envelope
      /\ session' = session /\ mem' = mem /\ caller' = caller
  BY DEF Executor, SkipBatch, RefuseBatch, LaunchBatch, AcceptBatch, StopBatch,
         Finish, ExecutorCrash
<1>2. CASE SkipBatch
  <2>1. cur \in Batches
    BY <1>2, PlanAssumption DEF SkipBatch, TypeOK, ExecutorType, Batches
  <2>2. envelope[cur] = NoEnvelope
    BY <1>2, <2>1 DEF SkipBatch, LaneInv, AheadIsFresh, Fresh
  <2> QED BY <1>2, <2>2 DEF SkipBatch, Complete, NoEnvelope
<1>3. CASE AcceptBatch
  <2>1. cur \in Batches /\ pc = "running" /\ Complete(envelope[cur])
    BY <1>3 DEF AcceptBatch, Returned, TypeOK, ExecutorType
  <2>2. envelope[cur] # NoEnvelope
    BY <2>1 DEF Complete, NoEnvelope
  <2>3. session = "none" /\ dwg = FirstOps(Last[cur]) /\ envelope[cur].ok = OpsOf(cur)
    BY <2>1, <2>2 DEF LaneInv, ProofsAreTrue, ExactInv, EnvelopeIsTrue
  <2>4. /\ cur' = cur + 1 /\ cur' - 1 = cur /\ pc' = "batch" /\ advice' = advice
        /\ okTotal' = okTotal + Cardinality(OkOf(envelope[cur]))
    BY <1>3, <2>1, PlanAssumption DEF AcceptBatch, Batches
  <2>5. Last[cur] \in Nat
    BY <2>1, PlanRange
  <2>6. NothingLost'
    BY <1>1, <2>3, <2>4, <2>5, FirstOpsHold DEF NothingLost, Behind
  <2>7. cur' \in Batches => ~marker[cur'] /\ envelope[cur'] = NoEnvelope
    BY <2>1, <2>4, PlanAssumption DEF LaneInv, AheadIsFresh, Fresh, Batches
  <2>8. ResultsAreTrue' /\ EnvelopeIsTrue'
    BY <1>1, <2>3, <2>7 DEF ResultsAreTrue, EnvelopeIsTrue
  <2>9. SaveIsMarked'
    BY <1>1, <2>3, <2>4 DEF SaveIsMarked
  <2>10. CountIsTrue' /\ ReportIsTrue'
    <3>1. okTotal = Last[cur - 1] /\ advice = "none"
      BY <2>1 DEF ExactInv, CountIsTrue
    <3>2. OkOf(envelope[cur]) = OpsOf(cur)
      BY <2>3 DEF OkOf
    <3>3. okTotal' = Last[cur]
      BY <2>1, <2>4, <3>1, <3>2, BatchSize
    <3> QED BY <2>4, <3>1, <3>3 DEF CountIsTrue, ReportIsTrue
  <2> QED BY <2>6, <2>8, <2>9, <2>10 DEF ExactInv
<1>4. CASE cur' = cur /\ (RefuseBatch \/ LaunchBatch \/ StopBatch \/ Finish \/ ExecutorCrash)
  <2>1. NothingLost'
    BY <1>1, <1>4 DEF ExactInv, NothingLost, Behind
  <2>2. ResultsAreTrue'
    BY <1>1, <1>4 DEF ExactInv, ResultsAreTrue, Holds, Extends, Behind, OkOps
  <2>3. SaveIsMarked' /\ EnvelopeIsTrue'
    BY <1>1, <1>4 DEF ExactInv, SaveIsMarked, EnvelopeIsTrue, OkOps, Admits
  <2>4. pc # "done"
    BY <1>4 DEF RefuseBatch, LaunchBatch, MustRun, StopBatch, Returned, Finish, ExecutorCrash
  <2>5. okTotal = Last[cur - 1] /\ advice = "none" /\ status = "ok"
    BY <2>4 DEF ExactInv, CountIsTrue, LaneInv, ReportInv
  <2>6. CountIsTrue' /\ ReportIsTrue'
    <3>1. CASE RefuseBatch
      BY <3>1 DEF RefuseBatch, CountIsTrue, ReportIsTrue
    <3>2. CASE LaunchBatch \/ ExecutorCrash
      BY <2>5, <3>2 DEF LaunchBatch, ExecutorCrash, CountIsTrue, ReportIsTrue
    <3>3. CASE Finish
      <4>1. cur = NB + 1 /\ cur - 1 = NB
        BY <3>3, PlanAssumption DEF Finish, TypeOK, ExecutorType
      <4> QED BY <2>5, <3>3, <4>1 DEF Finish, CountIsTrue, ReportIsTrue
    <3>4. CASE StopBatch
      <4>1. /\ cur \in Batches /\ pc' = "done" /\ cur' = cur
            /\ okTotal' = okTotal + Cardinality(OkOf(envelope[cur]))
            /\ advice' = StopAdvice(envelope[cur], OkOf(envelope[cur]))
        BY <3>4 DEF StopBatch, Returned, TypeOK, ExecutorType
      <4>2. advice' # "none"
        BY <4>1 DEF StopAdvice
      <4>3. advice' = "half" => envelope[cur].qsave
        BY <4>1 DEF StopAdvice
      <4>4. advice' = "safe" => ~envelope[cur].qsave /\ OkOf(envelope[cur]) # {}
        BY <4>1 DEF StopAdvice
      <4>5. advice' \in {"half", "safe"} => envelope[cur] # NoEnvelope
        BY <4>3, <4>4 DEF NoEnvelope, OkOf
      <4>6. ReportIsTrue'
        BY <1>1, <2>5, <4>1, <4>2, <4>3, <4>4, <4>5 DEF ReportIsTrue, OkOf
      <4> QED BY <4>1, <4>6 DEF CountIsTrue
    <3> QED BY <1>4, <3>1, <3>2, <3>3, <3>4
  <2> QED BY <2>1, <2>2, <2>3, <2>6 DEF ExactInv
<1>5. RefuseBatch \/ LaunchBatch \/ StopBatch \/ Finish \/ ExecutorCrash => cur' = cur
  BY DEF RefuseBatch, LaunchBatch, StopBatch, Finish, ExecutorCrash
<1> QED BY <1>2, <1>3, <1>4, <1>5 DEF Executor

\* The router's envelope is what marker and results say.
LEMMA RouterExact ==
  TypeOK /\ LaneInv /\ ExactInv /\ (Router \/ RouterKilled) => ExactInv'
<1> SUFFICES ASSUME TypeOK, LaneInv, ExactInv, Router \/ RouterKilled PROVE ExactInv'
  OBVIOUS
<1> USE DEF files, sess, exec
<1>1. /\ dwg' = dwg /\ result' = result /\ pc' = pc /\ cur' = cur /\ status' = status
      /\ okTotal' = okTotal /\ advice' = advice /\ caller' = caller
  BY DEF Router, RouterRefuse, RouterStart, RouterTimeout, RouterCollect, RouterKilled
<1>2. cur \in Batches /\ pc \in {"running", "crashed"}
  BY DEF TypeOK, ExecutorType, Router, RouterRefuse, RouterStart, RouterTimeout,
         RouterCollect, RouterKilled
<1>3. NothingLost' /\ CountIsTrue' /\ ReportIsTrue'
  BY <1>1, <1>2 DEF ExactInv, NothingLost, Behind, CountIsTrue, ReportIsTrue
<1>4. CASE RouterRefuse \/ RouterKilled \/ RouterTimeout
  <2>1. marker' = marker /\ envelope' = envelope /\ mem' = mem /\ session' \in {"none", session}
    BY <1>4 DEF RouterRefuse, RouterKilled, RouterTimeout
  <2>2. session = "saved" /\ session' # "saved" => Admits("kill_after_save")
    BY <1>4 DEF RouterRefuse, RouterKilled, RouterTimeout, Killable
  <2>3. ResultsAreTrue'
    BY <1>1, <2>1 DEF ExactInv, ResultsAreTrue, Holds, Extends, Behind, OkOps
  <2>4. SaveIsMarked'
    BY <1>1, <2>1, <2>2 DEF ExactInv, SaveIsMarked, Admits
  <2>5. EnvelopeIsTrue'
    BY <1>1, <2>1 DEF ExactInv, EnvelopeIsTrue, OkOps
  <2> QED BY <1>3, <2>3, <2>4, <2>5 DEF ExactInv
<1>5. CASE RouterStart
  <2>1. /\ session' = "jobs" /\ mem' = dwg /\ envelope' = envelope
        /\ marker' = [marker EXCEPT ![cur] = FALSE]
    BY <1>5 DEF RouterStart, Opened
  <2>2. Fresh(cur) /\ dwg = FirstOps(Last[cur - 1])
    BY <1>2, <1>5 DEF RouterStart, LaneInv, AheadIsFresh, BetweenBatches
  <2>3. ~marker'[cur] /\ envelope[cur] = NoEnvelope /\ OkOps(cur) = {}
    BY <1>2, <2>1, <2>2 DEF TypeOK, DiskType, Fresh, OkOps
  <2>4. Last[cur - 1] \in Nat
    BY <1>2, PlanRange
  <2>5. Holds(dwg) /\ Extends(dwg)
    BY <2>2, <2>3, <2>4, FirstOpsHold DEF Holds, Extends, Behind
  <2>6. ResultsAreTrue'
    BY <1>1, <2>1, <2>3, <2>5 DEF ResultsAreTrue, Holds, Extends, Behind, OkOps
  <2>7. SaveIsMarked' /\ EnvelopeIsTrue'
    BY <1>1, <2>1, <2>2, <2>3 DEF SaveIsMarked, EnvelopeIsTrue
  <2> QED BY <1>3, <2>6, <2>7 DEF ExactInv
<1>6. CASE RouterCollect
  <2>1. /\ session = "none" /\ session' = "none" /\ marker' = marker /\ mem' = mem
        /\ envelope' = [envelope EXCEPT ![cur] =
             [st |-> EnvelopeStatus(OkOps(cur), cur), qsave |-> marker[cur], ok |-> OkOps(cur)]]
    BY <1>6 DEF RouterCollect
  <2>2. ResultsAreTrue' /\ SaveIsMarked'
    BY <1>1, <2>1
    DEF ExactInv, ResultsAreTrue, SaveIsMarked, Holds, Extends, Behind, OkOps, Admits
  <2>3. envelope'[cur] =
          [st |-> EnvelopeStatus(OkOps(cur), cur), qsave |-> marker[cur], ok |-> OkOps(cur)]
    BY <1>2, <2>1 DEF TypeOK, DiskType
  <2>4. Complete(envelope'[cur]) => OkOps(cur) = OpsOf(cur)
    BY <2>3 DEF Complete, EnvelopeStatus
  <2>5. EnvelopeIsTrue'
    BY <1>1, <2>1, <2>3, <2>4 DEF EnvelopeIsTrue, OkOps
  <2> QED BY <1>3, <2>2, <2>5 DEF ExactInv
<1> QED BY <1>4, <1>5, <1>6 DEF Router

\* A session keeps in memory, and saves, what its result files say.
LEMMA SessionExact ==
  TypeOK /\ LaneInv /\ ExactInv /\ (Session \/ JobHangs \/ SessionDies) => ExactInv'
<1> SUFFICES ASSUME TypeOK, LaneInv, ExactInv, Session \/ JobHangs \/ SessionDies
             PROVE  ExactInv'
  OBVIOUS
<1> USE DEF files, sess, exec
<1>1. /\ pc' = pc /\ cur' = cur /\ status' = status /\ advice' = advice
      /\ okTotal' = okTotal /\ envelope' = envelope /\ caller' = caller
  BY DEF Session, JobOk, JobError, JobUnknown, SaveDwg, WriteMarker, Quit, JobHangs,
         SessionDies
<1>2. session # "none"
  BY DEF Session, JobOk, JobError, JobUnknown, SaveDwg, WriteMarker, Quit, JobHangs,
         SessionDies, Killable
<1>3. sbatch = cur /\ cur \in Batches /\ envelope[cur] = NoEnvelope
  BY <1>2 DEF LaneInv, SessionOwnsBatch
<1>4. Last[cur - 1] \in Nat /\ Last[cur] \in Nat /\ Last[cur - 1] < Last[cur] /\ Last[cur] <= N
  BY <1>3, PlanRange
<1>5. CountIsTrue' /\ ReportIsTrue' /\ EnvelopeIsTrue'
  BY <1>1, <1>3 DEF ExactInv, CountIsTrue, ReportIsTrue, EnvelopeIsTrue, OkOf
<1>6. CASE JobOk \/ JobError \/ JobUnknown
  <2>1. /\ session = "jobs" /\ session' = "jobs" /\ dwg' = dwg /\ marker' = marker
        /\ at <= Last[cur]
    BY <1>3, <1>6 DEF JobOk, JobError, JobUnknown
  <2>2. /\ ~marker[cur] /\ at \in Last[cur - 1] + 1 .. Last[cur] + 1
        /\ \A i \in OpsOf(cur) : i >= at => result[i] = "none"
    BY <2>1 DEF LaneInv, RunningJobs
  <2>3. at \in OpsOf(cur) /\ at \in Ops /\ at \in Nat
    BY <1>3, <1>4, <2>1, <2>2, PlanRange DEF OpsOf
  <2>4. Holds(mem) /\ Extends(mem)
    BY <1>3, <2>1 DEF ExactInv, ResultsAreTrue
  <2>5. NothingLost' /\ SaveIsMarked'
    BY <1>1, <2>1, <2>2 DEF ExactInv, NothingLost, Behind, SaveIsMarked, Admits
  <2>6. OpsOf(cur) \subseteq Ops
    BY <1>3, PlanRange
  <2>7. Holds(mem)' /\ Extends(mem)'
    <3>1. CASE JobOk
      <4>1. mem' = Append(mem, at) /\ result' = [result EXCEPT ![at] = "ok"]
        BY <3>1 DEF JobOk
      <4>2. OkOps(cur)' = OkOps(cur) \cup {at}
        BY <1>1, <2>3, <2>6, <4>1 DEF OkOps, TypeOK, DiskType
      <4>3. \A y \in Persisted(mem) : y < at
        <5>1. \A y \in Behind : y < at
          BY <1>4, <2>2 DEF Behind
        <5>2. \A y \in OkOps(cur) : y < at
          BY <1>4, <2>2, <2>3 DEF OkOps, OpsOf
        <5> QED BY <2>4, <5>1, <5>2 DEF Holds
      <4>4. mem \in Seq(Ops)
        BY DEF TypeOK, SessionType
      <4>5. /\ InOrder(Append(mem, at)) /\ Persisted(Append(mem, at)) = Persisted(mem) \cup {at}
            /\ Len(Append(mem, at)) = Len(mem) + 1
            /\ \A i \in 1 .. Len(mem) + 1 :
                 Append(mem, at)[i] = IF i <= Len(mem) THEN mem[i] ELSE at
        BY <2>3, <2>4, <4>3, <4>4, AppendInOrder DEF Holds
      <4>6. Holds(mem)'
        BY <1>1, <2>4, <4>1, <4>2, <4>5 DEF Holds, Behind
      <4>7. Extends(mem)'
        <5>1. PICK n \in Nat : n = Len(mem)
          BY <4>4
        <5>2. PICK e : e = Append(mem, at)
          OBVIOUS
        <5>3. Len(e) = n + 1 /\ n >= Last[cur - 1]
          BY <2>4, <4>5, <5>1, <5>2 DEF Extends
        <5>4. \A i \in 1 .. n :
                IF i <= Last[cur - 1] THEN mem[i] = i ELSE mem[i] \in OpsOf(cur)
          BY <2>4, <5>1 DEF Extends
        <5>5. \A i \in 1 .. n + 1 : e[i] = IF i <= n THEN mem[i] ELSE at
          BY <4>5, <5>1, <5>2
        <5>6. \A i \in 1 .. n + 1 :
                IF i <= Last[cur - 1] THEN e[i] = i ELSE e[i] \in OpsOf(cur)
          BY <1>4, <2>3, <5>3, <5>4, <5>5
        <5> QED BY <1>1, <1>4, <4>1, <5>2, <5>3, <5>6 DEF Extends, OpsOf
      <4> QED BY <4>6, <4>7
    <3>2. CASE JobError \/ JobUnknown
      <4>1. mem' = mem /\ result' \in {result, [result EXCEPT ![at] = "error"]}
        BY <3>2 DEF JobError, JobUnknown
      <4>2. result[at] = "none"
        BY <2>2, <2>3
      <4>3. OkOps(cur)' = OkOps(cur)
        BY <1>1, <2>3, <2>6, <4>1, <4>2 DEF OkOps, TypeOK, DiskType
      <4> QED BY <1>1, <2>4, <4>1, <4>3 DEF Holds, Extends, Behind
    <3> QED BY <1>6, <3>1, <3>2
  <2>8. ResultsAreTrue'
    BY <1>1, <2>1, <2>2, <2>7 DEF ResultsAreTrue
  <2> QED BY <1>5, <2>5, <2>8 DEF ExactInv
<1>7. CASE SaveDwg
  <2>1. /\ session = "jobs" /\ session' = "saved" /\ dwg' = mem /\ result' = result
        /\ marker' = marker
    BY <1>7 DEF SaveDwg
  <2>2. ~marker[cur]
    BY <2>1 DEF LaneInv, RunningJobs
  <2>3. Holds(mem)
    BY <1>3, <2>1 DEF ExactInv, ResultsAreTrue
  <2>4. NothingLost'
    BY <1>1, <2>1, <2>3 DEF NothingLost, Holds, Behind
  <2>5. ResultsAreTrue' /\ SaveIsMarked'
    BY <1>1, <2>1, <2>2, <2>3 DEF ResultsAreTrue, SaveIsMarked, Holds, Behind, OkOps
  <2> QED BY <1>5, <2>4, <2>5 DEF ExactInv
<1>8. CASE WriteMarker
  <2>1. /\ session = "saved" /\ session' = "quit" /\ dwg' = dwg /\ result' = result
        /\ marker' = [marker EXCEPT ![cur] = TRUE]
    BY <1>3, <1>8 DEF WriteMarker
  <2>2. Holds(dwg) /\ marker'[cur]
    BY <1>3, <2>1 DEF ExactInv, ResultsAreTrue, TypeOK, DiskType
  <2>3. NothingLost' /\ SaveIsMarked'
    BY <1>1, <2>1, <2>2 DEF ExactInv, NothingLost, Behind, SaveIsMarked
  <2>4. ResultsAreTrue'
    BY <1>1, <2>1, <2>2 DEF ResultsAreTrue, Holds, Behind, OkOps
  <2> QED BY <1>5, <2>3, <2>4 DEF ExactInv
<1>9. CASE Quit \/ JobHangs \/ SessionDies
  <2>1. /\ dwg' = dwg /\ result' = result /\ marker' = marker /\ mem' = mem
        /\ session' = "none" \/ (session' = "hung" /\ session = "jobs")
    BY <1>9 DEF Quit, JobHangs, SessionDies
  <2>2. session = "saved" => Admits("kill_after_save")
    BY <1>9 DEF Quit, JobHangs, SessionDies, Killable
  <2>3. NothingLost' /\ SaveIsMarked'
    BY <1>1, <1>3, <2>1, <2>2 DEF ExactInv, NothingLost, Behind, SaveIsMarked, Admits
  <2>4. ResultsAreTrue'
    BY <1>1, <2>1 DEF ExactInv, ResultsAreTrue, Holds, Extends, Behind, OkOps
  <2> QED BY <1>5, <2>3, <2>4 DEF ExactInv
<1> QED BY <1>6, <1>7, <1>8, <1>9 DEF Session

LEMMA StutterExact == ExactInv /\ UNCHANGED vars => ExactInv'
<1> SUFFICES ASSUME ExactInv, UNCHANGED vars PROVE ExactInv'
  OBVIOUS
<1> USE DEF vars, files, sess, exec
<1>1. NothingLost' /\ SaveIsMarked' /\ CountIsTrue'
  BY DEF ExactInv, NothingLost, Behind, SaveIsMarked, CountIsTrue, Admits
<1>2. ResultsAreTrue' /\ EnvelopeIsTrue' /\ ReportIsTrue'
  BY DEF ExactInv, ResultsAreTrue, EnvelopeIsTrue, ReportIsTrue, Holds, Extends, Behind,
         OkOps, OkOf
<1> QED BY <1>1, <1>2 DEF ExactInv

LEMMA StepKeepsExact == TypeOK /\ FirstCallInv /\ ExactCallInv /\ [Next]_vars => ExactCallInv'
<1> SUFFICES ASSUME TypeOK, FirstCallInv, ExactCallInv, [Next]_vars, calls' <= 1
             PROVE  ExactInv'
  BY DEF ExactCallInv
<1>1. LaneInv /\ ExactInv
  BY CallsGrow DEF FirstCallInv, ExactCallInv
<1>2. Caller => FirstCall
  BY CallsGrow DEF Caller, ResumeCall, ReapplyCall, MayCallAgain, StartCall
<1> QED BY <1>1, <1>2, CallerExact, ExecutorExact, RouterExact, SessionExact, StutterExact
        DEF Next, Faulty

\* Whatever fails, the first call on an out_dir keeps files, drawing and report
\* in agreement.
THEOREM FirstCallExact == Spec => []ExactCallInv
BY InitExact, TypeCorrect, FirstCallInvariant, StepKeepsExact, PTL DEF Spec

-----------------------------------------------------------------------------
(* What a first call may be relied on for.                                 *)

\* Whatever is behind the cursor is in the drawing.
LEMMA NothingLostPasses == TypeOK /\ NothingLost => PassMeansPersisted
<1> SUFFICES ASSUME TypeOK, NothingLost, NEW b \in Batches, b < cur
             PROVE  OpsOf(b) \subseteq Persisted(dwg)
  BY DEF PassMeansPersisted
<1>1. /\ cur \in 1 .. NB + 1 /\ cur - 1 \in 0 .. NB /\ b \in 0 .. NB
      /\ (b < cur - 1 \/ b = cur - 1)
  BY PlanAssumption DEF TypeOK, ExecutorType, Batches
<1>2. Last[b] <= Last[cur - 1] /\ Last[cur - 1] \in Nat
  BY <1>1, PlanAssumption
<1>3. Last[b - 1] \in Nat /\ Last[b] \in Nat
  BY PlanRange
<1>4. OpsOf(b) \subseteq Behind
  BY <1>2, <1>3 DEF OpsOf, Behind
<1> QED BY <1>4 DEF NothingLost

\* On a new out_dir an envelope the executor goes by proves that its batch is in
\* the staged DWG, whatever fails later.
THEOREM FirstCallPassPersisted == Spec => [](calls <= 1 => PassMeansPersisted)
<1>1. TypeOK /\ ExactCallInv => (calls <= 1 => PassMeansPersisted)
  BY NothingLostPasses DEF ExactCallInv, ExactInv
<1> QED BY TypeCorrect, FirstCallExact, <1>1, PTL

\* A batch persisted in part is counted and named exactly.
LEMMA HalfIsExact ==
  ASSUME TypeOK, cur \in Batches, envelope[cur].ok = OkOps(cur), Holds(dwg),
         okTotal = Last[cur - 1] + Cardinality(OkOf(envelope[cur]))
  PROVE  /\ okTotal = Len(dwg) /\ InOrder(dwg)
         /\ Persisted(dwg) = (1 .. Last[cur - 1]) \cup (envelope[cur].ok \cap OpsOf(cur))
<1>1. OkOf(envelope[cur]) = OkOps(cur) /\ OkOps(cur) \in SUBSET OpsOf(cur)
  BY DEF OkOf, OkOps
<1>2. InOrder(dwg) /\ Persisted(dwg) = (1 .. Last[cur - 1]) \cup OkOps(cur)
  BY DEF Holds, Behind
<1>3. Cardinality(Persisted(dwg)) = Last[cur - 1] + Cardinality(OkOps(cur))
  BY <1>1, <1>2, HoldsSize
<1>4. dwg \in Seq(Ops)
  BY DEF TypeOK, DiskType
<1>5. okTotal = Len(dwg)
  BY <1>1, <1>2, <1>3, <1>4, InOrderSize
<1> QED BY <1>1, <1>2, <1>5 DEF OkOf

\* The counts and the operations that the report of a first call names are those
\* in the staged DWG.
THEOREM FirstCallReportExact == Spec => [](calls <= 1 => ReportExact)
<1>1. ASSUME TypeOK, LaneInv, ExactInv PROVE ReportExact
  <2>1. ASSUME pc = "done", advice = "none" PROVE okTotal = Len(dwg)
    <3>1. okTotal = N /\ dwg = FirstOps(N) /\ N \in Nat
      BY <1>1, <2>1, PlanAssumption DEF ExactInv, ReportIsTrue, LaneInv, ReportInv
    <3> QED BY <3>1, FirstOpsHold
  <2>2. ASSUME pc = "done", advice = "half"
        PROVE  /\ okTotal = Len(dwg) /\ InOrder(dwg)
               /\ Persisted(dwg) =
                    (1 .. Last[cur - 1]) \cup (envelope[cur].ok \cap OpsOf(cur))
    <3>1. /\ cur \in Batches /\ envelope[cur] # NoEnvelope /\ envelope[cur].qsave
          /\ okTotal = Last[cur - 1] + Cardinality(OkOf(envelope[cur]))
      BY <1>1, <2>2 DEF ExactInv, ReportIsTrue
    <3>2. marker[cur] /\ envelope[cur].ok = OkOps(cur)
      BY <1>1, <3>1 DEF ExactInv, EnvelopeIsTrue
    <3>3. Holds(dwg)
      BY <1>1, <3>1, <3>2 DEF ExactInv, ResultsAreTrue
    <3> QED BY <1>1, <3>1, <3>2, <3>3, HalfIsExact
  <2> QED BY <2>1, <2>2 DEF ReportExact
<1>2. TypeOK /\ FirstCallInv /\ ExactCallInv => (calls <= 1 => ReportExact)
  BY <1>1 DEF FirstCallInv, ExactCallInv
<1> QED BY TypeCorrect, FirstCallInvariant, FirstCallExact, <1>2, PTL

\* A first call persists no operation twice or out of order.
THEOREM FirstCallAppliedOnce == Spec => [](calls <= 1 => NeverAppliedTwice)
<1>1. ExactCallInv => (calls <= 1 => NeverAppliedTwice)
  BY DEF ExactCallInv, ExactInv, NothingLost, NeverAppliedTwice
<1> QED BY FirstCallExact, <1>1, PTL

\* "Safe to re-run" is true of a first call if no session is killed between its
\* save and its marker.
THEOREM FirstCallSafe ==
  Spec => [](calls <= 1 /\ ~Admits("kill_after_save") => SafeMeansUnchanged)
<1>1. ASSUME TypeOK, ExactInv, ~Admits("kill_after_save") PROVE SafeMeansUnchanged
  <2>1. SUFFICES ASSUME pc = "done", advice = "safe"
                 PROVE  Persisted(dwg) \cap OpsOf(cur) = {}
    BY DEF SafeMeansUnchanged
  <2>2. cur \in Batches /\ envelope[cur] # NoEnvelope /\ ~envelope[cur].qsave
    BY <1>1, <2>1 DEF ExactInv, ReportIsTrue
  <2>3. session = "none" /\ ~marker[cur]
    BY <1>1, <2>2 DEF ExactInv, EnvelopeIsTrue
  <2>4. dwg = FirstOps(Last[cur - 1]) /\ Last[cur - 1] \in Nat
    BY <1>1, <2>2, <2>3, PlanRange DEF ExactInv, SaveIsMarked
  <2>5. Persisted(dwg) = 1 .. Last[cur - 1]
    BY <2>4, FirstOpsHold
  <2> QED BY <2>4, <2>5 DEF OpsOf
<1>2. TypeOK /\ ExactCallInv => (calls <= 1 /\ ~Admits("kill_after_save") => SafeMeansUnchanged)
  BY <1>1 DEF ExactCallInv
<1> QED BY TypeCorrect, FirstCallExact, <1>2, PTL

-----------------------------------------------------------------------------
(* The lane implements StagedPatch.                                        *)

\* A save persists some operations of the current batch, behind all earlier ones.
LEMMA SavePersists ==
  ASSUME TypeOK, SaveDwg, cur \in Batches, pc = "done" => status # "ok",
         dwg = FirstOps(Last[cur - 1]), InOrder(mem), Extends(mem)
  PROVE  Promise!Next
<1> SUFFICES Promise!Persist(cur) /\ cur \in 1 .. NB
  BY DEF Promise!Next
<1>1. dwg' = mem /\ pc' = pc /\ status' = status
  BY DEF SaveDwg, exec
<1>2. cur \in Batches /\ (pc = "done" => status # "ok")
  OBVIOUS
<1>3. dwg = FirstOps(Last[cur - 1])
  OBVIOUS
<1>4. InOrder(mem) /\ Extends(mem)
  OBVIOUS
<1>5. Last[cur - 1] \in Nat
  BY <1>2, PlanRange
<1>6. PICK k \in Nat : k = Last[cur - 1]
  BY <1>5
<1>7. Len(dwg) = k /\ \A i \in 1 .. k : dwg[i] = i
  BY <1>3, <1>6, FirstOpsHold
<1>8. PICK n \in Nat : n = Len(mem)
  BY DEF TypeOK, SessionType
<1>9. DOMAIN mem = 1 .. n
  BY <1>8 DEF TypeOK, SessionType
<1>10. n >= k /\ \A i \in 1 .. n : IF i <= k THEN mem[i] = i ELSE mem[i] \in OpsOf(cur)
  BY <1>4, <1>6, <1>8 DEF Extends
<1>11. \A i, j \in 1 .. n : i < j => mem[i] < mem[j]
  BY <1>4, <1>9 DEF InOrder
<1>12. \A i \in 1 .. k : mem[i] = dwg[i]
  BY <1>7, <1>10
<1>13. \A i \in k + 1 .. n : mem[i] \in OpsOf(cur)
  BY <1>10
<1>14. dwg = Promise!Whole(Last[cur - 1])
  BY <1>3 DEF FirstOps, Promise!Whole
<1> QED BY <1>1, <1>2, <1>7, <1>8, <1>10, <1>11, <1>12, <1>13, <1>14
        DEF Promise!Persist, OpsOf, Batches

\* Every other step leaves the drawing alone, and accepts it only when whole.
LEMMA StepKeepsPromise ==
  TypeOK /\ LaneInv /\ ExactInv /\ [Next]_vars /\ calls' <= 1 => [Promise!Next]_Promise!vars
<1> SUFFICES ASSUME TypeOK, LaneInv, ExactInv, [Next]_vars, calls' <= 1
             PROVE  [Promise!Next]_Promise!vars
  OBVIOUS
<1> USE DEF Promise!vars, files, sess, exec
<1>1. CASE UNCHANGED vars
  BY <1>1 DEF vars
<1>2. CASE Caller
  <2>1. FirstCall
    BY <1>2, CallsGrow DEF Caller, ResumeCall, ReapplyCall, MayCallAgain, StartCall
  <2> QED BY <2>1 DEF FirstCall, StartCall
<1>3. CASE Finish
  <2>1. cur - 1 = NB /\ dwg = FirstOps(N) /\ status = "ok"
    <3>1. cur = NB + 1 /\ status = "ok"
      BY <1>3, PlanAssumption DEF Finish, TypeOK, ExecutorType, LaneInv, ReportInv
    <3>2. cur - 1 = NB /\ Last[NB] = N
      BY <3>1, PlanAssumption
    <3> QED BY <1>3, <3>1, <3>2 DEF Finish, LaneInv, BetweenBatches
  <2>2. dwg = Promise!Whole(N)
    BY <2>1 DEF FirstOps, Promise!Whole
  <2> QED BY <1>3, <2>1, <2>2 DEF Finish, Promise!Next, Promise!Accept
<1>4. CASE RefuseBatch \/ StopBatch
  <2>1. dwg' = dwg /\ pc # "done" /\ pc' = "done" /\ status' # "ok"
    BY <1>4 DEF RefuseBatch, MustRun, StopBatch, Returned
  <2> QED BY <2>1 DEF Promise!Next, Promise!Stop
<1>5. CASE SaveDwg
  <2>1. session = "jobs"
    BY <1>5 DEF SaveDwg
  <2>2. cur \in Batches /\ (pc = "done" => status # "ok")
    BY <2>1 DEF LaneInv, SessionOwnsBatch
  <2>3. dwg = FirstOps(Last[cur - 1])
    BY <2>1 DEF LaneInv, RunningJobs
  <2>4. InOrder(mem) /\ Extends(mem)
    BY <2>1, <2>2 DEF ExactInv, ResultsAreTrue, Holds
  <2> QED BY <1>5, <2>2, <2>3, <2>4, SavePersists
<1>6. CASE SkipBatch \/ LaunchBatch \/ AcceptBatch \/ ExecutorCrash
  <2>1. dwg' = dwg /\ pc # "done" /\ pc' # "done"
    BY <1>6 DEF SkipBatch, LaunchBatch, MustRun, AcceptBatch, Returned, ExecutorCrash
  <2> QED BY <2>1
<1>7. CASE Router \/ RouterKilled
  <2>1. dwg' = dwg /\ pc' = pc /\ status' = status
    BY <1>7 DEF Router, RouterRefuse, RouterStart, RouterTimeout, RouterCollect, RouterKilled
  <2> QED BY <2>1
<1>8. CASE JobOk \/ JobError \/ JobUnknown \/ WriteMarker \/ Quit \/ JobHangs \/ SessionDies
  <2>1. dwg' = dwg /\ pc' = pc /\ status' = status
    BY <1>8 DEF JobOk, JobError, JobUnknown, WriteMarker, Quit, JobHangs, SessionDies
  <2> QED BY <2>1
<1> QED BY <1>1, <1>2, <1>3, <1>4, <1>5, <1>6, <1>7, <1>8
        DEF Next, Executor, Session, Faulty

\* With one call on an out_dir the lane keeps the promise of StagedPatch,
\* whatever fails.
THEOREM FirstCallKeepsPromise == MaxCalls = 1 => (Spec => PromiseKept)
<1> SUFFICES ASSUME MaxCalls = 1 PROVE Spec => PromiseKept
  OBVIOUS
<1>1. Init => Promise!Init
  BY DEF Init, Promise!Init
<1>2. TypeOK => calls <= 1
  BY DEF TypeOK, ExecutorType
<1>3. TypeOK /\ TypeOK' /\ FirstCallInv /\ ExactCallInv /\ [Next]_vars
        => [Promise!Next]_Promise!vars
  <2>1. TypeOK' => calls' <= 1
    BY DEF TypeOK, ExecutorType
  <2> QED BY <1>2, <2>1, StepKeepsPromise DEF FirstCallInv, ExactCallInv
<1> QED BY <1>1, <1>3, TypeCorrect, FirstCallInvariant, FirstCallExact, PTL
        DEF Spec, PromiseKept, Promise!Spec

-----------------------------------------------------------------------------
(* Calls that are repeated over the files of former calls, by callers that *)
(* call again in a way that survives the faults they may meet (Patient):   *)
(* their inductive invariant.                                              *)

\* Envelopes an executor may resume by prove the batches up to f, and no other.
Proven(f) ==
  resume => \A b \in Batches :
              IF b <= f THEN Complete(envelope[b]) ELSE ~envelope[b].qsave

\* At rest the staged DWG holds the batches up to f.
Front(f) == dwg = FirstOps(Last[f]) /\ Proven(f)

SomeFront == \E f \in 0 .. NB : Front(f)

\* The operations this session has done and reported ok; older result files of
\* the batch do not count.
FreshOk == {i \in OpsOf(cur) : i < at /\ result[i] = "ok"}

HoldsFresh(d) == InOrder(d) /\ Persisted(d) = Behind \cup FreshOk

\* A caller that resumes after a crash meets no operation error.
NoErrors(k) == caller = "resume_crashed" => OkBefore(k)

\* The current batch was saved, with what reported ok.
BatchSaved ==
  Holds(dwg) /\ NoErrors(N + 1) /\ (OkBefore(N + 1) => dwg = FirstOps(Last[cur]))

\* Between batches the executor's cursor is behind what is proven or at its end.
CursorInv ==
  /\ pc \in {"idle", "batch"} =>
       \E f \in 0 .. NB : f >= cur - 1 /\ Front(f) /\ (~resume => f = cur - 1)
  /\ pc = "idle" => cur = 1 /\ resume
  /\ resume \/ caller = "reapply_fresh"

\* The session applies the current batch to a drawing that holds all earlier ones.
SessionInv ==
  /\ router = "starting" => session = "none" /\ Front(cur - 1)
  /\ session # "none" =>
       /\ router = "waiting" /\ sbatch = cur /\ loaded /\ Proven(cur - 1)
       /\ at \in Last[cur - 1] + 1 .. Last[cur] + 1
  /\ session \in {"jobs", "hung"} =>
       /\ dwg = FirstOps(Last[cur - 1]) /\ ~marker[cur]
       /\ HoldsFresh(mem) /\ Extends(mem)
       /\ NoErrors(at) /\ (OkBefore(at) => mem = FirstOps(at - 1))
  /\ session \in {"saved", "quit"} => BatchSaved
  /\ session = "quit" => marker[cur]

\* When it is over, the marker says whether it saved.
SavedInv ==
  router = "waiting" /\ session = "none" =>
    /\ Proven(cur - 1)
    /\ IF marker[cur] THEN BatchSaved ELSE dwg = FirstOps(Last[cur - 1])

\* A batch that is persisted in part.
HalfPersisted ==
  /\ envelope[cur].qsave /\ ~Complete(envelope[cur])
  /\ envelope[cur].ok = OkOps(cur) /\ Holds(dwg)
  /\ caller # "resume_crashed"

\* The envelope that is there when the router is gone is of its session, or it
\* proves nothing.
Outcome ==
  \/ Complete(envelope[cur]) /\ envelope[cur].ok = OpsOf(cur) /\ Front(cur)
  \/ ~envelope[cur].qsave /\ Front(cur - 1)
  \/ HalfPersisted

\* A crash leaves the drawing at rest when the router is gone.
ReturnInv ==
  /\ pc = "running" /\ router = "gone" => Outcome
  /\ pc = "crashed" /\ router = "gone" /\ caller = "resume_crashed" => SomeFront

\* The report says how the call ended.
EndInv ==
  /\ pc # "done" => status = "ok"
  /\ pc = "done" =>
       /\ status = "ok" => Front(NB) /\ cur = NB + 1
       /\ status = "ok" <=> advice = "none"
       /\ advice = "refused" => SomeFront
       /\ advice = "safe" => cur \in Batches /\ Front(cur - 1)
       /\ advice = "half" => cur \in Batches /\ HalfPersisted

\* What was counted is what is behind the cursor.
TotalInv ==
  /\ pc # "done" => okTotal = Last[cur - 1] /\ advice = "none"
  /\ pc = "done" /\ advice = "none" => okTotal = Last[NB]
  /\ pc = "done" /\ advice = "half" =>
       okTotal = Last[cur - 1] + Cardinality(OkOf(envelope[cur]))

RepeatInv ==
  /\ NothingLost
  /\ CursorInv
  /\ SessionInv
  /\ SavedInv
  /\ ReturnInv
  /\ EndInv
  /\ TotalInv

\* Who calls once is covered by the first call, the others by RepeatInv.
CallerInv == IF caller = "once" THEN calls <= 1 ELSE RepeatInv

-----------------------------------------------------------------------------
(* What the assumption gives.                                              *)

LEMMA PatientCaller ==
  ASSUME TypeOK, Patient, caller # "once"
  PROVE  /\ caller \in Repeaters
         /\ ~Admits("load_failure") /\ ~Admits("kill_after_save") /\ ~Admits("router_killed")
         /\ Admits("op_error") => caller # "resume_crashed"
         /\ Admits("router_refuses") => caller # "reapply_fresh"
<1>1. caller \in Repeaters /\ Faults[caller] \subseteq Survives(caller)
  BY DEF TypeOK, ExecutorType, Patient
<1>2. CASE caller = "resume_advised"
  BY <1>1, <1>2 DEF Survives, Admits
<1>3. CASE caller = "reapply_fresh"
  BY <1>1, <1>3 DEF Survives, Admits
<1>4. CASE caller = "resume_crashed"
  BY <1>1, <1>4 DEF Survives, Admits
<1> QED BY <1>1, <1>2, <1>3, <1>4 DEF Repeaters

\* What is proven, and the drawing at rest, depend on these variables alone.
LEMMA FrontKept ==
  ASSUME dwg' = dwg, envelope' = envelope, resume' = resume, NEW f
  PROVE  (Front(f)' <=> Front(f)) /\ (Proven(f)' <=> Proven(f))
BY DEF Front, Proven

\* A drawing at rest lost nothing.
LEMMA FrontHolds ==
  ASSUME NEW f \in 0 .. NB, dwg = FirstOps(Last[f])
  PROVE  InOrder(dwg) /\ Persisted(dwg) = 1 .. Last[f] /\ Last[f] \in Nat
<1>1. Last[f] \in Nat
  BY PlanAssumption
<1> QED BY <1>1, FirstOpsHold

LEMMA InitRepeat == Init /\ Patient => CallerInv
<1> SUFFICES ASSUME Init PROVE RepeatInv /\ calls <= 1
  BY DEF CallerInv
<1>1. /\ cur = 1 /\ cur - 1 = 0 /\ 0 \in 0 .. NB /\ Last[0] = 0 /\ dwg = FirstOps(0)
      /\ \A b \in Batches : ~(b <= 0)
  BY FirstOpsEmpty, PlanAssumption DEF Init, Batches
<1>2. Front(0)
  BY <1>1 DEF Init, Front, Proven, NoEnvelope
<1>3. NothingLost
  BY <1>1, FrontHolds DEF NothingLost, Behind
<1>4. CursorInv
  BY <1>1, <1>2 DEF Init, CursorInv
<1>5. SessionInv /\ SavedInv /\ ReturnInv
  BY DEF Init, SessionInv, SavedInv, ReturnInv
<1>6. EndInv /\ TotalInv
  BY <1>1 DEF Init, EndInv, TotalInv
<1> QED BY <1>3, <1>4, <1>5, <1>6 DEF Init, RepeatInv

\* A new call starts with a drawing at rest and resumes by what is proven, or
\* with a new copy and by nothing.
LEMMA CallerRepeat ==
  TypeOK /\ Patient /\ caller # "once" /\ RepeatInv /\ Caller => RepeatInv'
<1> SUFFICES ASSUME TypeOK, Patient, caller # "once", RepeatInv, Caller PROVE RepeatInv'
  OBVIOUS
<1> USE DEF files, sess, exec
<1>1. ASSUME NEW rs \in BOOLEAN, StartCall(rs), session = "none", router = "gone",
             rs \/ caller = "reapply_fresh",
             NEW f \in 0 .. NB, dwg' = FirstOps(Last[f]), rs => Proven(f) /\ resume,
             ~rs => f = 0
      PROVE  RepeatInv'
  <2>1. /\ pc' = "batch" /\ cur' = 1 /\ okTotal' = 0 /\ status' = "ok" /\ advice' = "none"
        /\ resume' = rs /\ caller' = caller /\ session' = "none" /\ router' = "gone"
        /\ envelope' = envelope /\ cur' - 1 = 0 /\ Last[0] = 0
    BY <1>1, PlanAssumption DEF StartCall
  <2>2. Front(f)'
    BY <1>1, <2>1 DEF Front, Proven
  <2>3. NothingLost'
    <3>1. Last[f] \in Nat
      BY <1>1, PlanAssumption
    <3>2. InOrder(dwg)'
      BY <1>1, <3>1, FirstOpsHold DEF InOrder
    <3>3. Behind' = {}
      BY <2>1 DEF Behind
    <3> QED BY <3>2, <3>3 DEF NothingLost
  <2>4. CursorInv'
    <3>1. f \in 0 .. NB /\ f >= cur' - 1 /\ (~resume' => f = cur' - 1)
      BY <1>1, <2>1
    <3> QED BY <1>1, <2>1, <2>2, <3>1 DEF CursorInv
  <2>5. SessionInv' /\ SavedInv' /\ ReturnInv'
    BY <2>1 DEF SessionInv, SavedInv, ReturnInv
  <2>6. EndInv' /\ TotalInv'
    BY <2>1 DEF EndInv, TotalInv
  <2> QED BY <2>3, <2>4, <2>5, <2>6 DEF RepeatInv
<1>2. resume \/ caller = "reapply_fresh"
  BY DEF RepeatInv, CursorInv
<1>3. router = "gone" => session = "none"
  BY DEF RepeatInv, SessionInv
<1>4. CASE FirstCall
  <2>1. pc = "idle" /\ StartCall(TRUE) /\ dwg' = dwg /\ router = "gone"
    BY <1>4 DEF FirstCall, TypeOK, ExecutorType, SessionType
  <2>2. resume
    BY <2>1 DEF RepeatInv, CursorInv
  <2>3. PICK f \in 0 .. NB : Front(f)
    BY <2>1 DEF RepeatInv, CursorInv
  <2> QED BY <1>1, <1>3, <2>1, <2>2, <2>3 DEF Front
<1>5. CASE ResumeCall
  <2>1. /\ StartCall(TRUE) /\ dwg' = dwg /\ router = "gone"
        /\ (caller = "resume_advised" /\ Advised) \/ (caller = "resume_crashed" /\ pc = "crashed")
    BY <1>5 DEF ResumeCall, MayCallAgain
  <2>2. resume
    BY <1>2, <2>1
  <2>3. SomeFront
    <3>1. CASE Advised
      <4>1. pc = "done" /\ (status = "ok" \/ advice = "safe" \/ advice = "refused")
        BY <3>1 DEF Advised
      <4>2. status = "ok" => Front(NB) /\ NB \in 0 .. NB
        BY <4>1, PlanAssumption DEF RepeatInv, EndInv
      <4>3. advice = "safe" => Front(cur - 1) /\ cur - 1 \in 0 .. NB
        BY <4>1, PlanRange DEF RepeatInv, EndInv
      <4> QED BY <4>1, <4>2, <4>3 DEF RepeatInv, EndInv, SomeFront
    <3>2. CASE caller = "resume_crashed" /\ pc = "crashed"
      BY <2>1, <3>2 DEF RepeatInv, ReturnInv
    <3> QED BY <2>1, <3>1, <3>2
  <2>4. PICK f \in 0 .. NB : Front(f)
    BY <2>3 DEF SomeFront
  <2> QED BY <1>1, <1>3, <2>1, <2>2, <2>4 DEF Front
<1>6. ASSUME NEW rs \in BOOLEAN, ReapplyCall(rs) PROVE RepeatInv'
  <2>1. ~rs
    BY <1>6, PatientCaller DEF ReapplyCall, Repeaters
  <2>2. /\ StartCall(rs) /\ session = "none" /\ router = "gone" /\ caller = "reapply_fresh"
        /\ dwg' = << >>
    BY <1>6, <2>1 DEF ReapplyCall, MayCallAgain
  <2>3. 0 \in 0 .. NB /\ << >> = FirstOps(Last[0])
    BY FirstOpsEmpty, PlanAssumption
  <2> QED BY <1>1, <2>1, <2>2, <2>3
<1> QED BY <1>4, <1>5, <1>6 DEF Caller

-----------------------------------------------------------------------------
(* The executor.                                                           *)

\* A batch that must run is the one behind what is proven.
LEMMA MustRunAtFront ==
  TypeOK /\ RepeatInv /\ MustRun => cur \in Batches /\ Front(cur - 1) /\ session = "none"
<1> SUFFICES ASSUME TypeOK, RepeatInv, MustRun
             PROVE  cur \in Batches /\ Front(cur - 1) /\ session = "none"
  OBVIOUS
<1>1. cur \in Batches /\ pc = "batch" /\ ~(resume /\ Complete(envelope[cur]))
  BY PlanAssumption DEF MustRun, TypeOK, ExecutorType, Batches
<1>2. PICK f \in 0 .. NB : f >= cur - 1 /\ Front(f) /\ (~resume => f = cur - 1)
  BY <1>1 DEF RepeatInv, CursorInv
<1>3. f = cur - 1
  <2>1. CASE resume
    <3>1. ~(cur <= f)
      BY <1>1, <1>2, <2>1 DEF Front, Proven
    <3> QED BY <1>1, <1>2, <3>1, PlanAssumption DEF Batches
  <2> QED BY <1>2, <2>1
<1>4. session = "none"
  BY <1>1 DEF TypeOK, ExecutorType, RepeatInv, SessionInv
<1> QED BY <1>1, <1>2, <1>3, <1>4

LEMMA ExecutorRepeat ==
  TypeOK /\ RepeatInv /\ (Executor \/ ExecutorCrash) => RepeatInv'
<1> SUFFICES ASSUME TypeOK, RepeatInv, Executor \/ ExecutorCrash PROVE RepeatInv'
  OBVIOUS
<1> USE DEF files, sess
<1>1. /\ dwg' = dwg /\ result' = result /\ marker' = marker /\ envelope' = envelope
      /\ session' = session /\ sbatch' = sbatch /\ loaded' = loaded /\ at' = at /\ mem' = mem
      /\ caller' = caller /\ resume' = resume
  BY DEF Executor, SkipBatch, RefuseBatch, LaunchBatch, AcceptBatch, StopBatch,
         Finish, ExecutorCrash
<1>2. \A f : Front(f)' <=> Front(f)
  BY <1>1, FrontKept
<1>3. resume \/ caller = "reapply_fresh"
  BY DEF RepeatInv, CursorInv
<1>4. CASE SkipBatch \/ AcceptBatch
  <2>1. /\ cur \in Batches /\ cur' = cur + 1 /\ cur' - 1 = cur /\ pc' = "batch"
        /\ router = "gone" /\ router' = "gone" /\ session = "none" /\ pc # "done"
        /\ status' = status /\ advice' = advice
    <3>1. /\ cur \in Batches /\ cur' = cur + 1 /\ pc' = "batch" /\ pc # "done"
          /\ status' = status /\ advice' = advice /\ router' = router /\ router = "gone"
      BY <1>4, PlanAssumption
      DEF SkipBatch, AcceptBatch, Returned, TypeOK, ExecutorType, SessionType, Batches
    <3>2. session = "none"
      BY <3>1 DEF RepeatInv, SessionInv
    <3> QED BY <3>1, <3>2, PlanAssumption DEF Batches
  <2>2. /\ okTotal' = okTotal + Cardinality(OpsOf(cur))
        /\ \E f \in 0 .. NB : f >= cur /\ Front(f) /\ (~resume => f = cur)
    <3>1. CASE SkipBatch
      <4>1. resume /\ Complete(envelope[cur]) /\ pc = "batch"
            /\ okTotal' = okTotal + Cardinality(OpsOf(cur))
        BY <3>1 DEF SkipBatch
      <4>2. PICK f \in 0 .. NB : f >= cur - 1 /\ Front(f)
        BY <4>1 DEF RepeatInv, CursorInv
      <4>3. cur <= f
        BY <2>1, <4>1, <4>2 DEF Front, Proven, Complete
      <4> QED BY <4>1, <4>2, <4>3
    <3>2. CASE AcceptBatch
      <4>1. /\ Complete(envelope[cur]) /\ pc = "running" /\ router = "gone"
            /\ okTotal' = okTotal + Cardinality(OkOf(envelope[cur]))
        BY <3>2 DEF AcceptBatch, Returned
      <4>2. envelope[cur].ok = OpsOf(cur) /\ Front(cur)
        BY <4>1 DEF RepeatInv, ReturnInv, Outcome, HalfPersisted, Complete
      <4>3. OkOf(envelope[cur]) = OpsOf(cur) /\ cur \in 0 .. NB /\ cur >= cur
        BY <2>1, <4>2, PlanAssumption DEF OkOf, Batches
      <4> QED BY <4>1, <4>2, <4>3
    <3> QED BY <1>4, <3>1, <3>2
  <2>3. CursorInv'
    BY <1>1, <1>2, <1>3, <2>1, <2>2 DEF CursorInv
  <2>4. NothingLost'
    <3>1. PICK f \in 0 .. NB : f >= cur /\ Front(f)
      BY <2>2
    <3>2. Persisted(dwg) = 1 .. Last[f] /\ InOrder(dwg)
      BY <3>1, FrontHolds DEF Front
    <3>3. Last[cur] <= Last[f] /\ Last[f] \in Nat /\ Last[cur] \in Nat
      <4>1. cur \in 0 .. NB /\ (cur < f \/ cur = f)
        BY <2>1, <3>1, PlanAssumption DEF Batches
      <4> QED BY <4>1, PlanAssumption
    <3> QED BY <1>1, <2>1, <3>2, <3>3 DEF NothingLost, Behind
  <2>5. SessionInv' /\ SavedInv' /\ ReturnInv'
    BY <1>1, <2>1 DEF SessionInv, SavedInv, ReturnInv
  <2>6. EndInv'
    BY <2>1 DEF RepeatInv, EndInv
  <2>7. TotalInv'
    <3>1. okTotal = Last[cur - 1] /\ advice = "none"
      BY <2>1 DEF RepeatInv, TotalInv
    <3>2. okTotal' = Last[cur]
      BY <2>1, <2>2, <3>1, BatchSize
    <3> QED BY <2>1, <3>1, <3>2 DEF TotalInv
  <2> QED BY <2>3, <2>4, <2>5, <2>6, <2>7 DEF RepeatInv
<1>5. CASE cur' = cur /\ (RefuseBatch \/ LaunchBatch \/ StopBatch \/ Finish \/ ExecutorCrash)
  <2>1. /\ pc # "done" /\ status = "ok" /\ okTotal = Last[cur - 1] /\ advice = "none"
        /\ NothingLost
    <3>1. pc # "done"
      BY <1>5 DEF RefuseBatch, LaunchBatch, MustRun, StopBatch, Returned, Finish, ExecutorCrash
    <3> QED BY <3>1 DEF RepeatInv, EndInv, TotalInv
  <2>2. NothingLost'
    BY <1>1, <1>5, <2>1 DEF NothingLost, Behind
  <2>3. HalfPersisted => HalfPersisted'
    BY <1>1, <1>5 DEF HalfPersisted, Holds, Behind, OkOps
  <2>4. router' = router => SessionInv' /\ SavedInv'
    <3> SUFFICES ASSUME router' = router PROVE SessionInv' /\ SavedInv'
      OBVIOUS
    <3>1. SessionInv /\ SavedInv
      BY DEF RepeatInv
    <3>2. /\ HoldsFresh(mem)' <=> HoldsFresh(mem)
          /\ Extends(mem)' <=> Extends(mem)
          /\ \A k : (OkBefore(k)' <=> OkBefore(k)) /\ (NoErrors(k)' <=> NoErrors(k))
          /\ BatchSaved' <=> BatchSaved
          /\ \A f : Proven(f)' <=> Proven(f)
      BY <1>1, <1>5
      DEF HoldsFresh, Behind, FreshOk, Extends, OkBefore, NoErrors, BatchSaved, Holds, OkOps,
          Proven
    <3>3. SessionInv'
      BY <1>1, <1>2, <1>5, <3>1, <3>2 DEF SessionInv
    <3>4. SavedInv'
      BY <1>1, <1>5, <3>1, <3>2 DEF SavedInv
    <3> QED BY <3>3, <3>4
  <2>5. CASE LaunchBatch
    <3>1. cur \in Batches /\ Front(cur - 1) /\ session = "none"
      BY <2>5, MustRunAtFront DEF LaunchBatch
    <3>2. /\ pc' = "running" /\ router' = "starting" /\ status' = status
          /\ advice' = advice /\ okTotal' = okTotal
      BY <2>5 DEF LaunchBatch
    <3>3. CursorInv' /\ SessionInv' /\ SavedInv' /\ ReturnInv'
      BY <1>1, <1>2, <1>3, <1>5, <3>1, <3>2 DEF CursorInv, SessionInv, SavedInv, ReturnInv
    <3>4. EndInv' /\ TotalInv'
      BY <1>5, <2>1, <3>2 DEF EndInv, TotalInv
    <3> QED BY <2>2, <3>3, <3>4 DEF RepeatInv
  <2>6. CASE RefuseBatch
    <3>1. cur \in Batches /\ Front(cur - 1)
      BY <2>6, MustRunAtFront DEF RefuseBatch
    <3>2. SomeFront'
      BY <1>2, <3>1, PlanRange DEF SomeFront
    <3>3. pc' = "done" /\ status' # "ok" /\ advice' = "refused" /\ router' = router
      BY <2>6 DEF RefuseBatch
    <3>4. CursorInv' /\ ReturnInv'
      BY <1>1, <1>3, <3>3 DEF CursorInv, ReturnInv
    <3>5. EndInv' /\ TotalInv'
      BY <3>2, <3>3 DEF EndInv, TotalInv
    <3> QED BY <2>2, <2>4, <3>3, <3>4, <3>5 DEF RepeatInv
  <2>7. CASE Finish
    <3>1. /\ pc = "batch" /\ cur = NB + 1 /\ cur - 1 = NB /\ pc' = "done" /\ status' = status
          /\ advice' = advice /\ okTotal' = okTotal /\ router' = router
      BY <2>7, PlanAssumption DEF Finish, TypeOK, ExecutorType
    <3>2. Front(NB)
      <4>1. PICK f \in 0 .. NB : f >= cur - 1 /\ Front(f)
        BY <3>1 DEF RepeatInv, CursorInv
      <4>2. f = NB
        BY <3>1, <4>1, PlanAssumption
      <4> QED BY <4>1, <4>2
    <3>3. CursorInv' /\ ReturnInv'
      BY <1>1, <1>3, <3>1 DEF CursorInv, ReturnInv
    <3>4. EndInv' /\ TotalInv'
      BY <1>2, <1>5, <2>1, <3>1, <3>2 DEF EndInv, TotalInv
    <3> QED BY <2>2, <2>4, <3>1, <3>3, <3>4 DEF RepeatInv
  <2>8. CASE StopBatch
    <3>1. /\ cur \in Batches /\ pc = "running" /\ router = "gone" /\ router' = router
          /\ ~Complete(envelope[cur]) /\ pc' = "done"
          /\ okTotal' = okTotal + Cardinality(OkOf(envelope[cur]))
          /\ advice' = StopAdvice(envelope[cur], OkOf(envelope[cur]))
      BY <2>8 DEF StopBatch, Returned, TypeOK, ExecutorType
    <3>2. /\ advice' \in {"half", "safe", "other"}
          /\ advice' = "half" => envelope[cur].qsave
          /\ advice' = "safe" => ~envelope[cur].qsave
      BY <3>1 DEF StopAdvice
    <3>3. status' # "ok"
      BY <2>8 DEF StopBatch
    <3>4. (~envelope[cur].qsave /\ Front(cur - 1)) \/ HalfPersisted
      BY <3>1 DEF RepeatInv, ReturnInv, Outcome
    <3>5. advice' = "half" => HalfPersisted'
      BY <2>3, <3>2, <3>4
    <3>6. advice' = "safe" => Front(cur - 1)'
      <4>1. advice' = "safe" => Front(cur - 1)
        BY <3>2, <3>4 DEF HalfPersisted
      <4> QED BY <1>1, <1>5, <4>1 DEF Front, Proven
    <3>7. EndInv'
      BY <1>5, <3>1, <3>2, <3>3, <3>5, <3>6 DEF EndInv
    <3>8. TotalInv'
      BY <1>1, <1>5, <2>1, <3>1, <3>2 DEF TotalInv, OkOf
    <3>9. CursorInv' /\ ReturnInv'
      BY <1>1, <1>3, <3>1 DEF CursorInv, ReturnInv
    <3> QED BY <2>2, <2>4, <3>1, <3>7, <3>8, <3>9 DEF RepeatInv
  <2>9. CASE ExecutorCrash
    <3>1. /\ pc \in {"batch", "running"} /\ pc' = "crashed" /\ router' = router
          /\ status' = status /\ advice' = advice /\ okTotal' = okTotal
      BY <2>9 DEF ExecutorCrash
    <3>2. caller = "resume_crashed" /\ router = "gone" => SomeFront
      <4> SUFFICES ASSUME caller = "resume_crashed", router = "gone" PROVE SomeFront
        OBVIOUS
      <4>1. CASE pc = "batch"
        BY <4>1 DEF RepeatInv, CursorInv, SomeFront
      <4>2. CASE pc = "running"
        <5>1. cur \in Batches /\ (Front(cur) \/ Front(cur - 1))
          BY <4>2 DEF RepeatInv, ReturnInv, Outcome, HalfPersisted, TypeOK, ExecutorType
        <5> QED BY <5>1, PlanRange DEF SomeFront
      <4> QED BY <3>1, <4>1, <4>2
    <3>3. SomeFront => SomeFront'
      BY <1>2 DEF SomeFront
    <3>4. CursorInv' /\ ReturnInv'
      BY <1>1, <1>3, <3>1, <3>2, <3>3 DEF CursorInv, ReturnInv
    <3>5. EndInv' /\ TotalInv'
      BY <1>5, <2>1, <3>1 DEF EndInv, TotalInv
    <3> QED BY <2>2, <2>4, <3>1, <3>4, <3>5 DEF RepeatInv
  <2> QED BY <1>5, <2>5, <2>6, <2>7, <2>8, <2>9
<1>6. RefuseBatch \/ LaunchBatch \/ StopBatch \/ Finish \/ ExecutorCrash => cur' = cur
  BY DEF RefuseBatch, LaunchBatch, StopBatch, Finish, ExecutorCrash
<1> QED BY <1>4, <1>5, <1>6 DEF Executor

-----------------------------------------------------------------------------
(* The router.                                                             *)

LEMMA RouterRepeat ==
  TypeOK /\ Patient /\ caller # "once" /\ RepeatInv /\ (Router \/ RouterKilled) => RepeatInv'
<1> SUFFICES ASSUME TypeOK, Patient, caller # "once", RepeatInv, Router \/ RouterKilled
             PROVE  RepeatInv'
  OBVIOUS
<1> USE DEF files, sess, exec
<1>1. /\ dwg' = dwg /\ result' = result /\ pc' = pc /\ cur' = cur /\ status' = status
      /\ okTotal' = okTotal /\ advice' = advice /\ resume' = resume /\ caller' = caller
  BY DEF Router, RouterRefuse, RouterStart, RouterTimeout, RouterCollect, RouterKilled
<1>2. cur \in Batches /\ pc \in {"running", "crashed"}
  BY DEF TypeOK, ExecutorType, Router, RouterRefuse, RouterStart, RouterTimeout,
         RouterCollect, RouterKilled
<1>3. NothingLost' /\ CursorInv' /\ EndInv' /\ TotalInv'
  <2>1. NothingLost'
    BY <1>1 DEF RepeatInv, NothingLost, Behind
  <2>2. CursorInv' /\ EndInv' /\ TotalInv'
    BY <1>1, <1>2 DEF RepeatInv, CursorInv, EndInv, TotalInv
  <2> QED BY <2>1, <2>2
<1>4. ~Admits("load_failure") /\ ~Admits("kill_after_save") /\ ~Admits("router_killed")
      /\ (Admits("router_refuses") => caller # "reapply_fresh")
  BY PatientCaller
<1>5. cur - 1 \in 0 .. NB /\ cur \in 0 .. NB /\ Last[cur - 1] \in Nat /\ Last[cur] \in Nat
      /\ Last[cur - 1] < Last[cur]
  BY <1>2, PlanRange
<1>6. CASE RouterRefuse
  <2>1. /\ router = "starting" /\ router' = "gone" /\ session' = session
        /\ envelope' = envelope /\ Admits("router_refuses")
    BY <1>6 DEF RouterRefuse
  <2>2. session = "none" /\ Front(cur - 1)
    BY <2>1 DEF RepeatInv, SessionInv
  <2>3. resume
    BY <1>4, <2>1 DEF RepeatInv, CursorInv
  <2>4. ~envelope[cur].qsave
    <3>1. ~(cur <= cur - 1)
      BY <1>2, PlanAssumption DEF Batches
    <3> QED BY <1>2, <2>2, <2>3, <3>1 DEF Front, Proven
  <2>5. Front(cur - 1)'
    BY <1>1, <2>1, <2>2 DEF Front, Proven
  <2>6. Outcome' /\ SomeFront'
    BY <1>1, <1>5, <2>1, <2>2, <2>4, <2>5 DEF Outcome, SomeFront, Front, Proven
  <2>7. SessionInv' /\ SavedInv' /\ ReturnInv'
    BY <2>1, <2>2, <2>6 DEF SessionInv, SavedInv, ReturnInv
  <2> QED BY <1>3, <2>7 DEF RepeatInv
<1>7. CASE RouterStart
  <2>1. /\ router = "starting" /\ router' = "waiting" /\ session' = "jobs" /\ sbatch' = cur
        /\ loaded' = TRUE
        /\ at' = Last[cur - 1] + 1 /\ mem' = dwg /\ envelope' = envelope
        /\ marker' = [marker EXCEPT ![cur] = FALSE]
    BY <1>4, <1>7 DEF RouterStart, Opened
  <2>2. Front(cur - 1)
    BY <2>1 DEF RepeatInv, SessionInv
  <2>3. dwg = FirstOps(Last[cur - 1]) /\ Proven(cur - 1)
    BY <2>2 DEF Front
  <2>4. ~marker'[cur]
    BY <1>2, <2>1 DEF TypeOK, DiskType
  <2>5. Proven(cur - 1)'
    BY <1>1, <2>1, <2>3 DEF Proven
  <2>6. at' \in Last[cur - 1] + 1 .. Last[cur] + 1 /\ at' - 1 = Last[cur - 1]
    BY <1>5, <2>1
  <2>7. \A i \in OpsOf(cur) : ~(i < at')
    BY <1>5, <2>1 DEF OpsOf
  <2>8. FreshOk' = {}
    BY <1>1, <2>7 DEF FreshOk
  <2>9. /\ InOrder(dwg) /\ Persisted(dwg) = 1 .. Last[cur - 1] /\ Len(dwg) = Last[cur - 1]
        /\ \A i \in 1 .. Last[cur - 1] : dwg[i] = i
    BY <1>5, <2>3, FirstOpsHold
  <2>10. HoldsFresh(mem)'
    BY <1>1, <2>1, <2>8, <2>9 DEF HoldsFresh, Behind
  <2>11. Extends(mem)'
    BY <1>1, <1>5, <2>1, <2>9 DEF Extends
  <2>12. NoErrors(at)'
    BY <1>1, <2>7 DEF NoErrors, OkBefore
  <2>13. SessionInv'
    BY <1>1, <2>1, <2>3, <2>4, <2>5, <2>6, <2>10, <2>11, <2>12 DEF SessionInv
  <2>14. SavedInv' /\ ReturnInv'
    BY <2>1 DEF SavedInv, ReturnInv
  <2> QED BY <1>3, <2>13, <2>14 DEF RepeatInv
<1>8. CASE RouterTimeout
  <2>1. /\ router = "waiting" /\ router' = "waiting" /\ session' = "none"
        /\ session \in {"jobs", "hung", "quit"} /\ marker' = marker /\ envelope' = envelope
    BY <1>4, <1>8 DEF RouterTimeout, Killable
  <2>2. SavedInv'
    <3>1. /\ Proven(cur - 1)
          /\ session \in {"jobs", "hung"} => dwg = FirstOps(Last[cur - 1]) /\ ~marker[cur]
          /\ session = "quit" => BatchSaved /\ marker[cur]
      BY <2>1 DEF RepeatInv, SessionInv
    <3>2. (Proven(cur - 1)' <=> Proven(cur - 1)) /\ (BatchSaved' <=> BatchSaved)
      BY <1>1, <2>1 DEF Proven, BatchSaved, Holds, Behind, OkOps, NoErrors, OkBefore
    <3> QED BY <1>1, <2>1, <3>1, <3>2 DEF SavedInv
  <2>3. SessionInv' /\ ReturnInv'
    BY <2>1 DEF SessionInv, ReturnInv
  <2> QED BY <1>3, <2>2, <2>3 DEF RepeatInv
<1>9. CASE RouterCollect
  <2>1. /\ router = "waiting" /\ router' = "gone" /\ session = "none" /\ session' = "none"
        /\ marker' = marker
        /\ envelope' = [envelope EXCEPT ![cur] =
             [st |-> EnvelopeStatus(OkOps(cur), cur), qsave |-> marker[cur], ok |-> OkOps(cur)]]
    BY <1>9 DEF RouterCollect
  <2>2. envelope'[cur] =
          [st |-> EnvelopeStatus(OkOps(cur), cur), qsave |-> marker[cur], ok |-> OkOps(cur)]
    BY <1>2, <2>1 DEF TypeOK, DiskType
  <2>3. \A b \in Batches : b # cur => envelope'[b] = envelope[b]
    BY <2>1 DEF TypeOK, DiskType
  <2>4. Proven(cur - 1) /\ (IF marker[cur] THEN BatchSaved ELSE dwg = FirstOps(Last[cur - 1]))
    BY <2>1 DEF RepeatInv, SavedInv
  <2>5. /\ \A b \in Batches : b <= cur - 1 => b # cur /\ b <= cur
        /\ \A b \in Batches : ~(b <= cur - 1) => b = cur \/ ~(b <= cur)
        /\ \A b \in Batches : b <= cur => b = cur \/ b <= cur - 1
        /\ \A b \in Batches : ~(b <= cur) => b # cur /\ ~(b <= cur - 1)
    BY <1>2, PlanAssumption DEF Batches
  <2>6. CASE ~marker[cur]
    <3>1. ~envelope'[cur].qsave
      BY <2>2, <2>6
    <3>2. Proven(cur - 1)'
      BY <1>1, <2>3, <2>4, <2>5, <3>1 DEF Proven
    <3>3. Front(cur - 1)'
      BY <1>1, <2>4, <2>6, <3>2 DEF Front
    <3> QED
      <4>1. Outcome'
        BY <1>1, <3>1, <3>3 DEF Outcome
      <4>2. SomeFront'
        <5>1. PICK f \in 0 .. NB : f = cur - 1
          BY <1>5
        <5>2. Front(f)'
          BY <1>1, <3>3, <5>1 DEF Front, Proven
        <5> QED BY <5>2 DEF SomeFront
      <4>3. SessionInv' /\ SavedInv' /\ ReturnInv'
        BY <2>1, <4>1, <4>2 DEF SessionInv, SavedInv, ReturnInv
      <4> QED BY <1>3, <4>3 DEF RepeatInv
  <2>7. CASE marker[cur] /\ OkOps(cur) = OpsOf(cur)
    <3>1. OkBefore(N + 1)
      BY <2>7 DEF OkOps, OkBefore
    <3>2. dwg = FirstOps(Last[cur])
      BY <2>4, <2>7, <3>1 DEF BatchSaved
    <3>3. Complete(envelope'[cur]) /\ envelope'[cur].ok = OpsOf(cur)
      BY <2>2, <2>7 DEF Complete, EnvelopeStatus
    <3>4. Proven(cur)'
      BY <1>1, <2>3, <2>4, <2>5, <3>3 DEF Proven
    <3>5. Front(cur)'
      BY <1>1, <3>2, <3>4 DEF Front
    <3> QED
      <4>1. Outcome'
        <5>1. OpsOf(cur)' = OpsOf(cur)
          BY <1>1 DEF OpsOf
        <5> QED BY <1>1, <3>3, <3>5, <5>1 DEF Outcome
      <4>2. SomeFront'
        <5>1. PICK f \in 0 .. NB : f = cur
          BY <1>5
        <5>2. Front(f)'
          BY <1>1, <3>5, <5>1 DEF Front, Proven
        <5> QED BY <5>2 DEF SomeFront
      <4>3. SessionInv' /\ SavedInv' /\ ReturnInv'
        BY <2>1, <4>1, <4>2 DEF SessionInv, SavedInv, ReturnInv
      <4> QED BY <1>3, <4>3 DEF RepeatInv
  <2>8. CASE marker[cur] /\ OkOps(cur) # OpsOf(cur)
    <3>1. ~OkBefore(N + 1)
      <4>1. \A i \in OpsOf(cur) : i < N + 1
        BY <1>2, PlanRange, PlanAssumption DEF Ops
      <4> QED BY <2>8, <4>1 DEF OkOps, OkBefore
    <3>2. caller # "resume_crashed" /\ Holds(dwg)
      BY <2>4, <2>8, <3>1 DEF BatchSaved, NoErrors
    <3>3. envelope'[cur].qsave /\ ~Complete(envelope'[cur]) /\ envelope'[cur].ok = OkOps(cur)
      BY <2>2, <2>8 DEF Complete, EnvelopeStatus
    <3>4. HalfPersisted'
      BY <1>1, <3>2, <3>3 DEF HalfPersisted, Holds, Behind, OkOps
    <3>5. SessionInv' /\ SavedInv' /\ ReturnInv'
      BY <1>1, <2>1, <3>2, <3>4 DEF SessionInv, SavedInv, ReturnInv, Outcome
    <3> QED BY <1>3, <3>5 DEF RepeatInv
  <2> QED BY <2>6, <2>7, <2>8
<1>10. ~RouterKilled
  BY <1>4 DEF RouterKilled
<1> QED BY <1>6, <1>7, <1>8, <1>9, <1>10 DEF Router

-----------------------------------------------------------------------------
(* The session.                                                            *)

\* An operation that is done joins the fresh results, or not, by its own outcome
\* alone; older results of the batch are behind or ahead of it.
LEMMA FreshGrows ==
  ASSUME TypeOK, NEW S, session = "jobs", cur' = cur, cur \in Batches, at \in OpsOf(cur),
         at' = at + 1,
         \/ result' = [result EXCEPT ![at] = "ok"] /\ S = {at}
         \/ result' = [result EXCEPT ![at] = "error"] /\ S = {}
  PROVE  /\ FreshOk' = FreshOk \cup S
         /\ OkBefore(at)' <=> OkBefore(at) /\ S = {at}
<1>1. Last[cur - 1] \in Nat /\ Last[cur] \in Nat /\ OpsOf(cur) \subseteq Ops
  BY PlanRange
<1>2. at \in Nat /\ \A i \in OpsOf(cur) : i \in Nat
  BY <1>1 DEF OpsOf
<1>3. \A i \in OpsOf(cur) : i < at' <=> (i < at \/ i = at)
  BY <1>2
<1>4. \A i \in OpsOf(cur) : i < at => i # at
  BY <1>2
<1>5. \A i \in Ops : i # at => result'[i] = result[i]
  BY DEF TypeOK, DiskType
<1>6. (result'[at] = "ok" /\ S = {at}) \/ (result'[at] = "error" /\ S = {})
  BY <1>1 DEF TypeOK, DiskType
<1>7. OpsOf(cur)' = OpsOf(cur)
  BY DEF OpsOf
<1>8. FreshOk' = FreshOk \cup S
  BY <1>1, <1>3, <1>4, <1>5, <1>6, <1>7 DEF FreshOk
<1>9. OkBefore(at)' <=> OkBefore(at) /\ S = {at}
  BY <1>1, <1>3, <1>4, <1>5, <1>6, <1>7 DEF OkBefore
<1> QED BY <1>8, <1>9

LEMMA JobRepeat ==
  TypeOK /\ Patient /\ caller # "once" /\ RepeatInv /\ (JobOk \/ JobError \/ JobUnknown)
    => SessionInv'
<1> SUFFICES ASSUME TypeOK, Patient, caller # "once", RepeatInv, JobOk \/ JobError \/ JobUnknown
             PROVE  SessionInv'
  OBVIOUS
<1> USE DEF files, sess, exec
<1>1. /\ pc' = pc /\ cur' = cur /\ caller' = caller /\ resume' = resume /\ router' = router
      /\ envelope' = envelope /\ marker' = marker /\ dwg' = dwg /\ sbatch' = sbatch
      /\ loaded' = loaded /\ session = "jobs" /\ session' = "jobs"
  BY DEF JobOk, JobError, JobUnknown
<1>2. /\ router = "waiting" /\ sbatch = cur /\ loaded /\ Proven(cur - 1)
      /\ at \in Last[cur - 1] + 1 .. Last[cur] + 1
      /\ dwg = FirstOps(Last[cur - 1]) /\ ~marker[cur]
      /\ HoldsFresh(mem) /\ Extends(mem)
      /\ NoErrors(at) /\ (OkBefore(at) => mem = FirstOps(at - 1))
  BY <1>1 DEF RepeatInv, SessionInv
<1>3. cur \in Batches
  BY <1>2 DEF TypeOK, SessionType
<1>4. Last[cur - 1] \in Nat /\ Last[cur] \in Nat /\ Last[cur - 1] < Last[cur] /\ OpsOf(cur) \subseteq Ops
  BY <1>3, PlanRange
<1>5. at <= Last[cur] /\ at' = at + 1 /\ ~JobUnknown
  BY <1>2 DEF JobOk, JobError, JobUnknown
<1>6. at \in OpsOf(cur) /\ at \in Ops /\ at \in Nat /\ at - 1 \in Nat /\ at' - 1 = at
      /\ at' \in Last[cur - 1] + 1 .. Last[cur] + 1
  BY <1>2, <1>4, <1>5 DEF OpsOf
<1>7. Proven(cur - 1)'
  BY <1>1, <1>2 DEF Proven
<1>8. CASE JobOk
  <2>1. mem' = Append(mem, at) /\ result' = [result EXCEPT ![at] = "ok"]
    BY <1>8 DEF JobOk
  <2>2. FreshOk' = FreshOk \cup {at} /\ (OkBefore(at)' <=> OkBefore(at))
    BY <1>1, <1>3, <1>5, <1>6, <2>1, FreshGrows
  <2>3. \A y \in Persisted(mem) : y < at
    BY <1>2, <1>4, <1>6 DEF HoldsFresh, Behind, FreshOk
  <2>4. mem \in Seq(Ops)
    BY DEF TypeOK, SessionType
  <2>5. /\ InOrder(Append(mem, at)) /\ Persisted(Append(mem, at)) = Persisted(mem) \cup {at}
        /\ Len(Append(mem, at)) = Len(mem) + 1
        /\ \A i \in 1 .. Len(mem) + 1 :
             Append(mem, at)[i] = IF i <= Len(mem) THEN mem[i] ELSE at
    BY <1>2, <1>6, <2>3, <2>4, AppendInOrder DEF HoldsFresh
  <2>6. HoldsFresh(mem)'
    BY <1>1, <1>2, <2>1, <2>2, <2>5 DEF HoldsFresh, Behind
  <2>7. Extends(mem)'
    <3>1. PICK n \in Nat : n = Len(mem)
      BY <2>4
    <3>2. PICK e : e = Append(mem, at)
      OBVIOUS
    <3>3. Len(e) = n + 1 /\ n >= Last[cur - 1]
      BY <1>2, <2>5, <3>1, <3>2 DEF Extends
    <3>4. \A i \in 1 .. n :
            IF i <= Last[cur - 1] THEN mem[i] = i ELSE mem[i] \in OpsOf(cur)
      BY <1>2, <3>1 DEF Extends
    <3>5. \A i \in 1 .. n + 1 : e[i] = IF i <= n THEN mem[i] ELSE at
      BY <2>5, <3>1, <3>2
    <3>6. \A i \in 1 .. n + 1 :
            IF i <= Last[cur - 1] THEN e[i] = i ELSE e[i] \in OpsOf(cur)
      BY <1>4, <1>6, <3>3, <3>4, <3>5
    <3> QED BY <1>1, <1>4, <2>1, <3>2, <3>3, <3>6 DEF Extends, OpsOf
  <2>8. NoErrors(at)'
    BY <1>1, <1>2, <2>2 DEF NoErrors
  <2>9. OkBefore(at)' => mem' = FirstOps(at' - 1)
    <3>1. Append(FirstOps(at - 1), (at - 1) + 1) = FirstOps((at - 1) + 1)
      BY <1>6, FirstOpsGrow
    <3>2. (at - 1) + 1 = at
      BY <1>6
    <3>3. OkBefore(at)' => mem' = FirstOps(at)
      BY <1>2, <2>1, <2>2, <3>1, <3>2
    <3> QED BY <1>6, <3>3
  <2> QED BY <1>1, <1>2, <1>6, <1>7, <2>6, <2>7, <2>8, <2>9 DEF SessionInv
<1>9. CASE JobError
  <2>1. mem' = mem /\ result' = [result EXCEPT ![at] = "error"] /\ Admits("op_error")
    BY <1>9 DEF JobError
  <2>2. FreshOk' = FreshOk \cup {} /\ ~OkBefore(at)'
    <3>1. PICK S : S = {}
      OBVIOUS
    <3>2. FreshOk' = FreshOk \cup S /\ (OkBefore(at)' <=> OkBefore(at) /\ S = {at})
      BY <1>1, <1>3, <1>5, <1>6, <2>1, <3>1, FreshGrows
    <3>3. S # {at}
      BY <3>1
    <3> QED BY <3>1, <3>2, <3>3
  <2>3. caller # "resume_crashed"
    BY <2>1, PatientCaller
  <2>4. HoldsFresh(mem)' /\ Extends(mem)'
    BY <1>1, <1>2, <2>1, <2>2 DEF HoldsFresh, Behind, Extends, OpsOf
  <2>5. NoErrors(at)'
    BY <1>1, <2>3 DEF NoErrors
  <2> QED BY <1>1, <1>2, <1>6, <1>7, <2>2, <2>4, <2>5 DEF SessionInv
<1> QED BY <1>5, <1>8, <1>9

LEMMA SessionRepeat ==
  TypeOK /\ Patient /\ caller # "once" /\ RepeatInv /\ (Session \/ JobHangs \/ SessionDies)
    => RepeatInv'
<1> SUFFICES ASSUME TypeOK, Patient, caller # "once", RepeatInv, Session \/ JobHangs \/ SessionDies
             PROVE  RepeatInv'
  OBVIOUS
<1> USE DEF files, sess, exec
<1>1. /\ pc' = pc /\ cur' = cur /\ status' = status /\ advice' = advice /\ okTotal' = okTotal
      /\ envelope' = envelope /\ caller' = caller /\ resume' = resume /\ router' = router
      /\ sbatch' = sbatch /\ loaded' = loaded
  BY DEF Session, JobOk, JobError, JobUnknown, SaveDwg, WriteMarker, Quit, JobHangs,
         SessionDies
<1>2. session # "none"
  BY DEF Session, JobOk, JobError, JobUnknown, SaveDwg, WriteMarker, Quit, JobHangs,
         SessionDies, Killable
<1>3. /\ router = "waiting" /\ sbatch = cur /\ loaded /\ Proven(cur - 1)
      /\ at \in Last[cur - 1] + 1 .. Last[cur] + 1
  BY <1>2 DEF RepeatInv, SessionInv
<1>4. cur \in Batches /\ pc \in {"running", "crashed"}
  BY <1>3 DEF TypeOK, SessionType, ExecutorType
<1>5. Last[cur - 1] \in Nat /\ Last[cur] \in Nat /\ Last[cur - 1] < Last[cur] /\ Last[cur] <= N
      /\ OpsOf(cur) \subseteq Ops
  BY <1>4, PlanRange
<1>6. CursorInv' /\ ReturnInv' /\ EndInv' /\ TotalInv'
  BY <1>1, <1>3, <1>4 DEF RepeatInv, CursorInv, ReturnInv, EndInv, TotalInv
<1>7. Proven(cur - 1)'
  BY <1>1, <1>3 DEF Proven
<1>8. CASE JobOk \/ JobError \/ JobUnknown
  <2>1. dwg' = dwg /\ session' = "jobs"
    BY <1>8 DEF JobOk, JobError, JobUnknown
  <2>2. NothingLost' /\ SavedInv'
    BY <1>1, <2>1 DEF RepeatInv, NothingLost, Behind, SavedInv
  <2> QED BY <1>6, <1>8, <2>2, JobRepeat DEF RepeatInv
<1>9. CASE SaveDwg
  <2>1. /\ session = "jobs" /\ session' = "saved" /\ dwg' = mem /\ result' = result
        /\ marker' = marker /\ at' = at /\ mem' = mem /\ at > Last[cur]
    BY <1>3, <1>9 DEF SaveDwg
  <2>2. HoldsFresh(mem) /\ NoErrors(at) /\ (OkBefore(at) => mem = FirstOps(at - 1))
    BY <2>1 DEF RepeatInv, SessionInv
  <2>3. at = Last[cur] + 1 /\ at - 1 = Last[cur]
    BY <1>3, <1>5, <2>1
  <2>4. \A i \in OpsOf(cur) : i < at /\ i < N + 1
    BY <1>5, <2>3, PlanAssumption DEF OpsOf
  <2>5. FreshOk = OkOps(cur) /\ (OkBefore(at) <=> OkBefore(N + 1))
    BY <2>4 DEF FreshOk, OkOps, OkBefore
  <2>6. OkOps(cur)' = OkOps(cur) /\ (OkBefore(N + 1)' <=> OkBefore(N + 1)) /\ Behind' = Behind
    BY <1>1, <2>1 DEF OkOps, OkBefore, OpsOf, Behind
  <2>7. BatchSaved'
    <3>1. Holds(dwg)'
      BY <2>1, <2>2, <2>5, <2>6 DEF HoldsFresh, Holds, InOrder, Persisted
    <3>2. NoErrors(N + 1)'
      BY <1>1, <2>2, <2>5, <2>6 DEF NoErrors
    <3>3. OkBefore(N + 1)' => dwg' = FirstOps(Last[cur'])
      BY <1>1, <2>1, <2>2, <2>3, <2>5, <2>6
    <3> QED BY <3>1, <3>2, <3>3 DEF BatchSaved
  <2>8. NothingLost'
    BY <2>7 DEF BatchSaved, Holds, NothingLost
  <2>9. SessionInv' /\ SavedInv'
    BY <1>1, <1>3, <1>7, <2>1, <2>7 DEF SessionInv, SavedInv
  <2> QED BY <1>6, <2>8, <2>9 DEF RepeatInv
<1>10. CASE WriteMarker \/ Quit \/ JobHangs \/ SessionDies
  <2>1. dwg' = dwg /\ result' = result /\ at' = at /\ mem' = mem
    BY <1>10 DEF WriteMarker, Quit, JobHangs, SessionDies
  <2>2. NothingLost'
    BY <1>1, <2>1 DEF RepeatInv, NothingLost, Behind
  <2>3. /\ BatchSaved' <=> BatchSaved
        /\ HoldsFresh(mem)' <=> HoldsFresh(mem)
        /\ Extends(mem)' <=> Extends(mem)
        /\ NoErrors(at)' <=> NoErrors(at)
        /\ OkBefore(at)' <=> OkBefore(at)
    BY <1>1, <2>1
    DEF BatchSaved, HoldsFresh, Extends, NoErrors, OkBefore, Holds, Behind, OkOps, FreshOk, OpsOf
  <2>4. CASE WriteMarker
    <3>1. /\ session = "saved" /\ session' = "quit"
          /\ marker' = [marker EXCEPT ![cur] = TRUE]
      BY <1>3, <2>4 DEF WriteMarker
    <3>2. BatchSaved /\ marker'[cur]
      BY <1>4, <3>1 DEF RepeatInv, SessionInv, TypeOK, DiskType
    <3>3. SessionInv' /\ SavedInv'
      BY <1>1, <1>3, <1>7, <2>1, <2>3, <3>1, <3>2 DEF SessionInv, SavedInv
    <3> QED BY <1>6, <2>2, <3>3 DEF RepeatInv
  <2>5. CASE JobHangs
    <3>1. session = "jobs" /\ session' = "hung" /\ marker' = marker
      BY <2>5 DEF JobHangs
    <3>2. /\ dwg = FirstOps(Last[cur - 1]) /\ ~marker[cur]
          /\ HoldsFresh(mem) /\ Extends(mem)
          /\ NoErrors(at) /\ (OkBefore(at) => mem = FirstOps(at - 1))
      BY <3>1 DEF RepeatInv, SessionInv
    <3>3. SessionInv' /\ SavedInv'
      BY <1>1, <1>3, <1>7, <2>1, <2>3, <3>1, <3>2 DEF SessionInv, SavedInv
    <3> QED BY <1>6, <2>2, <3>3 DEF RepeatInv
  <2>6. CASE Quit \/ SessionDies
    <3>1. session \in {"jobs", "hung", "quit"} /\ session' = "none" /\ marker' = marker
      BY <2>6, PatientCaller DEF Quit, SessionDies, Killable
    <3>2. /\ session \in {"jobs", "hung"} => dwg = FirstOps(Last[cur - 1]) /\ ~marker[cur]
          /\ session = "quit" => BatchSaved /\ marker[cur]
      BY <3>1 DEF RepeatInv, SessionInv
    <3>3. SavedInv'
      BY <1>1, <1>7, <2>1, <2>3, <3>1, <3>2 DEF SavedInv
    <3>4. SessionInv'
      BY <1>1, <1>3, <3>1 DEF SessionInv
    <3> QED BY <1>6, <2>2, <3>3, <3>4 DEF RepeatInv
  <2> QED BY <1>10, <2>4, <2>5, <2>6
<1> QED BY <1>8, <1>9, <1>10 DEF Session

LEMMA StutterRepeat == RepeatInv /\ UNCHANGED vars => RepeatInv'
<1> SUFFICES ASSUME RepeatInv, UNCHANGED vars PROVE RepeatInv'
  OBVIOUS
<1> USE DEF vars, files, sess, exec
<1>1. /\ BatchSaved' <=> BatchSaved
      /\ HoldsFresh(mem)' <=> HoldsFresh(mem)
      /\ Extends(mem)' <=> Extends(mem)
      /\ NoErrors(at)' <=> NoErrors(at)
      /\ OkBefore(at)' <=> OkBefore(at)
      /\ HalfPersisted' <=> HalfPersisted
  BY DEF BatchSaved, HoldsFresh, Extends, NoErrors, OkBefore, HalfPersisted, Holds, Behind,
         OkOps, FreshOk, OpsOf
<1>2. \A f : (Front(f)' <=> Front(f)) /\ (Proven(f)' <=> Proven(f))
  BY DEF Front, Proven
<1>3. (SomeFront' <=> SomeFront) /\ (Proven(cur - 1)' <=> Proven(cur - 1))
      /\ (Front(cur - 1)' <=> Front(cur - 1)) /\ (Front(cur)' <=> Front(cur))
      /\ OpsOf(cur)' = OpsOf(cur)
  BY DEF SomeFront, Front, Proven, OpsOf
<1>4. NothingLost' /\ CursorInv'
  BY <1>2 DEF RepeatInv, NothingLost, Behind, CursorInv
<1>5. SessionInv'
  BY <1>1, <1>3 DEF RepeatInv, SessionInv
<1>6. SavedInv' /\ ReturnInv'
  BY <1>1, <1>3 DEF RepeatInv, SavedInv, ReturnInv, Outcome
<1>7. EndInv'
  BY <1>1, <1>2, <1>3 DEF RepeatInv, EndInv
<1>8. TotalInv'
  BY DEF RepeatInv, TotalInv, OkOf, OpsOf
<1> QED BY <1>4, <1>5, <1>6, <1>7, <1>8 DEF RepeatInv

-----------------------------------------------------------------------------
(* Theorems.                                                               *)

LEMMA CallerStays == [Next]_vars => caller' = caller
BY DEF Next, vars, files, sess, exec, Caller, FirstCall, ResumeCall, ReapplyCall, StartCall,
       Executor, SkipBatch, RefuseBatch, LaunchBatch, AcceptBatch, StopBatch, Finish,
       Router, RouterRefuse, RouterStart, RouterTimeout, RouterCollect,
       Session, JobOk, JobError, JobUnknown, SaveDwg, WriteMarker, Quit,
       Faulty, ExecutorCrash, RouterKilled, JobHangs, SessionDies

LEMMA StepKeepsCaller == Patient /\ TypeOK /\ CallerInv /\ [Next]_vars => CallerInv'
<1> SUFFICES ASSUME Patient, TypeOK, CallerInv, [Next]_vars PROVE CallerInv'
  OBVIOUS
<1>1. caller' = caller
  BY CallerStays
<1>2. CASE caller = "once"
  <2>1. calls <= 1
    BY <1>2 DEF CallerInv
  <2>2. CASE Caller
    <3>1. FirstCall
      BY <1>2, <2>2 DEF Caller, ResumeCall, ReapplyCall
    <3>2. calls = 0 /\ calls' = calls + 1
      BY <3>1 DEF FirstCall, StartCall, TypeOK, ExecutorType
    <3> QED BY <1>1, <1>2, <3>2 DEF CallerInv
  <2>3. CASE ~Caller
    BY <1>1, <1>2, <2>1, <2>3, CallsGrow DEF CallerInv
  <2> QED BY <2>2, <2>3
<1>3. CASE caller # "once"
  <2>1. RepeatInv
    BY <1>3 DEF CallerInv
  <2>2. RepeatInv'
    BY <1>3, <2>1, CallerRepeat, ExecutorRepeat, RouterRepeat, SessionRepeat, StutterRepeat
    DEF Next, Faulty
  <2> QED BY <1>1, <1>3, <2>2 DEF CallerInv
<1> QED BY <1>2, <1>3

\* Whoever calls again in a way that survives the faults it may meet finds files
\* that tell the truth about the drawing it resumes on.
THEOREM RepeatedCallsInvariant == Patient => (Spec => []CallerInv)
<1> SUFFICES ASSUME Patient PROVE Spec => []CallerInv
  OBVIOUS
<1>1. TypeOK /\ CallerInv /\ [Next]_vars => CallerInv'
  BY StepKeepsCaller
<1> QED BY InitRepeat, <1>1, TypeCorrect, PTL DEF Spec

\* An "ok" report means the whole patch, over any number of calls.
THEOREM RepeatedCallsCorrect == Patient => (Spec => []OkMeansApplied)
<1> SUFFICES ASSUME Patient PROVE Spec => []OkMeansApplied
  OBVIOUS
<1>1. RepeatInv => OkMeansApplied
  BY PlanAssumption DEF RepeatInv, EndInv, Front, OkMeansApplied
<1>2. CallerInv /\ (calls <= 1 => OkMeansApplied) => OkMeansApplied
  BY <1>1 DEF CallerInv
<1> QED BY <1>2, RepeatedCallsInvariant, FirstCallCorrect, PTL

\* A batch the executor goes by, run or skipped, is in the staged DWG.
THEOREM RepeatedCallsPassPersisted == Patient => (Spec => []PassMeansPersisted)
<1> SUFFICES ASSUME Patient PROVE Spec => []PassMeansPersisted
  OBVIOUS
<1>1. TypeOK /\ RepeatInv => PassMeansPersisted
  BY NothingLostPasses DEF RepeatInv
<1>2. TypeOK /\ CallerInv /\ (calls <= 1 => PassMeansPersisted) => PassMeansPersisted
  BY <1>1 DEF CallerInv
<1> QED BY <1>2, TypeCorrect, RepeatedCallsInvariant, FirstCallPassPersisted, PTL

\* The counts and the operations a report names are those in the staged DWG.
THEOREM RepeatedCallsReportExact == Patient => (Spec => []ReportExact)
<1> SUFFICES ASSUME Patient PROVE Spec => []ReportExact
  OBVIOUS
<1>1. ASSUME TypeOK, RepeatInv PROVE ReportExact
  <2>1. ASSUME pc = "done", advice = "none" PROVE okTotal = Len(dwg)
    <3>1. okTotal = N /\ dwg = FirstOps(N) /\ N \in Nat
      BY <1>1, <2>1, PlanAssumption DEF RepeatInv, EndInv, TotalInv, Front
    <3> QED BY <3>1, FirstOpsHold
  <2>2. ASSUME pc = "done", advice = "half"
        PROVE  /\ okTotal = Len(dwg) /\ InOrder(dwg)
               /\ Persisted(dwg) =
                    (1 .. Last[cur - 1]) \cup (envelope[cur].ok \cap OpsOf(cur))
    <3>1. /\ cur \in Batches /\ envelope[cur].ok = OkOps(cur) /\ Holds(dwg)
          /\ okTotal = Last[cur - 1] + Cardinality(OkOf(envelope[cur]))
      BY <1>1, <2>2 DEF RepeatInv, EndInv, TotalInv, HalfPersisted
    <3> QED BY <1>1, <3>1, HalfIsExact
  <2> QED BY <2>1, <2>2 DEF ReportExact
<1>2. TypeOK /\ CallerInv /\ (calls <= 1 => ReportExact) => ReportExact
  BY <1>1 DEF CallerInv
<1> QED BY <1>2, TypeCorrect, RepeatedCallsInvariant, FirstCallReportExact, PTL

\* No operation is persisted twice or out of order, whoever calls again.
THEOREM RepeatedCallsAppliedOnce == Patient => (Spec => []NeverAppliedTwice)
<1> SUFFICES ASSUME Patient PROVE Spec => []NeverAppliedTwice
  OBVIOUS
<1>1. RepeatInv => NeverAppliedTwice
  BY DEF RepeatInv, NothingLost, NeverAppliedTwice
<1>2. CallerInv /\ (calls <= 1 => NeverAppliedTwice) => NeverAppliedTwice
  BY <1>1 DEF CallerInv
<1> QED BY <1>2, RepeatedCallsInvariant, FirstCallAppliedOnce, PTL

\* "Safe to re-run" is true for every caller that calls again.
THEOREM RepeatedCallsSafe ==
  Patient => (Spec => [](~Admits("kill_after_save") => SafeMeansUnchanged))
<1> SUFFICES ASSUME Patient
             PROVE  Spec => [](~Admits("kill_after_save") => SafeMeansUnchanged)
  OBVIOUS
<1>1. ASSUME TypeOK, RepeatInv PROVE SafeMeansUnchanged
  <2> SUFFICES ASSUME pc = "done", advice = "safe" PROVE Persisted(dwg) \cap OpsOf(cur) = {}
    BY DEF SafeMeansUnchanged
  <2>1. cur \in Batches /\ dwg = FirstOps(Last[cur - 1])
    BY <1>1 DEF RepeatInv, EndInv, Front
  <2>2. Last[cur - 1] \in Nat
    BY <2>1, PlanRange
  <2>3. Persisted(dwg) = 1 .. Last[cur - 1]
    BY <2>1, <2>2, FirstOpsHold
  <2> QED BY <2>2, <2>3 DEF OpsOf
<1>2. TypeOK /\ CallerInv /\ (calls <= 1 /\ ~Admits("kill_after_save") => SafeMeansUnchanged)
        => (~Admits("kill_after_save") => SafeMeansUnchanged)
  BY <1>1 DEF CallerInv
<1> QED BY <1>2, TypeCorrect, RepeatedCallsInvariant, FirstCallSafe, PTL

\* A later call persists, accepts and stops as StagedPatch allows.
LEMMA RepeatKeepsPromise ==
  TypeOK /\ Patient /\ caller # "once" /\ RepeatInv /\ [Next]_vars
    => [Promise!Next]_Promise!vars
<1> SUFFICES ASSUME TypeOK, Patient, caller # "once", RepeatInv, [Next]_vars
             PROVE  [Promise!Next]_Promise!vars
  OBVIOUS
<1> USE DEF Promise!vars, files, sess, exec
<1>1. CASE UNCHANGED vars
  BY <1>1 DEF vars
<1>2. CASE Caller
  <2>1. pc' = "batch" /\ dwg' \in {dwg, << >>}
    BY <1>2 DEF Caller, FirstCall, ResumeCall, ReapplyCall, StartCall
  <2> QED BY <2>1 DEF Promise!Next, Promise!Reopen
<1>3. CASE Finish
  <2>1. RepeatInv'
    BY <1>3, ExecutorRepeat DEF Executor
  <2>2. dwg' = dwg /\ pc = "batch" /\ pc' = "done" /\ status' = "ok"
    BY <1>3 DEF Finish, RepeatInv, EndInv
  <2>3. dwg = FirstOps(N)
    BY <2>1, <2>2, PlanAssumption DEF RepeatInv, EndInv, Front
  <2>4. dwg = Promise!Whole(N)
    BY <2>3 DEF FirstOps, Promise!Whole
  <2> QED BY <2>2, <2>4 DEF Promise!Next, Promise!Accept
<1>4. CASE RefuseBatch \/ StopBatch
  <2>1. dwg' = dwg /\ pc # "done" /\ pc' = "done" /\ status' # "ok"
    BY <1>4 DEF RefuseBatch, MustRun, StopBatch, Returned
  <2> QED BY <2>1 DEF Promise!Next, Promise!Stop
<1>5. CASE SaveDwg
  <2>1. session = "jobs"
    BY <1>5 DEF SaveDwg
  <2>2. /\ router = "waiting" /\ dwg = FirstOps(Last[cur - 1])
        /\ InOrder(mem) /\ Extends(mem)
    BY <2>1 DEF RepeatInv, SessionInv, HoldsFresh
  <2>3. cur \in Batches /\ (pc = "done" => status # "ok")
    BY <2>2 DEF TypeOK, ExecutorType
  <2> QED BY <1>5, <2>2, <2>3, SavePersists
<1>6. CASE SkipBatch \/ LaunchBatch \/ AcceptBatch \/ ExecutorCrash
  <2>1. dwg' = dwg /\ pc # "done" /\ pc' # "done"
    BY <1>6 DEF SkipBatch, LaunchBatch, MustRun, AcceptBatch, Returned, ExecutorCrash
  <2> QED BY <2>1
<1>7. CASE Router \/ RouterKilled
  <2>1. dwg' = dwg /\ pc' = pc /\ status' = status
    BY <1>7 DEF Router, RouterRefuse, RouterStart, RouterTimeout, RouterCollect, RouterKilled
  <2> QED BY <2>1
<1>8. CASE JobOk \/ JobError \/ JobUnknown \/ WriteMarker \/ Quit \/ JobHangs \/ SessionDies
  <2>1. dwg' = dwg /\ pc' = pc /\ status' = status
    BY <1>8 DEF JobOk, JobError, JobUnknown, WriteMarker, Quit, JobHangs, SessionDies
  <2> QED BY <2>1
<1> QED BY <1>1, <1>2, <1>3, <1>4, <1>5, <1>6, <1>7, <1>8
        DEF Next, Executor, Session, Faulty

\* The lane implements StagedPatch over any number of calls.
THEOREM RepeatedCallsKeepPromise == Patient => (Spec => PromiseKept)
<1> SUFFICES ASSUME Patient PROVE Spec => PromiseKept
  OBVIOUS
<1>1. Init => Promise!Init
  BY DEF Init, Promise!Init
<1>2. TypeOK /\ CallerInv /\ CallerInv' /\ FirstCallInv /\ ExactCallInv /\ [Next]_vars
        => [Promise!Next]_Promise!vars
  <2> SUFFICES ASSUME TypeOK, CallerInv, CallerInv', FirstCallInv, ExactCallInv, [Next]_vars
               PROVE  [Promise!Next]_Promise!vars
    OBVIOUS
  <2>1. CASE caller = "once"
    <3>1. calls <= 1 /\ calls' <= 1
      BY <2>1, CallerStays DEF CallerInv
    <3> QED BY <3>1, StepKeepsPromise DEF FirstCallInv, ExactCallInv
  <2>2. CASE caller # "once"
    BY <2>2, RepeatKeepsPromise DEF CallerInv
  <2> QED BY <2>1, <2>2
<1> QED BY <1>1, <1>2, TypeCorrect, RepeatedCallsInvariant, FirstCallInvariant, FirstCallExact,
           PTL DEF Spec, PromiseKept, Promise!Spec

-----------------------------------------------------------------------------
(* The handle ledger, under the same callers.                              *)

\* What is known of the lane, whoever calls.
LaneKnown == TypeOK /\ CallerInv /\ FirstCallInv /\ ExactCallInv

\* An entity: its handle, 0 for a relinked hatch, and what it refers to.
EntityType == [handle : Nat, refs : SUBSET (Ops \X Nat)]

LedgerType ==
  /\ links \in LinkPlans
  /\ pairs \in [Ops -> Nat] /\ given \in [Ops -> Nat] /\ job \in [Ops -> Nat]
  /\ ents \in Seq(EntityType) /\ ments \in Seq(EntityType)

\* Every reference is to an entity of the drawing d, by the handle it has there.
RefersRight(d, es) ==
  \A k \in DOMAIN es : \A r \in es[k].refs :
    \E m \in DOMAIN es : d[m] = r[1] /\ es[m].handle = r[2]

HasTop(es) == \E top \in Handles(es) : \A h \in Handles(es) : h <= top

\* The appends l of the drawing d have in es the handles g that their result files
\* name, and there is a highest handle.
Drawn(l, g, d, es) ==
  /\ Len(es) = Len(d)
  /\ \A k \in DOMAIN d : l[d[k]] = {} => es[k].handle = g[d[k]] /\ g[d[k]] # 0
  /\ RefersRight(d, es)
  /\ HasTop(es)

\* During a call the ledger has the appends behind the cursor, and no handle but
\* that of an entity in the staged drawing.
PairsInv ==
  pc \in {"batch", "running"} =>
    \A j \in Ops :
      /\ pairs[j] # 0 => links[j] = {} /\ j \in Persisted(dwg) /\ pairs[j] = given[j]
      /\ j <= Last[cur - 1] /\ links[j] = {} => pairs[j] # 0

\* The job documents of the current batch name entities of the staged drawing.
JobInv ==
  router = "starting" \/ session \in {"jobs", "hung"} =>
    \A i \in OpsOf(cur) : \A j \in links[i] :
      j \in Ops /\ links[j] = {} /\ j \in Persisted(dwg) /\ job[j] = given[j]

\* A refused call leaves the drawing at rest.
RefusedInv == pc = "done" /\ advice = "refused" => session = "none" /\ RefusedMeansMissing

LedgerInv ==
  /\ LedgerType
  /\ Drawn(links, given, dwg, ents)
  /\ session \in {"jobs", "hung"} => Drawn(links, given, mem, ments)
  /\ PairsInv
  /\ JobInv
  /\ RefusedInv

-----------------------------------------------------------------------------
(* What the lane gives the ledger.                                         *)

\* A session at work applies operations of the current batch, each for the first
\* time, to a drawing of all those behind it.
LEMMA LaneAtWork ==
  ASSUME LaneKnown, session \in {"jobs", "hung"}
  PROVE  /\ cur \in Batches /\ sbatch = cur /\ router # "starting" /\ pc # "batch"
         /\ dwg = FirstOps(Last[cur - 1])
         /\ at \in Last[cur - 1] + 1 .. Last[cur] + 1
         /\ Extends(mem) /\ at \notin Persisted(mem)
<1>1. CASE caller = "once"
  <2>1. LaneInv /\ ExactInv
    BY <1>1 DEF LaneKnown, CallerInv, FirstCallInv, ExactCallInv
  <2>2. /\ cur \in Batches /\ sbatch = cur /\ router # "starting" /\ pc # "batch"
        /\ dwg = FirstOps(Last[cur - 1]) /\ at \in Last[cur - 1] + 1 .. Last[cur] + 1
        /\ \A i \in OpsOf(cur) : i >= at => result[i] = "none"
    BY <2>1 DEF LaneInv, SessionOwnsBatch, BetweenBatches, RunningJobs
  <2>3. Holds(mem) /\ Extends(mem)
    BY <2>1, <2>2 DEF ExactInv, ResultsAreTrue
  <2>4. at \notin Behind /\ at \notin OkOps(cur)
    BY <2>2, PlanRange DEF Behind, OkOps
  <2> QED BY <2>2, <2>3, <2>4 DEF Holds
<1>2. CASE caller # "once"
  <2>1. SessionInv /\ TypeOK
    BY <1>2 DEF LaneKnown, CallerInv, RepeatInv
  <2>2. /\ sbatch = cur /\ router = "waiting"
        /\ dwg = FirstOps(Last[cur - 1]) /\ at \in Last[cur - 1] + 1 .. Last[cur] + 1
        /\ HoldsFresh(mem) /\ Extends(mem)
    BY <2>1 DEF SessionInv
  <2>3. cur \in Batches /\ pc # "batch"
    BY <2>1, <2>2 DEF TypeOK, ExecutorType
  <2>4. at \notin Behind /\ at \notin FreshOk
    BY <2>2, <2>3, PlanRange DEF Behind, FreshOk
  <2> QED BY <2>2, <2>3, <2>4 DEF HoldsFresh
<1> QED BY <1>1, <1>2

\* A batch is refused, launched and opened over the drawing of those behind it.
LEMMA LaneAtLaunch ==
  ASSUME LaneKnown, MustRun \/ router = "starting"
  PROVE  cur \in Batches /\ session = "none" /\ dwg = FirstOps(Last[cur - 1])
<1>1. cur \in Batches /\ TypeOK
  BY PlanAssumption DEF LaneKnown, MustRun, TypeOK, ExecutorType, Batches
<1>2. CASE caller = "once"
  BY <1>1, <1>2 DEF LaneKnown, CallerInv, FirstCallInv, LaneInv, BetweenBatches, MustRun
<1>3. CASE caller # "once"
  <2>1. RepeatInv
    BY <1>3 DEF LaneKnown, CallerInv
  <2> QED BY <1>1, <2>1, MustRunAtFront DEF RepeatInv, SessionInv, Front
<1> QED BY <1>2, <1>3

\* A batch the executor goes by is in the staged drawing, and every operation of
\* one that was run reported ok.
LEMMA LaneGoesBy ==
  ASSUME LaneKnown, SkipBatch \/ AcceptBatch
  PROVE  /\ cur \in Batches /\ OpsOf(cur) \subseteq Persisted(dwg)
         /\ AcceptBatch => OkOf(envelope[cur]) = OpsOf(cur)
         /\ session = "none" /\ router = "gone"
<1>1. cur \in Batches /\ TypeOK /\ Complete(envelope[cur]) /\ router = "gone"
  BY PlanAssumption DEF LaneKnown, SkipBatch, AcceptBatch, Returned, TypeOK, ExecutorType,
                        SessionType, Batches
<1>2. \A f \in 0 .. NB : f >= cur /\ dwg = FirstOps(Last[f]) => OpsOf(cur) \subseteq Persisted(dwg)
  <2> SUFFICES ASSUME NEW f \in 0 .. NB, f >= cur, dwg = FirstOps(Last[f])
               PROVE  OpsOf(cur) \subseteq Persisted(dwg)
    OBVIOUS
  <2>1. Persisted(dwg) = 1 .. Last[f] /\ Last[f] \in Nat
    BY FrontHolds
  <2>2. cur \in 0 .. NB /\ (cur < f \/ cur = f)
    BY <1>1, PlanAssumption DEF Batches
  <2>3. Last[cur] <= Last[f]
    BY <2>2, PlanAssumption
  <2> QED BY <1>1, <2>1, <2>3, PlanRange DEF OpsOf
<1>3. cur \in 0 .. NB /\ cur >= cur
  BY <1>1, PlanAssumption DEF Batches
<1>4. CASE caller = "once"
  <2>1. LaneInv /\ ExactInv
    BY <1>4 DEF LaneKnown, CallerInv, FirstCallInv, ExactCallInv
  <2>2. envelope[cur] # NoEnvelope
    BY <1>1 DEF Complete, NoEnvelope
  <2>3. dwg = FirstOps(Last[cur]) /\ envelope[cur].ok = OpsOf(cur)
    BY <1>1, <2>1, <2>2 DEF LaneInv, ProofsAreTrue, ExactInv, EnvelopeIsTrue
  <2>4. session = "none"
    BY <2>1, <2>2 DEF LaneInv, SessionOwnsBatch
  <2> QED BY <1>1, <1>2, <1>3, <2>3, <2>4 DEF OkOf
<1>5. CASE caller # "once"
  <2>1. RepeatInv /\ session = "none"
    BY <1>1, <1>5 DEF LaneKnown, CallerInv, RepeatInv, SessionInv
  <2>2. CASE SkipBatch
    <3>1. PICK f \in 0 .. NB : Front(f) /\ f >= cur - 1
      BY <2>1, <2>2 DEF SkipBatch, RepeatInv, CursorInv
    <3>2. f >= cur
      BY <1>1, <2>2, <3>1, PlanAssumption DEF SkipBatch, Front, Proven, Complete, Batches
    <3>3. ~AcceptBatch
      BY <2>2 DEF SkipBatch, AcceptBatch, Returned
    <3> QED BY <1>1, <1>2, <2>1, <3>1, <3>2, <3>3 DEF Front
  <2>3. CASE AcceptBatch
    <3>1. envelope[cur].ok = OpsOf(cur) /\ Front(cur)
      BY <1>1, <2>1, <2>3 DEF AcceptBatch, Returned, RepeatInv, ReturnInv, Outcome, HalfPersisted,
                              Complete
    <3> QED BY <1>1, <1>2, <1>3, <2>1, <3>1 DEF OkOf, Front
  <2> QED BY <2>2, <2>3
<1> QED BY <1>4, <1>5

\* No session is alive, and no router, when a caller calls.
LEMMA LaneAtCall ==
  ASSUME LaneKnown, Caller
  PROVE  session = "none" /\ router = "gone"
<1>1. router = "gone" /\ TypeOK
  BY DEF LaneKnown, Caller, FirstCall, ResumeCall, ReapplyCall, MayCallAgain, TypeOK, ExecutorType,
         SessionType
<1>2. CASE caller = "once"
  <2>1. FirstCall /\ LaneInv
    BY <1>2 DEF Caller, ResumeCall, ReapplyCall, LaneKnown, CallerInv, FirstCallInv
  <2> QED BY <1>1, <2>1 DEF FirstCall, LaneInv, BetweenBatches
<1>3. CASE caller # "once"
  BY <1>1, <1>3 DEF LaneKnown, CallerInv, RepeatInv, SessionInv
<1> QED BY <1>2, <1>3

-----------------------------------------------------------------------------
(* Drawings and their handles.                                             *)

LEMMA LinksType ==
  ASSUME links \in LinkPlans
  PROVE  /\ links \in [Ops -> SUBSET (0 .. N)]
         /\ \A b \in Batches : \A i, j \in OpsOf(b) : links[i] = {} <=> links[j] = {}
         /\ \A i \in Ops : \A j \in links[i] : j < i /\ (j # 0 => links[j] = {})
BY LinkAssumption

\* The empty drawing.
LEMMA NothingDrawn ==
  ASSUME NEW l, NEW g
  PROVE  Drawn(l, g, << >>, << >>)
BY DEF Drawn, RefersRight, HasTop, Handles

LEMMA HandlesType ==
  ASSUME NEW es \in Seq(EntityType)
  PROVE  Handles(es) \subseteq Nat
<1>1. \A k \in DOMAIN es : es[k] \in EntityType
  OBVIOUS
<1>2. \A k \in DOMAIN es : es[k].handle \in Nat
  BY <1>1 DEF EntityType
<1> QED BY <1>2 DEF Handles

\* An entity is added behind those of a drawing.
LEMMA HandlesGrow ==
  ASSUME NEW es \in Seq(EntityType), NEW e \in EntityType
  PROVE  Handles(Append(es, e)) = Handles(es) \cup {e.handle}
<1>1. /\ DOMAIN Append(es, e) = DOMAIN es \cup {Len(es) + 1}
      /\ \A k \in DOMAIN es : Append(es, e)[k] = es[k]
      /\ Append(es, e)[Len(es) + 1] = e
  OBVIOUS
<1> QED BY <1>1 DEF Handles

\* An operation that is not yet in the drawing is added with an entity whose
\* handle its result file names and whose references are in the drawing.
LEMMA DrawnGrows ==
  ASSUME NEW l, NEW g, NEW h, NEW d \in Seq(Ops), NEW es \in Seq(EntityType), Drawn(l, g, d, es),
         NEW x \in Ops, x \notin Persisted(d), NEW e \in EntityType,
         \A i \in Ops : i # x => h[i] = g[i],
         l[x] = {} => e.handle = h[x] /\ h[x] # 0,
         \A r \in e.refs : \E m \in DOMAIN es : d[m] = r[1] /\ es[m].handle = r[2]
  PROVE  Drawn(l, h, Append(d, x), Append(es, e))
<1> DEFINE D == Append(d, x)
           E == Append(es, e)
<1>1. /\ Len(es) = Len(d) /\ Len(d) \in Nat /\ DOMAIN es = 1 .. Len(d) /\ DOMAIN d = 1 .. Len(d)
      /\ DOMAIN E = 1 .. Len(d) + 1 /\ DOMAIN D = 1 .. Len(d) + 1 /\ Len(E) = Len(D)
      /\ \A k \in 1 .. Len(d) : E[k] = es[k] /\ D[k] = d[k] /\ d[k] \in Ops /\ d[k] # x
      /\ E[Len(d) + 1] = e /\ D[Len(d) + 1] = x
  BY DEF Drawn, Persisted
<1>2. ASSUME NEW k \in DOMAIN D, l[D[k]] = {} PROVE E[k].handle = h[D[k]] /\ h[D[k]] # 0
  <2>1. CASE k = Len(d) + 1
    BY <1>1, <1>2, <2>1
  <2>2. CASE k \in 1 .. Len(d)
    BY <1>1, <1>2, <2>2 DEF Drawn
  <2> QED BY <1>1, <2>1, <2>2
<1>3. RefersRight(D, E)
  <2> SUFFICES ASSUME NEW k \in DOMAIN E, NEW r \in E[k].refs
               PROVE  \E m \in DOMAIN E : D[m] = r[1] /\ E[m].handle = r[2]
    BY DEF RefersRight
  <2>1. \E m \in DOMAIN es : d[m] = r[1] /\ es[m].handle = r[2]
    BY <1>1 DEF Drawn, RefersRight
  <2> QED BY <1>1, <2>1
<1>4. HasTop(E)
  <2>1. PICK top \in Handles(es) : \A i \in Handles(es) : i <= top
    BY DEF Drawn, HasTop
  <2>2. /\ Handles(E) = Handles(es) \cup {e.handle} /\ Handles(es) \subseteq Nat
        /\ e.handle \in Nat
    BY HandlesGrow, HandlesType DEF EntityType
  <2>3. CASE e.handle <= top
    BY <2>1, <2>2, <2>3 DEF HasTop
  <2>4. CASE ~(e.handle <= top)
    BY <2>1, <2>2, <2>4 DEF HasTop
  <2> QED BY <2>3, <2>4
<1> QED BY <1>1, <1>2, <1>3, <1>4 DEF Drawn

\* A new handle is above every handle of the drawing.
LEMMA NewHandleAbove ==
  ASSUME ments \in Seq(EntityType), HasTop(ments), NEW h \in NewHandles
  PROVE  h \in Nat \ {0}
<1> DEFINE IsTop(t) == \A g \in Handles(ments) : g <= t
           top == CHOOSE t \in Handles(ments) : IsTop(t)
<1>1. Handles(ments) \subseteq Nat
  BY HandlesType
<1>2. \E t \in Handles(ments) : IsTop(t)
  BY DEF HasTop
<1>3. top \in Handles(ments)
  BY <1>2
<1> QED BY <1>1, <1>3 DEF NewHandles

-----------------------------------------------------------------------------
(* The ledger, step by step.                                               *)

LEMMA LedgerInit == LInit => LedgerInv
<1> SUFFICES ASSUME LInit PROVE LedgerInv
  OBVIOUS
<1>1. LedgerType
  BY DEF LInit, LedgerType, NoHandles
<1>2. Drawn(links, given, dwg, ents)
  BY NothingDrawn DEF LInit, Init
<1> QED BY <1>1, <1>2 DEF LInit, Init, LedgerInv, PairsInv, JobInv, RefusedInv

\* A relink finds the entities it refers to in the session's memory.
LEMMA RelinkResolves ==
  ASSUME LaneKnown, LedgerInv, session = "jobs", at <= Last[sbatch]
  PROVE  /\ at \in OpsOf(cur)
         /\ \A j \in links[at] :
              /\ j \in Ops /\ job[j] \in Nat /\ job[j] # 0
              /\ \E m \in DOMAIN ments : mem[m] = j /\ ments[m].handle = job[j]
         /\ Resolves
<1>1. /\ cur \in Batches /\ at \in OpsOf(cur) /\ dwg = FirstOps(Last[cur - 1]) /\ Extends(mem)
      /\ Last[cur - 1] \in Nat
  BY LaneAtWork, PlanRange DEF OpsOf
<1>2. /\ LedgerType /\ Drawn(links, given, mem, ments) /\ JobInv /\ mem \in Seq(Ops)
      /\ ments \in Seq(EntityType)
  BY DEF LedgerInv, LedgerType, LaneKnown, TypeOK, SessionType
<1>3. ASSUME NEW j \in links[at]
      PROVE  /\ j \in Ops /\ job[j] \in Nat /\ job[j] # 0
             /\ \E m \in DOMAIN ments : mem[m] = j /\ ments[m].handle = job[j]
  <2>1. j \in Ops /\ links[j] = {} /\ j \in 1 .. Last[cur - 1] /\ job[j] = given[j]
    BY <1>1, <1>2, FirstOpsHold DEF JobInv
  <2>2. j \in DOMAIN mem /\ mem[j] = j /\ j \in DOMAIN ments
    BY <1>1, <1>2, <2>1 DEF Extends, Drawn
  <2>3. ments[j].handle = given[j] /\ given[j] # 0
    BY <1>2, <2>1, <2>2 DEF Drawn
  <2> QED BY <1>2, <2>1, <2>2, <2>3 DEF LedgerType
<1>4. Resolves
  BY <1>3 DEF Resolves, Handles
<1> QED BY <1>1, <1>3, <1>4

\* Every step with its effect on handles is a step of the lane.
LEMMA LedgerFollows ==
  LaneKnown /\ LedgerInv /\ [LNext]_lvars => [Next]_vars
<1> SUFFICES ASSUME LaneKnown, LedgerInv, [LNext]_lvars PROVE [Next]_vars
  OBVIOUS
<1>1. CASE RelinkHatch
  BY <1>1, RelinkResolves DEF RelinkHatch, Next, Session
<1>2. CASE LCaller
  BY <1>2 DEF LCaller, LFirstCall, LResumeCall, LReapplyCall, Next, Caller
<1>3. CASE LExecutor
  BY <1>3 DEF LExecutor, LSkipBatch, LRefuseBatch, LLaunchBatch, LReturn, Next, Executor
<1>4. CASE LRouter
  BY <1>4 DEF LRouter, LRouterStart, Next, Router
<1>5. CASE LSession /\ ~RelinkHatch
  BY <1>5 DEF LSession, AppendEntity, LSaveDwg, Next, Session
<1>6. CASE Faulty
  BY <1>6 DEF Next
<1>7. CASE UNCHANGED lvars
  BY <1>7 DEF lvars
<1> QED BY <1>1, <1>2, <1>3, <1>4, <1>5, <1>6, <1>7 DEF LNext

\* A report is made at the end of a call.
LEMMA LaneAdvice ==
  ASSUME LaneKnown, pc # "done"
  PROVE  advice = "none"
<1>1. CASE caller = "once"
  BY <1>1 DEF LaneKnown, CallerInv, ExactCallInv, ExactInv, CountIsTrue
<1>2. CASE caller # "once"
  BY <1>2 DEF LaneKnown, CallerInv, RepeatInv, TotalInv
<1> QED BY <1>1, <1>2

\* A step that leaves the drawings and the ledger alone, and no call or batch begins.
LEMMA LedgerKept ==
  ASSUME LedgerInv, UNCHANGED <<ledger, dwg, cur>>,
         session' \in {"jobs", "hung"} => session \in {"jobs", "hung"} /\ mem' = mem,
         pc' \in {"batch", "running"} => pc \in {"batch", "running"},
         router' = "starting" => router = "starting",
         RefusedInv'
  PROVE  LedgerInv'
<1> USE DEF ledger
<1>0. /\ links' = links /\ pairs' = pairs /\ given' = given /\ job' = job /\ ents' = ents
      /\ ments' = ments /\ dwg' = dwg
  OBVIOUS
<1>1. LedgerType' /\ Drawn(links, given, dwg, ents)'
  BY <1>0 DEF LedgerInv, LedgerType
<1>2. session' \in {"jobs", "hung"} => Drawn(links, given, mem, ments)'
  BY <1>0 DEF LedgerInv
<1>3. PairsInv' /\ JobInv'
  BY DEF LedgerInv, PairsInv, JobInv, Persisted, OpsOf
<1> QED BY <1>1, <1>2, <1>3 DEF LedgerInv

\* Nothing undoes what a refusal found.
LEMMA RefusedKept ==
  ASSUME RefusedInv, UNCHANGED <<links, dwg, cur, pc, advice>>,
         session' = session \/ session # "none"
  PROVE  RefusedInv'
BY DEF RefusedInv, RefusedMeansMissing, Persisted, OpsOf

LEMMA LedgerCaller ==
  ASSUME LaneKnown, LedgerInv, LCaller
  PROVE  LedgerInv'
<1>1. /\ UNCHANGED <<links, given, job, ments>> /\ pairs' = NoHandles
      /\ pc' = "batch" /\ cur' = 1 /\ session' = session /\ router' = router
      /\ UNCHANGED <<dwg, ents>> \/ (dwg' = << >> /\ ents' = << >>)
  BY DEF LCaller, LFirstCall, LResumeCall, LReapplyCall, FirstCall, ResumeCall, ReapplyCall,
         StartCall, sess
<1>2. session = "none" /\ router = "gone"
  BY LaneAtCall DEF LCaller, LFirstCall, LResumeCall, LReapplyCall, Caller
<1>3. LedgerType'
  <2>1. NoHandles \in [Ops -> Nat] /\ << >> \in Seq(EntityType)
    BY DEF NoHandles
  <2> QED BY <1>1, <2>1 DEF LedgerInv, LedgerType
<1>4. Drawn(links, given, dwg, ents)'
  <2>1. CASE UNCHANGED <<dwg, ents>>
    BY <1>1, <2>1 DEF LedgerInv
  <2>2. CASE dwg' = << >> /\ ents' = << >>
    BY <2>2, NothingDrawn
  <2> QED BY <1>1, <2>1, <2>2
<1>5. PairsInv'
  BY <1>1, PlanAssumption DEF PairsInv, NoHandles, Ops
<1> QED BY <1>1, <1>2, <1>3, <1>4, <1>5 DEF LedgerInv, JobInv, RefusedInv

LEMMA HarvestType ==
  ASSUME LedgerInv, NEW S
  PROVE  Harvest(S) \in [Ops -> Nat]
BY DEF Harvest, LedgerInv, LedgerType

\* What is harvested is what the result files of persisted operations name.
LEMMA HarvestPersisted ==
  ASSUME LaneKnown, LedgerInv, pc \in {"batch", "running"}, cur \in Batches,
         NEW S \in SUBSET OpsOf(cur), OpsOf(cur) \subseteq Persisted(dwg)
  PROVE  /\ \A j \in Ops :
              Harvest(S)[j] # 0 =>
                links[j] = {} /\ j \in Persisted(dwg) /\ Harvest(S)[j] = given[j]
         /\ S = OpsOf(cur) =>
              \A j \in Ops : j <= Last[cur] /\ links[j] = {} => Harvest(S)[j] # 0
<1>1. LedgerType /\ PairsInv /\ Drawn(links, given, dwg, ents) /\ dwg \in Seq(Ops)
  BY DEF LedgerInv, LaneKnown, TypeOK, DiskType
<1>3. \A j \in OpsOf(cur) : links[j] = {} => given[j] # 0
  BY <1>1 DEF Persisted, Drawn
<1>4. \A j \in Ops :
        Harvest(S)[j] # 0 => links[j] = {} /\ j \in Persisted(dwg) /\ Harvest(S)[j] = given[j]
  BY <1>1 DEF Harvest, PairsInv
<1>5. ASSUME S = OpsOf(cur), NEW j \in Ops, j <= Last[cur], links[j] = {}
      PROVE  Harvest(S)[j] # 0
  <2>1. j <= Last[cur - 1] \/ j \in S
    BY <1>5, PlanRange DEF OpsOf, Ops
  <2> QED BY <1>1, <1>3, <1>5, <2>1 DEF Harvest, PairsInv
<1> QED BY <1>4, <1>5

LEMMA LedgerExecutor ==
  ASSUME LaneKnown, LedgerInv, LExecutor
  PROVE  LedgerInv'
<1> USE DEF files, sess
<1>1. /\ UNCHANGED <<links, given, ents, ments, dwg, session, mem>>
      /\ advice = "none" /\ pc # "done"
  <2>1. pc # "done"
    BY DEF LExecutor, LSkipBatch, LRefuseBatch, LLaunchBatch, LReturn, SkipBatch, RefuseBatch,
           LaunchBatch, MustRun, AcceptBatch, StopBatch, Returned, Finish
  <2> QED BY <2>1, LaneAdvice
          DEF LExecutor, LSkipBatch, LRefuseBatch, LLaunchBatch, LReturn, SkipBatch, RefuseBatch,
              LaunchBatch, AcceptBatch, StopBatch, Finish, ledger
<1>2. /\ Drawn(links, given, dwg, ents)'
      /\ session' \in {"jobs", "hung"} => Drawn(links, given, mem, ments)'
  BY <1>1 DEF LedgerInv
<1>3. ASSUME job' \in {job, pairs}, pairs' \in [Ops -> Nat] PROVE LedgerType'
  BY <1>1, <1>3 DEF LedgerInv, LedgerType
<1>4. CASE LSkipBatch \/ (LReturn /\ AcceptBatch)
  <2>1. /\ cur \in Batches /\ OpsOf(cur) \subseteq Persisted(dwg)
        /\ AcceptBatch => OkOf(envelope[cur]) = OpsOf(cur)
        /\ session = "none" /\ router = "gone"
    BY <1>4, LaneGoesBy DEF LSkipBatch
  <2>2. /\ pairs' = Harvest(OpsOf(cur)) /\ job' = job /\ cur' = cur + 1
        /\ pc \in {"batch", "running"} /\ pc' = "batch" /\ router' = router
    BY <1>4, <2>1 DEF LSkipBatch, SkipHarvest, LReturn, SkipBatch, AcceptBatch, Returned
  <2>3. LedgerType'
    BY <1>3, <2>2, HarvestType
  <2>4. PairsInv'
    <3>1. cur' - 1 = cur
      BY <2>1, <2>2, PlanAssumption DEF Batches
    <3>2. \A j \in Ops :
            /\ pairs'[j] # 0 => links[j] = {} /\ j \in Persisted(dwg) /\ pairs'[j] = given[j]
            /\ j <= Last[cur] /\ links[j] = {} => pairs'[j] # 0
      BY <2>1, <2>2, HarvestPersisted
    <3> QED BY <1>1, <3>1, <3>2 DEF PairsInv, Persisted
  <2> QED BY <1>1, <1>2, <2>1, <2>2, <2>3, <2>4 DEF LedgerInv, JobInv, RefusedInv
<1>5. CASE LReturn /\ StopBatch
  <2>1. pc' = "done" /\ advice' # "refused" /\ job' = job /\ cur' = cur
        /\ router' = "gone" /\ pairs' = Harvest(OkOf(envelope[cur]))
    BY <1>5 DEF LReturn, StopBatch, StopAdvice, Returned, AcceptBatch
  <2>2. LedgerType'
    BY <1>3, <2>1, HarvestType
  <2>3. JobInv'
    BY <1>1, <2>1 DEF LedgerInv, JobInv, Persisted, OpsOf
  <2> QED BY <1>1, <1>2, <2>1, <2>2, <2>3 DEF LedgerInv, PairsInv, RefusedInv
<1>6. CASE LRefuseBatch
  <2>1. /\ MustRun /\ Missing # {} /\ UNCHANGED <<ledger, cur, router>> /\ pc' = "done"
    BY <1>6 DEF LRefuseBatch, RefuseBatch
  <2>2. cur \in Batches /\ session = "none" /\ dwg = FirstOps(Last[cur - 1])
    BY <2>1, LaneAtLaunch
  <2>3. PICK i \in OpsOf(cur) : \E j \in links[i] : j = 0 \/ pairs[j] = 0
    BY <2>1 DEF Missing
  <2>4. PICK j \in links[i] : j = 0 \/ pairs[j] = 0
    BY <2>3
  <2>5. j \notin Persisted(dwg)
    <3>1. links \in LinkPlans /\ i \in Ops /\ Last[cur - 1] \in Nat
      BY <2>2, PlanRange DEF LedgerInv, LedgerType
    <3>2. j # 0 => links[j] = {} /\ j \in Ops
      BY <3>1, LinksType DEF Ops
    <3>3. j # 0 => ~(j <= Last[cur - 1])
      BY <2>1, <2>4, <3>2 DEF LedgerInv, PairsInv, MustRun
    <3> QED BY <2>2, <3>1, <3>3, FirstOpsHold
  <2>6. RefusedInv'
    BY <1>1, <2>1, <2>2, <2>5 DEF RefusedInv, RefusedMeansMissing, Persisted, OpsOf, ledger
  <2> QED BY <1>1, <2>1, <2>2, <2>6, LedgerKept
<1>7. CASE LLaunchBatch
  <2>1. /\ MustRun /\ Missing = {} /\ job' = pairs /\ pairs' = pairs /\ cur' = cur
        /\ pc = "batch" /\ pc' = "running"
    BY <1>7 DEF LLaunchBatch, LaunchBatch, MustRun
  <2>2. cur \in Batches /\ session = "none"
    BY <2>1, LaneAtLaunch
  <2>3. LedgerType'
    BY <1>3, <2>1 DEF LedgerInv, LedgerType
  <2>4. PairsInv'
    BY <1>1, <2>1 DEF LedgerInv, PairsInv, Persisted
  <2>5. JobInv'
    <3> SUFFICES ASSUME NEW i \in OpsOf(cur), NEW j \in links[i]
                 PROVE  j \in Ops /\ links[j] = {} /\ j \in Persisted(dwg) /\ pairs[j] = given[j]
      BY <1>1, <2>1 DEF JobInv, Persisted, OpsOf
    <3>1. links \in LinkPlans /\ i \in Ops
      BY <2>2, PlanRange DEF LedgerInv, LedgerType
    <3>2. j # 0 /\ pairs[j] # 0
      BY <2>1 DEF Missing
    <3>3. j \in Ops
      BY <3>1, <3>2, LinksType DEF Ops
    <3> QED BY <2>1, <3>2, <3>3 DEF LedgerInv, PairsInv
  <2> QED BY <1>1, <1>2, <2>1, <2>3, <2>4, <2>5 DEF LedgerInv, RefusedInv
<1>8. CASE Finish /\ UNCHANGED ledger
  <2>1. cur' = cur /\ pc' = "done" /\ router' = router /\ advice' = "none"
    BY <1>1, <1>8 DEF Finish
  <2> QED BY <1>1, <1>8, <2>1, LedgerKept DEF RefusedInv
<1> QED BY <1>4, <1>5, <1>6, <1>7, <1>8 DEF LExecutor, LReturn

\* Steps that have no effect on handles, or on the drawings.
LEMMA LedgerStands ==
  ASSUME LaneKnown, LedgerInv, UNCHANGED ledger,
         \/ RouterRefuse \/ RouterTimeout \/ RouterCollect \/ JobError \/ JobUnknown
         \/ WriteMarker \/ Quit \/ Faulty \/ UNCHANGED vars
  PROVE  LedgerInv'
<1> USE DEF vars, files, sess, exec
<1>1. /\ UNCHANGED <<dwg, cur, advice>>
      /\ session' \in {"jobs", "hung"} => session \in {"jobs", "hung"} /\ mem' = mem
      /\ session' = session \/ session # "none"
      /\ router' = "starting" => router = "starting"
      /\ pc' = pc \/ pc' = "crashed"
  BY DEF RouterRefuse, RouterTimeout, RouterCollect, JobError, JobUnknown, WriteMarker, Quit,
         Faulty, ExecutorCrash, RouterKilled, JobHangs, SessionDies, Killable
<1>2. RefusedInv'
  <2>1. CASE pc' = pc
    BY <1>1, <2>1, RefusedKept DEF LedgerInv, ledger
  <2> QED BY <1>1, <2>1 DEF RefusedInv
<1> QED BY <1>1, <1>2, LedgerKept

\* A session opens the staged drawing with the handles that are in it.
LEMMA LedgerRouterStart ==
  ASSUME LaneKnown, LedgerInv, LRouterStart
  PROVE  LedgerInv'
<1>1. /\ UNCHANGED <<links, pairs, given, job, ents, dwg, pc, cur>> /\ ments' = ents /\ mem' = dwg
      /\ router = "starting" /\ pc # "done"
  BY DEF LRouterStart, RouterStart, Opened, exec, LaneKnown, TypeOK, ExecutorType
<1>2. LedgerType' /\ Drawn(links, given, dwg, ents)' /\ Drawn(links, given, mem, ments)'
  BY <1>1 DEF LedgerInv, LedgerType
<1>3. PairsInv' /\ JobInv' /\ RefusedInv'
  BY <1>1 DEF LedgerInv, PairsInv, JobInv, RefusedInv, Persisted, OpsOf
<1> QED BY <1>2, <1>3 DEF LedgerInv

\* A job adds its entity to the drawing in memory.
LEMMA LedgerJobOk ==
  ASSUME LaneKnown, LedgerInv, JobOk, NEW e \in EntityType, ments' = Append(ments, e),
         UNCHANGED <<links, pairs, job, ents>>, given' \in [Ops -> Nat],
         \A i \in Ops : i # at => given'[i] = given[i],
         links[at] = {} => e.handle = given'[at] /\ given'[at] # 0,
         \A r \in e.refs : \E m \in DOMAIN ments : mem[m] = r[1] /\ ments[m].handle = r[2]
  PROVE  LedgerInv'
<1>1. /\ UNCHANGED <<dwg, pc, cur, router, advice>> /\ session = "jobs" /\ session' = "jobs"
      /\ mem' = Append(mem, at) /\ at <= Last[sbatch]
  BY DEF JobOk, exec
<1>2. /\ at \in Ops /\ at \notin Persisted(mem) /\ at \notin Persisted(dwg)
      /\ mem \in Seq(Ops) /\ dwg \in Seq(Ops) /\ ments \in Seq(EntityType)
  <2>1. /\ cur \in Batches /\ sbatch = cur /\ dwg = FirstOps(Last[cur - 1])
        /\ at \in Last[cur - 1] + 1 .. Last[cur] + 1 /\ at \notin Persisted(mem)
    BY <1>1, LaneAtWork
  <2>2. Last[cur - 1] \in Nat /\ at \in OpsOf(cur) /\ OpsOf(cur) \subseteq Ops
    BY <1>1, <2>1, PlanRange DEF OpsOf
  <2>3. at \notin Persisted(dwg)
    BY <2>1, <2>2, FirstOpsHold
  <2> QED BY <2>1, <2>2, <2>3 DEF LedgerInv, LedgerType, LaneKnown, TypeOK, DiskType, SessionType
<1>3. \A j \in Persisted(dwg) : j \in Ops /\ j # at /\ given'[j] = given[j]
  BY <1>2 DEF Persisted
<1>4. LedgerType'
  <2>1. ments' \in Seq(EntityType)
    BY <1>2
  <2> QED BY <2>1 DEF LedgerInv, LedgerType
<1>5. Drawn(links, given, dwg, ents)'
  BY <1>1, <1>3 DEF LedgerInv, Drawn, Persisted
<1>6. Drawn(links, given, mem, ments)'
  BY <1>1, <1>2, DrawnGrows DEF LedgerInv
<1>7. PairsInv' /\ JobInv'
  BY <1>1, <1>3 DEF LedgerInv, PairsInv, JobInv, Persisted, OpsOf
<1>8. RefusedInv'
  BY <1>1, RefusedKept DEF LedgerInv
<1> QED BY <1>4, <1>5, <1>6, <1>7, <1>8 DEF LedgerInv

\* A session creates entities, relinks them and saves them.
LEMMA LedgerSession ==
  ASSUME LaneKnown, LedgerInv, LSession
  PROVE  LedgerInv'
<1>1. ASSUME NEW h \in NewHandles, AppendEntity(h) PROVE LedgerInv'
  <2> DEFINE e == [handle |-> h, refs |-> {}]
  <2>1. /\ JobOk /\ links[at] = {} /\ ments' = Append(ments, e)
        /\ given' = [given EXCEPT ![at] = h] /\ UNCHANGED <<links, pairs, job, ents>>
        /\ session = "jobs"
    BY <1>1 DEF AppendEntity, Named, JobOk
  <2>2. h \in Nat \ {0} /\ at \in Ops /\ given \in [Ops -> Nat]
    <3>1. at \in Ops
      BY <2>1, RelinkResolves, LaneAtWork, PlanRange DEF JobOk
    <3> QED BY <2>1, <3>1, NewHandleAbove DEF LedgerInv, LedgerType, Drawn
  <2>3. e \in EntityType /\ e.handle = h /\ e.refs = {}
    BY <2>2 DEF EntityType
  <2>4. given' \in [Ops -> Nat] /\ given'[at] = h /\ \A i \in Ops : i # at => given'[i] = given[i]
    BY <2>1, <2>2
  <2> HIDE DEF e
  <2> QED BY <2>1, <2>2, <2>3, <2>4, LedgerJobOk
<1>2. CASE RelinkHatch
  <2> DEFINE e == [handle |-> 0, refs |-> {<<j, job[j]>> : j \in links[at]}]
  <2>1. /\ session = "jobs" /\ at <= Last[sbatch] /\ links[at] # {}
        /\ UNCHANGED <<links, pairs, given, job, ents>>
    BY <1>2 DEF RelinkHatch
  <2>2. JobOk /\ ments' = Append(ments, e)
    BY <1>2, <2>1, RelinkResolves DEF RelinkHatch
  <2>3. e \in EntityType /\ e.handle = 0
    BY <2>1, RelinkResolves DEF EntityType
  <2>4. \A r \in e.refs : \E m \in DOMAIN ments : mem[m] = r[1] /\ ments[m].handle = r[2]
    BY <2>1, RelinkResolves
  <2>5. given' \in [Ops -> Nat]
    BY <2>1 DEF LedgerInv, LedgerType
  <2> HIDE DEF e
  <2> QED BY <2>1, <2>2, <2>3, <2>4, <2>5, LedgerJobOk
<1>3. CASE LSaveDwg
  <2>1. /\ UNCHANGED <<links, pairs, given, job, ments, pc, cur, router, advice>>
        /\ session = "jobs" /\ session' = "saved" /\ dwg' = mem /\ ents' = ments
    BY <1>3 DEF LSaveDwg, SaveDwg, exec
  <2>2. LedgerType' /\ Drawn(links, given, dwg, ents)'
    BY <2>1 DEF LedgerInv, LedgerType
  <2>3. PairsInv'
    <3>1. \A j \in Persisted(dwg) : j \in Persisted(mem)
      <4>1. /\ cur \in Batches /\ dwg = FirstOps(Last[cur - 1]) /\ Extends(mem)
            /\ mem \in Seq(Ops) /\ Last[cur - 1] \in Nat
        BY <2>1, LaneAtWork, PlanRange DEF LaneKnown, TypeOK, SessionType
      <4>2. \A j \in 1 .. Last[cur - 1] : j \in DOMAIN mem /\ mem[j] = j
        BY <4>1 DEF Extends
      <4>3. Persisted(dwg) = 1 .. Last[cur - 1]
        BY <4>1, FirstOpsHold
      <4> QED BY <4>2, <4>3 DEF Persisted
    <3> QED BY <2>1, <3>1 DEF LedgerInv, PairsInv, Persisted
  <2>4. JobInv' /\ RefusedInv'
    BY <2>1, LaneAtWork DEF JobInv, LedgerInv, RefusedInv
  <2> QED BY <2>1, <2>2, <2>3, <2>4 DEF LedgerInv
<1>4. CASE (JobError \/ JobUnknown \/ WriteMarker \/ Quit) /\ UNCHANGED ledger
  BY <1>4, LedgerStands
<1> QED BY <1>1, <1>2, <1>3, <1>4 DEF LSession

LEMMA LedgerStep ==
  LaneKnown /\ LedgerInv /\ [LNext]_lvars => LedgerInv'
<1> SUFFICES ASSUME LaneKnown, LedgerInv, [LNext]_lvars PROVE LedgerInv'
  OBVIOUS
<1>1. LRouter => LedgerInv'
  BY LedgerStands, LedgerRouterStart DEF LRouter
<1>2. UNCHANGED lvars => LedgerInv'
  BY LedgerStands DEF lvars
<1> QED BY <1>1, <1>2, LedgerCaller, LedgerExecutor, LedgerSession, LedgerStands DEF LNext

-----------------------------------------------------------------------------
(* Theorems of the handle ledger.                                          *)

\* The ledger, the job documents, the result files and the drawings agree on the
\* handles, over any number of calls that survive the faults they may meet.
THEOREM LedgerInvariant == Patient => (LSpec => [](LaneKnown /\ LedgerInv))
<1> SUFFICES ASSUME Patient PROVE LSpec => [](LaneKnown /\ LedgerInv)
  OBVIOUS
<1>1. LInit => LaneKnown /\ LedgerInv
  BY LedgerInit, InitType, InitRepeat, InitFirstCall, InitExact DEF LInit, LaneKnown
<1>2. LaneKnown /\ LedgerInv /\ [LNext]_lvars => (LaneKnown /\ LedgerInv)'
  <2> SUFFICES ASSUME LaneKnown, LedgerInv, [LNext]_lvars PROVE LaneKnown' /\ LedgerInv'
    OBVIOUS
  <2>1. [Next]_vars
    BY LedgerFollows
  <2>2. LaneKnown'
    BY <2>1, StepKeepsType, StepKeepsCaller, StepKeepsFirst, StepKeepsExact DEF LaneKnown
  <2> QED BY <2>2, LedgerStep
<1> QED BY <1>1, <1>2, PTL DEF LSpec

\* The ledger only watches the lane: every behaviour of the lane with its handles
\* is one of the lane, so whatever is proved of it holds here too.
THEOREM LedgerFollowsLane == Patient => (LSpec => Spec)
<1> SUFFICES ASSUME Patient PROVE LSpec => Spec
  OBVIOUS
<1>1. LInit => Init
  BY DEF LInit
<1> QED BY <1>1, LedgerFollows, LedgerInvariant, PTL DEF LSpec, Spec

\* In the staged drawing every relinked hatch refers to the very entities its
\* sources became there.
THEOREM LedgerLinksRight == Patient => (LSpec => []LinksRight)
<1> SUFFICES ASSUME Patient PROVE LSpec => []LinksRight
  OBVIOUS
<1>1. LedgerInv => LinksRight
  BY DEF LedgerInv, Drawn, RefersRight, LinksRight
<1> QED BY <1>1, LedgerInvariant, PTL

\* A call refused as ASSOC_RELINK_UNRESOLVED relinks something that is really not
\* in the staged drawing.
THEOREM LedgerRefusesRightly == Patient => (LSpec => []RefusedMeansMissing)
<1> SUFFICES ASSUME Patient PROVE LSpec => []RefusedMeansMissing
  OBVIOUS
<1>1. LedgerInv => RefusedMeansMissing
  BY DEF LedgerInv, RefusedInv, RefusedMeansMissing
<1> QED BY <1>1, LedgerInvariant, PTL

\* The drawing with its handles keeps the promise of a staged patch: no operation
\* is persisted twice, and "ok" means the whole patch.
THEOREM LedgerKeepsPromise ==
  Patient => (LSpec => PromiseKept /\ []NeverAppliedTwice /\ []OkMeansApplied)
BY LedgerFollowsLane, RepeatedCallsKeepPromise, RepeatedCallsAppliedOnce, RepeatedCallsCorrect,
   PTL
=============================================================================
