----------------------------- MODULE WriteBatch -----------------------------
(***************************************************************************)
(* The batched write lane of the CAD OS patch engine.  A patch is a        *)
(* sequence of N native write operations, planned into NB batches of       *)
(* consecutive operations.  Three processes on one disk carry it out:      *)
(*                                                                         *)
(*   executor  tools/patch_batch_executor.py, execute_write_batches        *)
(*   router    tools/autocad-router.ps1, Invoke-CadNativeWriteBatchRoute   *)
(*   session   one accoreconsole.exe running the script of one batch       *)
(*                                                                         *)
(* Operations mutate the drawing in the session's memory; _QSAVE persists  *)
(* them; a marker file written after _QSAVE is the only proof of it.  Any  *)
(* of the three processes may die between two steps, and the caller may    *)
(* call again over the files a former call left behind.                    *)
(***************************************************************************)
EXTENDS Naturals, Sequences, FiniteSets

CONSTANTS
  N,         \* number of resolved write operations (len(applied_records))
  NB,        \* number of planned batches
  Last,      \* Last[b]: the last operation of batch b; Last[0] = 0
  MaxCalls,  \* bound on the calls of execute_write_batches on one out_dir
  Faults,    \* Faults[c]: the faults caller c is to survive, see FaultKinds
  Callers    \* how a caller may call again, see CallerKinds

FaultKinds ==
  { "op_error",         \* a native job reports an error and changes nothing
    "load_failure",     \* (arxload ...) fails: every job is an unknown command
    "hang",             \* a native job never returns
    "session_dies",     \* accoreconsole crashes or is killed before _QSAVE
    "kill_after_save",  \* ... between _QSAVE and the marker
    "router_refuses",   \* the route returns UNAVAILABLE or ERROR at once
    "router_killed",    \* the router dies: subprocess timeout, failed launch
    "executor_crash" }  \* the Python process dies

CallerKinds ==
  { "once",             \* it makes one call on a new out_dir
    "resume_advised",   \* executor again, same staged DWG, as its report allows
    "resume_crashed",   \* executor again, same staged DWG, after it crashed
    "reapply",          \* apply_staged again in the same out_dir, resume on
    "reapply_fresh" }   \* apply_staged again in the same out_dir, resume off

ASSUME PlanAssumption ==
  /\ N \in Nat \ {0}
  /\ NB \in Nat \ {0}
  /\ Last \in [0 .. NB -> 0 .. N]
  /\ Last[0] = 0
  /\ Last[NB] = N
  /\ \A a, b \in 0 .. NB : a < b => Last[a] < Last[b]

ASSUME CallAssumption ==
  /\ MaxCalls \in Nat \ {0}
  /\ Callers \in SUBSET CallerKinds \ {{}}
  /\ Faults \in [Callers -> SUBSET FaultKinds]

VARIABLES
  caller,    \* the way this caller calls again
  dwg,       \* operations persisted in staged_input.dwg, in order
  result,    \* results/op_*.json: per operation "none", "ok" or "error"
  marker,    \* per batch: run/qsave_done.txt exists
  envelope,  \* per batch: run/write_batch_result.json
  session,   \* the accoreconsole session: its place in the script
  sbatch,    \* the batch whose script it runs
  loaded,    \* whether its modules were loaded
  at,        \* the next operation of its script
  mem,       \* the drawing in its memory
  router,    \* the router: "gone", "starting" or "waiting" for the session
  pc,        \* the executor: idle, batch, running, done or crashed
  cur,       \* the batch the executor is at
  okTotal,   \* ops_ok_total
  status,    \* the status of its report
  advice,    \* what its report says of calling again
  resume,    \* its resume argument
  calls      \* calls made so far

files == <<result, marker, envelope>>
sess  == <<session, sbatch, loaded, at, mem>>
exec  == <<pc, cur, okTotal, status, advice, resume>>
vars  == <<caller, dwg, files, sess, router, exec, calls>>

Admits(f) == f \in Faults[caller]

Ops     == 1 .. N
Batches == 1 .. NB

\* Batch["op_indices"]: a validated plan is consecutive and complete.
OpsOf(b) == (Last[b - 1] + 1) .. Last[b]

\* The drawing that holds the first k operations, each once, in patch order.
FirstOps(k) == [i \in 1 .. k |-> i]

NoEnvelope == [st |-> "none", qsave |-> FALSE, ok |-> {}]

\* Variant: any envelope is enough.
CompleteIfRun(e) == e.st # "none"

\* PASS and qsave_done: the executor's test for a complete batch.
Complete(e) == e.st = "PASS" /\ e.qsave

-----------------------------------------------------------------------------
Init ==
  /\ caller \in Callers
  /\ dwg = << >>
  /\ result = [i \in Ops |-> "none"]
  /\ marker = [b \in Batches |-> FALSE]
  /\ envelope = [b \in Batches |-> NoEnvelope]
  /\ session = "none" /\ sbatch = 1 /\ loaded = FALSE /\ at = 1 /\ mem = << >>
  /\ router = "gone"
  /\ pc = "idle" /\ cur = 1 /\ okTotal = 0 /\ status = "ok" /\ advice = "none"
  /\ resume = TRUE /\ calls = 0

-----------------------------------------------------------------------------
(* The caller.                                                             *)

StartCall(rs) ==
  /\ pc' = "batch" /\ cur' = 1 /\ okTotal' = 0
  /\ status' = "ok" /\ advice' = "none" /\ resume' = rs
  /\ calls' = calls + 1
  /\ UNCHANGED <<caller, files, sess, router>>

\* apply_staged on a new out_dir: a fresh staged copy, no batch files.
FirstCall ==
  /\ pc = "idle"
  /\ StartCall(TRUE)
  /\ UNCHANGED dwg

\* A later call waits for the router of the former one to be gone.
MayCallAgain ==
  /\ calls \in 1 .. MaxCalls - 1
  /\ pc \in {"done", "crashed"}
  /\ router = "gone"

\* The report leaves the call open to repetition: it succeeded, it was refused
\* before the batch ran, or it says "safe to re-run".
Advised == pc = "done" /\ (status = "ok" \/ advice \in {"safe", "refused"})

\* The executor alone, on the staged DWG as it is now.
ResumeCall ==
  /\ MayCallAgain
  /\ \/ caller = "resume_advised" /\ Advised
     \/ caller = "resume_crashed" /\ pc = "crashed"
  /\ StartCall(TRUE)
  /\ UNCHANGED dwg

\* Variant: batch_options.resume = False is ignored.
ReapplyResuming(rs) ==
  /\ MayCallAgain
  /\ caller = IF rs THEN "reapply" ELSE "reapply_fresh"
  /\ session = "none"
  /\ dwg' = << >>
  /\ StartCall(TRUE)

\* apply_staged: create_staged_copy overwrites staged_input.dwg with the
\* original, then the executor runs over the batch files that are there.
ReapplyCall(rs) ==
  /\ MayCallAgain
  /\ caller = IF rs THEN "reapply" ELSE "reapply_fresh"
  /\ session = "none"
  /\ dwg' = << >>
  /\ StartCall(rs)

-----------------------------------------------------------------------------
(* The executor, one iteration of its loop over plan["batches"].           *)

\* A batch whose cached envelope is PASS with the _QSAVE proof is not re-run.
SkipBatch ==
  /\ pc = "batch" /\ cur <= NB
  /\ resume /\ Complete(envelope[cur])
  /\ okTotal' = okTotal + Cardinality(OpsOf(cur))
  /\ cur' = cur + 1
  /\ UNCHANGED <<caller, dwg, files, sess, router, pc, status, advice, resume, calls>>

\* Variant: a cached envelope is not looked at.
MustRunAlways == pc = "batch" /\ cur <= NB

MustRun == pc = "batch" /\ cur <= NB /\ ~(resume /\ Complete(envelope[cur]))

\* pre_batch_cb refuses the batch (a relink handle the ledger cannot resolve).
RefuseBatch ==
  /\ MustRun
  /\ pc' = "done"
  /\ status' = IF okTotal > 0 THEN "partial" ELSE "blocked"
  /\ advice' = "refused"
  /\ UNCHANGED <<caller, dwg, files, sess, router, cur, okTotal, resume, calls>>

\* The job documents are written and the router is launched.
LaunchBatch ==
  /\ MustRun
  /\ pc' = "running" /\ router' = "starting"
  /\ UNCHANGED <<caller, dwg, files, sess, cur, okTotal, status, advice, resume, calls>>

\* Variant: the executor does not wait for the router.
ReturnedEarly == pc = "running"

\* run_router_write_batch has returned with what the envelope file holds now,
\* whoever wrote it.
Returned == pc = "running" /\ router = "gone"

\* The operations of the batch whose record in the envelope says ok.
OkOf(e) == e.ok \cap OpsOf(cur)

\* The batch is complete: on to the next one.
AcceptBatch ==
  /\ Returned
  /\ Complete(envelope[cur])
  /\ okTotal' = okTotal + Cardinality(OkOf(envelope[cur]))
  /\ cur' = cur + 1 /\ pc' = "batch"
  /\ UNCHANGED <<caller, dwg, files, sess, router, status, advice, resume, calls>>

\* Variants of StopAdvice: operations that are ok count as persisted; the proof of
\* the save is not looked at.
StopAdviceUnsaved(e, okOps) ==
  IF okOps \notin {{}, OpsOf(cur)} THEN "half" ELSE IF okOps # {} THEN "safe" ELSE "other"
StopAdviceSafe(e, okOps) == IF okOps # {} THEN "safe" ELSE "other"

\* What the report says of an envelope that is not complete.
StopAdvice(e, okOps) ==
  IF e.qsave /\ okOps # OpsOf(cur) THEN "half"
  ELSE IF ~e.qsave /\ okOps # {} THEN "safe"
  ELSE "other"

\* Anything else stops the call at this batch.
StopBatch ==
  /\ Returned
  /\ ~Complete(envelope[cur])
  /\ LET okOps == OkOf(envelope[cur])
         total == okTotal + Cardinality(okOps)
     IN /\ okTotal' = total
        /\ advice' = StopAdvice(envelope[cur], okOps)
        /\ status' = IF advice' \in {"half", "safe"} \/ total > 0
                     THEN "partial" ELSE "blocked"
  /\ pc' = "done"
  /\ UNCHANGED <<caller, dwg, files, sess, router, cur, resume, calls>>

\* Every batch was accepted or skipped: the report is "ok".
Finish ==
  /\ pc = "batch" /\ cur > NB
  /\ pc' = "done"
  /\ UNCHANGED <<caller, dwg, files, sess, router, cur, okTotal, status, advice,
                 resume, calls>>

\* The Python process dies; a router it launched lives on.
ExecutorCrash ==
  /\ Admits("executor_crash")
  /\ pc \in {"batch", "running"}
  /\ pc' = "crashed"
  /\ UNCHANGED <<caller, dwg, files, sess, router, cur, okTotal, status, advice,
                 resume, calls>>

-----------------------------------------------------------------------------
(* The router.                                                             *)

\* Early returns: no engine, no input, no job list.  No envelope is written.
RouterRefuse ==
  /\ Admits("router_refuses")
  /\ router = "starting"
  /\ router' = "gone"
  /\ UNCHANGED <<caller, dwg, files, sess, exec, calls>>

\* accoreconsole opens the staged DWG in place, with the earlier batches in it.
Opened == dwg

\* The script is written, the old marker removed (but no old result file, and
\* not the old envelope), and accoreconsole opens the staged DWG.
RouterStart ==
  /\ router = "starting" /\ session = "none"
  /\ router' = "waiting"
  /\ marker' = [marker EXCEPT ![cur] = FALSE]
  /\ session' = "jobs" /\ sbatch' = cur /\ at' = Last[cur - 1] + 1 /\ mem' = Opened
  /\ loaded' \in (IF Admits("load_failure") THEN BOOLEAN ELSE {TRUE})
  /\ UNCHANGED <<caller, dwg, result, envelope, exec, calls>>

\* Variant: only a session that still answers is killed.
KillableResponsive == {"jobs", "quit"}

\* Where a session can be cut short.
Killable ==
  {"jobs", "hung", "quit"} \cup (IF Admits("kill_after_save") THEN {"saved"} ELSE {})

\* WaitForExit(TimeoutMs) expires and accoreconsole is killed.
RouterTimeout ==
  /\ router = "waiting" /\ session \in Killable
  /\ Admits("session_dies") \/ session \in {"hung", "quit"}
  /\ session' = "none"
  /\ UNCHANGED <<caller, dwg, files, sbatch, loaded, at, mem, router, exec, calls>>

OkOps(b) == {i \in OpsOf(b) : result[i] = "ok"}

\* Variant: one operation that is ok makes a batch PASS.
EnvelopeStatusAny(okOps, b) ==
  IF okOps # {} /\ marker[b] THEN "PASS"
  ELSE IF marker[b] \/ okOps # {} THEN "PARTIAL"
  ELSE "FAILED"

\* PASS only when every operation is ok and the marker proves the save.
EnvelopeStatus(okOps, b) ==
  IF okOps = OpsOf(b) /\ marker[b] THEN "PASS"
  ELSE IF marker[b] \/ okOps # {} THEN "PARTIAL"
  ELSE "FAILED"

\* The session is over: the result files and the marker that exist become the
\* envelope.
RouterCollect ==
  /\ router = "waiting" /\ session = "none"
  /\ router' = "gone"
  /\ envelope' = [envelope EXCEPT ![cur] =
                    [st |-> EnvelopeStatus(OkOps(cur), cur),
                     qsave |-> marker[cur],
                     ok |-> OkOps(cur)]]
  /\ UNCHANGED <<caller, dwg, result, marker, sess, exec, calls>>

\* subprocess.run kills the router on its timeout, or the router dies: the
\* executor goes on without it, and the session, if any, goes on alone.
RouterKilled ==
  /\ Admits("router_killed")
  /\ router # "gone"
  /\ router' = "gone"
  /\ UNCHANGED <<caller, dwg, files, sess, exec, calls>>

-----------------------------------------------------------------------------
(* The session.                                                            *)

\* ARIADNE_NATIVE_JOB for the next operation: it is applied in memory and its
\* result file says ok.
JobOk ==
  /\ session = "jobs" /\ loaded /\ at <= Last[sbatch]
  /\ mem' = Append(mem, at)
  /\ result' = [result EXCEPT ![at] = "ok"]
  /\ at' = at + 1
  /\ UNCHANGED <<caller, dwg, marker, envelope, session, sbatch, loaded, router, exec,
                 calls>>

\* It is refused by its handler and the result file says so.
JobError ==
  /\ Admits("op_error")
  /\ session = "jobs" /\ loaded /\ at <= Last[sbatch]
  /\ result' = [result EXCEPT ![at] = "error"]
  /\ at' = at + 1
  /\ UNCHANGED <<caller, dwg, marker, envelope, session, sbatch, loaded, mem, router, exec,
                 calls>>

\* Without its modules the command is unknown: nothing is applied or written,
\* and the script goes on.
JobUnknown ==
  /\ session = "jobs" /\ ~loaded /\ at <= Last[sbatch]
  /\ at' = at + 1
  /\ UNCHANGED <<caller, dwg, files, session, sbatch, loaded, mem, router, exec, calls>>

JobHangs ==
  /\ Admits("hang")
  /\ session = "jobs" /\ loaded /\ at <= Last[sbatch]
  /\ session' = "hung"
  /\ UNCHANGED <<caller, dwg, files, sbatch, loaded, at, mem, router, exec, calls>>

\* _QSAVE.
SaveDwg ==
  /\ session = "jobs" /\ at > Last[sbatch]
  /\ dwg' = mem
  /\ session' = "saved"
  /\ UNCHANGED <<caller, files, sbatch, loaded, at, mem, router, exec, calls>>

\* The script writes qsave_done.txt after _QSAVE.
WriteMarker ==
  /\ session = "saved"
  /\ marker' = [marker EXCEPT ![sbatch] = TRUE]
  /\ session' = "quit"
  /\ UNCHANGED <<caller, dwg, result, envelope, sbatch, loaded, at, mem, router, exec,
                 calls>>

\* QUIT.
Quit ==
  /\ session = "quit"
  /\ session' = "none"
  /\ UNCHANGED <<caller, dwg, files, sbatch, loaded, at, mem, router, exec, calls>>

\* accoreconsole crashes.
SessionDies ==
  /\ Admits("session_dies")
  /\ session \in Killable
  /\ session' = "none"
  /\ UNCHANGED <<caller, dwg, files, sbatch, loaded, at, mem, router, exec, calls>>

-----------------------------------------------------------------------------
Caller   == FirstCall \/ ResumeCall \/ \E rs \in BOOLEAN : ReapplyCall(rs)
Executor == SkipBatch \/ RefuseBatch \/ LaunchBatch \/ AcceptBatch \/ StopBatch \/ Finish
Router   == RouterRefuse \/ RouterStart \/ RouterTimeout \/ RouterCollect
Session  == JobOk \/ JobError \/ JobUnknown \/ SaveDwg \/ WriteMarker \/ Quit
Faulty   == ExecutorCrash \/ RouterKilled \/ JobHangs \/ SessionDies

Next == Caller \/ Executor \/ Router \/ Session \/ Faulty

Spec == Init /\ [][Next]_vars

\* The executor loops, the router waits with a timeout, and a session that does
\* not hang runs its script to the end.
Fairness == WF_vars(Executor) /\ WF_vars(Router) /\ WF_vars(Session)

FairSpec == Spec /\ Fairness
-----------------------------------------------------------------------------
(* Properties.                                                             *)

EnvelopeType ==
  [st : {"none", "PASS", "PARTIAL", "FAILED"}, qsave : BOOLEAN, ok : SUBSET Ops]

DiskType ==
  /\ dwg \in Seq(Ops)
  /\ result \in [Ops -> {"none", "ok", "error"}]
  /\ marker \in [Batches -> BOOLEAN]
  /\ envelope \in [Batches -> EnvelopeType]

SessionType ==
  /\ session \in {"none", "jobs", "hung", "saved", "quit"}
  /\ sbatch \in Batches
  /\ loaded \in BOOLEAN
  /\ at \in 1 .. N + 1
  /\ mem \in Seq(Ops)
  /\ router \in {"gone", "starting", "waiting"}

\* A router is at work only for the batch a live or crashed executor launched.
ExecutorType ==
  /\ caller \in Callers
  /\ pc \in {"idle", "batch", "running", "done", "crashed"}
  /\ cur \in 1 .. NB + 1
  /\ pc = "running" \/ router # "gone" => cur \in Batches
  /\ router # "gone" => pc \in {"running", "crashed"}
  /\ okTotal \in Nat
  /\ status \in {"ok", "partial", "blocked"}
  /\ advice \in {"none", "refused", "half", "safe", "other"}
  /\ resume \in BOOLEAN
  /\ calls \in 0 .. MaxCalls
  /\ calls = 0 <=> pc = "idle"

\* The type of every variable.
TypeOK == DiskType /\ SessionType /\ ExecutorType

Persisted(d) == {d[i] : i \in DOMAIN d}

\* Each operation at most once, in patch order.
InOrder(d) == \A i, j \in DOMAIN d : i < j => d[i] < d[j]

\* A report "ok" means that the staged DWG holds every operation of the patch,
\* each exactly once and in patch order (the point of execute_write_batches).
OkMeansApplied == pc = "done" /\ status = "ok" => dwg = FirstOps(N)

\* An envelope with status PASS and qsave_done that the executor goes by, run or
\* skipped, proves that every operation of its batch is in the staged DWG (the
\* route's "Truthful status" comment).
PassMeansPersisted ==
  \A b \in Batches :
    b < cur /\ Complete(envelope[b]) => OpsOf(b) \subseteq Persisted(dwg)

\* What the report counts and names is what is on disk: ops_ok of a report that is
\* ok or half-persisted is the number of operations in the staged DWG, and
\* "half-persisted" names every earlier batch, and of the reported batch the
\* operations its envelope calls ok, each once.
ReportExact ==
  pc = "done" /\ advice \in {"none", "half"} =>
    /\ okTotal = Len(dwg)
    /\ advice = "half" =>
         /\ InOrder(dwg)
         /\ Persisted(dwg) = (1 .. Last[cur - 1]) \cup (envelope[cur].ok \cap OpsOf(cur))

\* "Safe to re-run": the staged DWG is unchanged by the batch that stopped.
SafeMeansUnchanged ==
  pc = "done" /\ advice = "safe" => Persisted(dwg) \cap OpsOf(cur) = {}

\* An executor that stops at a half-persisted batch never runs that batch
\* again: no operation is persisted twice (the module docstring).
NeverAppliedTwice == InOrder(dwg)

\* A call that is made comes to an end: a hung session is killed by the router,
\* a dead router is noticed by the executor.
CallEnds == pc \in {"batch", "running"} ~> pc \in {"done", "crashed"}

-----------------------------------------------------------------------------
(* Who may call again, and over what.                                      *)

\* The faults that a caller which calls again in this way survives.
Survives(c) ==
  CASE c = "resume_advised" -> {"op_error", "hang", "session_dies", "executor_crash",
                                "router_refuses"}
    [] c = "reapply_fresh"  -> {"op_error", "hang", "session_dies", "executor_crash"}
    [] c = "resume_crashed" -> {"hang", "session_dies", "executor_crash", "router_refuses"}
    [] OTHER                -> {}

Repeaters == {"resume_advised", "reapply_fresh", "resume_crashed"}

\* A caller calls once, or again in a way that survives the faults it may meet.
Patient ==
  \A c \in Callers : c = "once" \/ (c \in Repeaters /\ Faults[c] \subseteq Survives(c))

-----------------------------------------------------------------------------
(* The inductive invariant of the first call on an out_dir: no file of an   *)
(* earlier call is there to be mistaken for one of this call.               *)

\* Nothing was written for batch b yet.
Fresh(b) ==
  /\ ~marker[b]
  /\ envelope[b] = NoEnvelope
  /\ \A i \in OpsOf(b) : result[i] = "none"

\* The operations of batch cur before k have reported ok.
OkBefore(k) == \A i \in OpsOf(cur) : i < k => result[i] = "ok"

\* Batches the executor has not launched are fresh.
AheadIsFresh ==
  \A b \in Batches :
    b > cur \/ (b = cur /\ (pc \in {"idle", "batch"} \/ router = "starting")) => Fresh(b)

\* Between batches the staged DWG holds exactly the batches behind the cursor.
BetweenBatches ==
  pc \in {"idle", "batch"} \/ router = "starting" =>
    session = "none" /\ dwg = FirstOps(Last[cur - 1])

\* A session runs the current batch over the drawing that was there.
RunningJobs ==
  session \in {"jobs", "hung"} =>
    /\ dwg = FirstOps(Last[cur - 1])
    /\ ~marker[cur]
    /\ at \in Last[cur - 1] + 1 .. Last[cur] + 1
    /\ \A i \in OpsOf(cur) : i >= at => result[i] = "none"
    /\ OkBefore(at) => mem = FirstOps(at - 1)

\* Once saved, a batch whose operations all reported ok is on disk.
SavedJobs ==
  session \in {"saved", "quit"} /\ OkBefore(N + 1) => dwg = FirstOps(Last[cur])

\* While a session lives its batch has no envelope and its report is not ok.
SessionOwnsBatch ==
  session # "none" =>
    /\ sbatch = cur /\ cur \in Batches
    /\ envelope[cur] = NoEnvelope
    /\ pc = "done" => status # "ok"

\* The marker and the envelope of the current batch tell the truth.
ProofsAreTrue ==
  cur \in Batches =>
    /\ marker[cur] /\ OkBefore(N + 1) => dwg = FirstOps(Last[cur])
    /\ router # "gone" => envelope[cur] = NoEnvelope
    /\ Complete(envelope[cur]) => dwg = FirstOps(Last[cur])

\* The report is made at the end, and "ok" only after the last batch.
ReportInv ==
  /\ pc = "idle" => cur = 1
  /\ status # "ok" => pc = "done"
  /\ pc = "done" /\ status = "ok" => session = "none" /\ dwg = FirstOps(N)

LaneInv ==
  /\ AheadIsFresh
  /\ BetweenBatches
  /\ RunningJobs
  /\ SavedJobs
  /\ SessionOwnsBatch
  /\ ProofsAreTrue
  /\ ReportInv

FirstCallInv == calls <= 1 => LaneInv

-----------------------------------------------------------------------------
\* The lane implements the abstract promise of a staged patch.
Promise ==
  INSTANCE StagedPatch WITH
    drawing <- dwg,
    verdict <- IF pc # "done" THEN "open" ELSE IF status = "ok" THEN "accepted" ELSE "stopped"

PromiseKept == Promise!Spec
=============================================================================
