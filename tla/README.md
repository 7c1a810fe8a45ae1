# Verification of the CAD OS write, batch, attended and night lanes

TLA+ models, TLC runs and TLAPS proofs for `autocad-sdk-router`: the program
that applies patches of native AutoCAD operations to copies of drawings, runs
read operations over drawing corpora, drives a dedicated AutoCAD beside its
user's sessions, and runs queues of units over night. The models are translated
from the source (`src/tools`, `src/src`), not from its documents; a document is
quoted only where the code disagrees with it (see *Findings*).

    tlc -config WriteBatch.cfg MCWriteBatch           # one run
    tlapm WriteBatchProofs.tla                        # one module of proofs

`PROJECT.json` lists, by name, the components, the runs with their properties,
the lines of code each definition models, the hazards and the theorems.

## 1. Inventory

The repository is a Python and PowerShell control plane around AutoCAD. Its own
logic is sequential within most processes; what makes it hard is that several
processes share a directory of files, that each of them may die between two of
its steps, and that callers repeat calls over the files a former call left.

| Component | Code | State | Operations | Hard behaviour | Correct when |
|---|---|---|---|---|---|
| Batch planner | `tools/patch_batch_planner.py` | open batch, closed batches, scan position | `plan_batches`, `validate_plan` | boundary cases of the greedy scan: oversized units, relink barrier, last batch | batches are consecutive, complete and bounded; a block definition is never split; relinks are apart |
| Batch executor | `tools/patch_batch_executor.py` | cursor, count of ok operations, report | one loop over batches: resume, refuse, launch, account, stop | death between launch and report; resume over old files; half-persisted batches | "ok" means everything applied once; "half persisted" and "safe to re-run" are true |
| Router | `tools/autocad-router.ps1` | script, marker, result files, envelope of a batch | write-batch route, cad-job route, `Invoke-AccoreScr` | timeout kill, stale files, early returns that write no envelope | a PASS envelope is true |
| Router client | `tools/run_job.py` | none | `run_router_write_batch`, `run_router_cad_job` | its timeout kills the router and orphans AutoCAD | it never takes an old envelope for a new one |
| Handle ledger, relink translation | `tools/patch_engine.py`, callbacks of the executor | map of source to new handles | harvest after a batch and for a skipped one, translate, refuse | handles differ when an unsaved batch runs again; relinks behind a skipped batch | a relink in the drawing names the entity its author meant |
| Native job | `src/Ariadne.AcadNative` | drawing in memory | one handler per operation | hangs, refusals, failed module load | per-operation result file tells the truth |
| Patch engine | `tools/patch_engine.py` | staged input, step outputs, staged output, pre and post graphs | `apply_staged` with its per-op and batched lane | edits of the original by others, crashes, calls repeated in one `out_dir` | "ok" means the output is the whole patch over the original as it is |
| Registry cache | `tools/patch_engine.py` 151-285 | cached registry and its stat key | read, stat, reuse | stat taken after the read | a change of the file is seen |
| Corpus batch runner | `tools/corpus_batch.py` | an envelope per drawing, a summary | parent loop, one worker per drawing, skip, kill, collect | timeout racing the last write, dead workers, dead parents, changed requests | ok means the requested operations ended ok; every call ends |
| Attended lane | `tools/attended_lane.py`, `tools/attended/run_attended_job.ps1` | run directory, processes by PID and start time, SECURELOAD | gate, launch, poll, stop, collect, publish, recover | users open and close sessions meanwhile; PIDs are given out again; the launcher dies; two writers of one receipt | nothing is left behind, security is restored, users' sessions are not ended |
| Night runner | `tools/night/ornith_night_runner.py` | pool, breaker, hash-chained receipts, claims | submit, wait, receipt, claim, trip, finish, resume | torn lines, results that arrive together, units in flight when the breaker opens | the chain verifies, a unit has one receipt, the terminal record is true |
| Live pump | `AriadneNativeJob.cpp` 7963-8475 | named pipe, one client | connect, framed request loop, `live.stop`, teardown | frames in pieces, full buffers, silent clients | answers in order and complete, the pump ends |
| Guarded experiments | `tools/e2/run_guarded_experiment.py` | bound identities and hashes, receipt on disk | preflight, marker, revalidate, lock, command, recheck, persist | files replaced or redirected between any two steps; writes that fail | the command ran on what was hashed; a success receipt was earned |
| File snapshot | `tools/verification` | none | open, hash, re-stat | a file changes between open and hash | evidence is bound to one file |
| IR, diff, validation; extractors; command surface; gates and reports | `tools/*.py`, C# | data | pure functions, file formats, dispatch | none of the above | out of scope, see section 9 |

How they interact: `apply_staged` copies the original, asks the planner for
batches and hands them to the executor, which launches the router (through the
client) once per batch; the router writes a script and starts one
`accoreconsole.exe`, which mutates the staged drawing in place. Between them are
only files: result files per operation, a marker written after `_QSAVE`, an
envelope per batch. The executor calls the handle ledger back before and after
each batch. The per-op lane makes one cad-job router call per operation instead,
each on a copy of its own; the attended lane replaces the router by a launcher
and a full AutoCAD, with files in a run directory between the three. The corpus
runner, the night runner and the guarded experiments are separate programs with
the same problem: processes that share files and may die. The live pump is the
only part that talks over a channel.

## 2. Plan

In the order of importance; all are done except item 8.

1. `StagedPatch`, `WriteBatch`: the batched write lane: caller, executor, router, session.
2. `BatchPlanner`: what that lane assumes of its plan.
3. `PatchedCopy`, `ApplyStaged`: both lanes of `apply_staged` over repeated
   calls; `WriteBatch` is the inside of its batched lane.
4. `CorpusBatch`: parent, workers and resume.
5. `NightRunner`: pool, breaker, receipts with their hash chain, restart.
6. `HandleLedger`: harvest and translation over the batches of a plan, composed
   with `WriteBatch` (each of its actions takes one of the lane along).
7. `LivePump`: frames, client and pump on one pipe.
8. `RegistryCache`, `FileSnapshot`: not written. Nothing in the system writes the
   registry while a call runs, and the snapshot's protocol (open, hash, stat
   again) is part of `GuardedExperiment`.
9. `AttendedLane`, `GuardedExperiment`.

Abstract specifications: `StagedPatch` (what a staged drawing may go through)
and `PatchedCopy` (what `staged_output.dwg` may hold and when "ok" may be said).

Open ends: every invariant, action property and refinement that a run checks is
also a theorem; of the liveness properties the theorems give the half without
fairness (section 7). What is left is breadth: the components of section 9.

## 3. Modules and the code

| Module | What it is |
|---|---|
| `StagedPatch` | abstract: operations are persisted batch by batch, in order, once; "accepted" means complete |
| `WriteBatch` | executor, router and session over one `out_dir`; implements `StagedPatch` under `Promise` |
| `MCWriteBatch` | plans and fault functions for TLC |
| `HandleLedger`, `MCHandleLedger` | the ledger of handles over `WriteBatch`; patches with relinks for TLC |
| `WriteBatchProofs` | type correctness; every safety property of a first call, under every fault, and of any number of repeated calls; the invariant of the ledger |
| `BatchPlanner` | `plan_batches` as a scan, one unit a step; `ValidPlan` is `validate_plan` |
| `MCBatchPlanner` | every patch of up to five operations |
| `BatchPlannerProofs` | the scan invariant, its consequences, and that `validate_plan` accepts the plan |
| `PatchedCopy` | abstract: the output is always a whole patch over some version; "ok" only over the current one |
| `ApplyStaged` | `apply_staged`, both lanes, other programs that edit the original; implements `PatchedCopy` under `Promise` |
| `MCApplyStaged`, `ApplyStagedProofs` | constants for TLC; safety and refinement theorems |
| `CorpusBatch` | parent and workers over one run directory |
| `MCCorpusBatch`, `CorpusBatchProofs` | constants for TLC; safety theorems |
| `AttendedLane` | Python, launcher, dedicated AutoCAD and users on one machine |
| `MCAttendedLane`, `AttendedLaneProofs` | plans of calls with their faults for TLC; safety theorems |
| `NightRunner`, `NightRunnerProofs` | the pool, the receipts and their chain over repeated runs; safety theorems |
| `LivePump`, `MCLivePump` | the pump and its client over two byte streams; what clients send |
| `LivePumpProofs` | the bytes on the way and the answers to them; safety theorems |
| `GuardedExperiment`, `GuardedExperimentProofs` | `run_guarded` among writers of its files; safety theorems |

**WriteBatch.** `dwg` is the staged drawing on disk as the sequence of
operations persisted in it, `mem` the drawing in a session's memory. `result`,
`marker` and `envelope` are the files of the batches and are never cleaned,
except that `RouterStart` removes the marker, as the route does. The executor's
loop is `SkipBatch`, `RefuseBatch`, `LaunchBatch`, `AcceptBatch`, `StopBatch`,
`Finish`; `router` and `session` are the route's and the script's positions.
`RouterKilled` and `ExecutorCrash` leave the other processes alive. A caller
calls once, or again in one of four ways (`CallerKinds`): it follows the report,
it resumes after a crash, or it calls `apply_staged` again with resume off or
on. A behaviour keeps one kind: a mixture (start over with resume off, die, then
resume) can lose operations by the mechanism that `write_batch_reapply` shows.
`Survives` names, per kind, the faults under which the lane keeps its promise;
`Patient` says that a caller meets no other. `reapply` survives none: the run
that shows it is a finding.

**HandleLedger.** An append's source handle is its operation; `pairs` is the
ledger of the call, `given` what the result files say, `job` the ledger that the
job documents on disk were translated with, `ents` the entities of the drawing
with their handles and references. Handles are fresh numbers above those in the
drawing, so a batch that runs again after an unsaved one gives other handles.
`LSkipBatch` harvests a skipped batch from its result files, `LRefuseBatch`
refuses a batch that relinks what the ledger does not have.

**BatchPlanner.** Indices are 1-based. `IsUnit` is the scan's look-ahead over a
block definition, `ClosesBatch` its two reasons to close a batch.

**ApplyStaged.** A drawing file is a version of the original and the operations
applied to it. `before` is the hash taken when the original was staged; hash and
copy are two steps, and others may save between them. A graph is represented by
the drawing it describes.

**CorpusBatch.** An envelope is its status, `ops_requested`, and the operations
of `ops_run` that ended ok. `worker[c]` is the worker launched last by call `c`;
one of an earlier call lives on only if that call's parent died. A skipped
drawing's envelope is tested, read again and written back in three steps, as in
the code.

**AttendedLane.** A process is a PID and a birth number, which stands for the
start time that the code compares; `table` says which process has a PID now.
`file` is what a run directory holds, `ps` the launcher of each call, step by
step (`Gate`, `LaunchAcad`, `PollEnds`, `Stop`, `Recheck`, `TaskKill`,
`Collect`, `Publish`), `py` what Python does next (`SeeFinal`, `SeeCompletion`,
`LauncherGone`, `OuterTimeout`, `Recover`, `CloseHelper`, `LinkReceipt`,
`Judge`, `PostInspect`). Users open and close sessions at any moment. Refusals
before a launch are one action, `Decline`.

**NightRunner.** `log` is `receipts.jsonl` as lines of pieces, so that a line a
crash tore and the record that lands on it are kept apart from whole ones; the
hash of a line is the sequence of its pieces. The main thread's loop is `Submit`,
`Wait`, `Result`, `WriteRecord`, `WriteFile`, `BatchDone`, `LoopEnds`, `Finish`;
results that arrive together are handled one by one, each with its records.

**LivePump.** A frame is `HeaderLen + BodyLen` bytes that know their place; reads
and writes move any number of them that fits. `FlushFileBuffers` and
`DisconnectNamedPipe` do to the bytes on the wire what Windows documents.

**GuardedExperiment.** A requested path leads to one of two files; an edit
changes content and identity, `Retarget` redirects the path. A snapshot opens,
reads and looks again; the lock is `CreateFileW` without write sharing, taken in
canonical order.

## 4. Runs

Passing runs:

| Run | Shows |
|---|---|
| `write_batch` | up to three calls, by a caller that calls once under every fault at every step and by callers that follow the report, start over with resume off, or resume after the executor died: an ok report means every operation once and in order, a PASS envelope is true, and a report counts and names exactly what is on disk |
| `handle_ledger` | the same lane with the handle ledger: "safe" is true, nothing is applied twice, the lane implements `StagedPatch`, every call ends; a relink in an accepted drawing refers to the entities its author meant, and a batch is refused only when the ledger really lacks a handle |
| `batch_planner` | every patch of up to five operations over two block names, limits 1 to 3: the plan passes the validator, is what `WriteBatch` assumes, and only a single unit is over the limit |
| `apply_staged` | both lanes, two calls, two edits by others, crashes and every noticed fault: "ok" is the whole patch over the hashed original, graphs belong to the drawings, and `PatchedCopy` is implemented |
| `corpus_batch` | two drawings, two operations, two calls, hanging and dying workers, dying parents: ok envelopes are complete, the summary answers the request and agrees with the disk, every call ends |
| `attended_lane` | beside users and over two PIDs that are given out again, a call of either kind under every combination of faults, or two calls of which the first's launcher may die: ok means nothing left, security as it was and a receipt of this call; a receipt is published once; only users end users' sessions; every call returns |
| `night_runner` | three units, two workers, three runs, one of them killed at any step or in a write: receipts have claims, no unit has two, the chain verifies over all runs, the terminal record is true, every run ends |
| `live_pump` | up to three requests in pieces through a pipe smaller than a frame: answers in order without a gap, the answer to `live.stop` arrives, the pump ends for every client but one that stays connected and leaves an answer unread, and then it is in its teardown |
| `guarded_experiment` | two calls, three edits or redirections by others between any two steps, failing writes, crashes: a bound command runs on what the preflight hashed, a success receipt was earned |

Runs that end in a violation, one for each listed finding of section 8:
`write_batch_reapply`, `apply_staged_silent`, `attended_lane_saved`.

Seven further configurations each end in a counterexample that section 8
describes. Six ask what a fault does that the passing runs leave out:
`WriteBatchSaveKill.cfg`, `WriteBatchCrash.cfg`, `WriteBatchStale.cfg` and
`WriteBatchRefused.cfg` (of `MCWriteBatch`), `ApplyStagedGraph.cfg` and
`CorpusBatchStale.cfg`. A fault that leads to one of them is named in
`FaultKinds` and left out of the passing runs of the callers it breaks, so that
the passing runs say for whom the promise does hold. The seventh,
`LivePumpSilent.cfg`, has the clients and the fairness of `live_pump`, which leaves
nothing out: it checks `PumpEnds`, what the source says of every client, where
`live_pump` checks `EndsOrHeld`, which names the one way in which it is not so.

`CHECK_DEADLOCK FALSE` is set where a system comes to rest: all calls are made
and no process is left.

## 5. Bounds, and why they are enough

* `WriteBatch`, `HandleLedger`: four operations in batches of two, one and one.
  A half-persisted batch needs two operations in one batch; a wrong skip or a
  wrong count needs an earlier and a later batch; a relink that depends on a
  skipped batch needs a third. `MaxCalls = 3`: a fault in one call, its
  consequence in the next, and a call after that.
* `BatchPlanner`: five operations are a block with two appends between two other
  operations, or a relink between two blocks; limits 1 to 3 are below, at and
  above the size of a unit.
* `ApplyStaged`: three operations, `MaxEdits = 2` (an edit before and one after
  the hash), `MaxCalls = 2` (a stale step output needs two).
* `CorpusBatch`: `F = 2` drawings, so that a leftover writes to a drawing the
  parent has passed; two operations, so that one can fail and the other not;
  `MaxCalls = 2`.
* `AttendedLane`: two PIDs and three births, so that a PID is given out again
  while a user's session is there; two calls, so that a run directory and an
  orphan of the first meet the second. `Plans` are a single call of either kind
  with every fault, or two write calls of which the first's launcher dies.
* `NightRunner`: three units for two workers (results that arrive together and
  one that waits), a breaker of two failures, a heartbeat every second result (25
  in the code, a `Beat` of the model), three runs with one crash: before it,
  after it, and a run over what the second left.
* `LivePump`: header and body of two bytes, a pipe of three, so that every frame
  is cut in a header, in a body and between them, and an answer does not fit.
  Six client plans of up to three requests: reads, a stop first, last and in the
  middle, a bad length.
* `GuardedExperiment`: three edits, so that a file can change, change back in
  content and be redirected; two calls, so that an earlier receipt is there.

The theorems hold without these bounds; they bound the runs only.

## 6. Fairness

`WriteBatch!FairSpec` and `HandleLedger!LSpec`: the executor is a loop without
waits except for the router; the router waits with a timeout
(`WaitForExit(TimeoutMs)`); a session that does not hang runs its script to the
end. Nothing is assumed of a hung session: `RouterTimeout` is what ends it. The
faults are not fair, nor are the caller's next calls.

`CorpusBatch!FairSpec`: weak fairness of the parent alone, which polls with a
deadline. Nothing is assumed of workers.

`AttendedLane!FairSpec`: weak fairness of Python alone, which polls with a
deadline and kills the launcher. Nothing is assumed of launcher, AutoCAD, users.

`NightRunner!FairSpec`: weak fairness of the main thread and of each worker,
whose CLI process has a timeout and is killed.

`LivePump!FairSpec`: weak fairness of the pump alone, which has a timeout on its
connect, reads and writes. Nothing is assumed of the client, which is another
program and may be silent or stop reading; only its requests come to an end (one
that asks for ever is served for ever). `EndsOrHeld` says what that is worth: the
pump ends for good, or it waits for good in `FlushFileBuffers` for a client that
stays and does not read. A client that reads what is there, or goes, cannot be
such a one. `PumpEnds`, without that exception, does not hold, which
`LivePumpSilent.cfg` shows.

`CallEnds`, `CallReturns`, `RunEnds` and `EndsOrHeld` are the liveness properties.
The other modules make no liveness claim: the planner's scan is a `for` loop,
`apply_staged` inherits its waiting from the lanes, and the command of a guarded
experiment may run for ever.

## 7. Proofs

Assumptions, all named, in the module that declares the constants:
`PlanAssumption` (a plan is consecutive, nonempty ranges that end at `N`) and
`CallAssumption` in `WriteBatch`, `PlannerAssumption`, `ApplyAssumption`,
`CorpusAssumption`, `AttendedAssumption`, `NightAssumption`, `GuardAssumption`,
`LinkAssumption`, `PumpAssumption`.
`BatchPlannerProofs!PlansFitTheLane` proves of every plan what `PlanAssumption`
assumes of one.

* `WriteBatchProofs`. `TypeCorrect` for any number of calls and any faults. Then
  the first call on a new `out_dir`, under every fault. `OkMeansApplied` is not
  inductive: it depends on what the envelopes prove, these on the marker and the
  result files, and these on what the session has done. `LaneInv` says it from
  the front to the back: batches ahead of the cursor have no files
  (`AheadIsFresh`), between batches the drawing holds exactly those behind it
  (`BetweenBatches`), a session applies the current batch to that drawing
  (`RunningJobs`, `SavedJobs`), owns the batch (`SessionOwnsBatch`), and the
  marker and the envelope tell the truth (`ProofsAreTrue`). `ExactInv` adds that
  results, counts and the report are exact. From the two follow
  `FirstCallCorrect`, `FirstCallPassPersisted`, `FirstCallReportExact`,
  `FirstCallAppliedOnce`, `FirstCallSafe` (which needs that nothing kills the
  session between `_QSAVE` and the marker, a finding), and, with `MaxCalls = 1`,
  `FirstCallKeepsPromise`: every step is one of `StagedPatch` or a stutter.
* `WriteBatchProofs`, repeated calls: the same properties for any number of
  calls, for `Patient` callers. `AheadIsFresh` is false here: files of former
  calls are ahead of the cursor. `RepeatInv` replaces it by a front: there is a
  batch `f`, not behind the cursor, such that the drawing at rest holds exactly
  the batches up to `f` and the envelopes an executor may resume by prove exactly
  those (`Front`, `Proven`, `CursorInv`). A session applies the current batch to
  a drawing that holds all earlier ones and none of this one (`SessionInv`,
  `SavedInv`), what it returns is accounted as it is (`ReturnInv`), and a call
  ends in a front again (`EndInv`). `CallerInv` joins it with the first-call
  invariants for callers that call once. The theorems are `RepeatedCallsCorrect`,
  `...PassPersisted`, `...ReportExact`, `...AppliedOnce`, `...Safe` and
  `RepeatedCallsKeepPromise`. Section 8 has counterexamples for faults that
  `Patient` excludes.
* `WriteBatchProofs`, the ledger (`HandleLedger`). `LinksRight` speaks of the
  entities in the drawing; a relink takes its handles from the job document, this
  from the ledger, and the ledger from result files, perhaps of an earlier call
  whose entity was never saved and was drawn again since. `LedgerInv` follows that
  chain. `given` is the handle an operation's entity has in the latest drawing it
  is in: the drawing on disk and the one in memory are as it says (`Drawn`). A
  pair in the ledger is of an append whose entity is persisted, with the handle it
  was given there, and no append behind the cursor lacks one (`PairsInv`); the
  handles of the job document name persisted entities (`JobInv`); a refused call
  has left nothing running that could still add what it missed (`RefusedInv`).
  The step needs of the lane only what `LaneKnown` says, cited as `LaneAtWork` and
  its companions: a session at work draws operations of the current batch for the
  first time, over all those behind it. `LedgerFollowsLane` says that the composed
  specification implies the lane's, so that `LedgerKeepsPromise` inherits the
  theorems of repeated calls.
* `BatchPlannerProofs`. `ScanCorrect` proves `ScanInv`: closed batches are good
  (`GoodPlan`) and the open one is exactly what lies between them and the cursor
  (`OpenBatch`). From it follow `PlansFitTheLane`, `GroupsStayWhole`,
  `RelinksWaitForAppends` and `BatchesStayBounded`, for patches of any length.
  `PlansAreAccepted` (`ValidatorAccepts`) flattens the plan, and the flattening is
  a function chosen by a recursive equation, of which the prover can assume
  nothing: `BatchesInOrder` exhibits a solution (value `i` is the range of the
  operations up to the end of batch `i`), `FlattenedOnce` shows that there is no
  other (two that differ would do so at a least place), `FlattenSolved` joins them.
* `ApplyStagedProofs`. `TypeCorrect`; then, under `Noticed` (no operation fails
  silently and no error document passes for a graph, the two findings),
  `OkPatched`, `EvidenceMatches` and `KeepsCopyPromise`, the refinement of
  `PatchedCopy`. `CopyInv` adds to the two properties that the copied version
  lies between the hashed and the current one (`StagedInv`, from which an
  unchanged original implies that the copy was of that version), that the chain
  of inputs holds the first `n` operations (`ChainInv`), and what the output and
  the graphs hold by then.
* `CorpusBatchProofs`. `TypeCorrect` and `OkComplete` under every fault;
  `SummaryTrue`; `OkAnswersRequest` under `NothingStale` (a caller that changes
  its request meets neither a worker that dies before it writes nor a parent
  that dies). `CorpusInv` joins that only one worker is alive without a dead
  parent (`OneWorkerInv`), that a repeated request is the only one around
  (`SameRequestInv`), and that a changed one has replaced the envelope by the
  time the parent reads it (`ChangedRequestInv`).
* `AttendedLaneProofs`. The invariant's core: birth numbers are unique and those
  of users and of dedicated sessions are disjoint (`BirthInv`); while the
  launcher holds a handle, the PID of its AutoCAD is not given out again
  (`HandleInv`), so that `taskkill` by PID never meets a user's session
  (`UsersSafe`). Run directories are unique, because any artifact in one
  reserves it (`DirInv`), and the launcher publishes only where no receipt is
  while Python links one only when the launcher is dead (`FinalInv`); hence
  `ReceiptKept` and `OkFresh`. `LaunchInv` and `ClosedInv` carry what the launcher
  knows of its AutoCAD to the receipt (`OkClosed`), `ProfileInv` that the profile
  is the user's when no script of a dedicated session is between weakening and
  restoring it (`OkRestored`, for calls that did not begin beside an orphan).
* `NightRunnerProofs`. `FileInv` says of the receipts on disk what holds at every
  step and after every crash: what is still to be written is of units without a
  receipt (`HandInv`, `OutInv`), a line without a newline does not parse
  (`TornInv`), and the hash in memory is that of the last line, if that parses
  (`ChainInv`).
  `StateInv` relates the run's memory to them: every unit begun is in the pool,
  about to be written or written (`AccountInv`), and the count of failures is
  the length of the last row of them among the results (`TellInv`). From
  them follow `ChainHolds`, `OneReceipt`, `OkClaimed` (a claim is written before
  the receipt that says ok) and `StateTrue` (what the terminal record says of
  exhaustion, deadline and breaker).
* `LivePumpProofs`. `InStep` is about the bytes a client has read, and these have
  been pieces of frames in either direction, cut anywhere. `PumpInv` says where
  every byte is: what was sent is what the pump has taken, then what is on its way,
  and what was received is followed by what is on its way down, both in order
  (`WireInv`); before the first read nothing has moved (`BeforeInv`); and at each
  place of the serve loop the bytes taken and given are those of a number of whole
  frames and of the part in hand (`HeadInv`, `BodyInv`, `WriteInv`), also when the
  client has gone with some unread. `StopInv` says that a loop that was stopped
  has put the whole answer on the pipe, and that teardown waits for the pipe to be
  empty. The theorems `AnswersInStep` and `StopIsAnswered` hold for every length
  of a frame and size of the pipe.
* `GuardedExperimentProofs`. `SlotInv`: what was seen and opened is one of the
  files of its name; `HeldInv`: what a bound call has qualified stays qualified,
  and while its command runs both files are held and are what was bound;
  `EarnedInv`: what is about to be persisted as a success is one. They give `Held` and
  `ReceiptTrue`.

Running down. Of each liveness property the theorems give the half that needs no
fairness: a bound, a natural number, from which every step of the fair process
takes. `CallRunsDown` (the parent of `CorpusBatch`: at most `7 * F + 6` steps a
call), `PythonRunsDown` (`AttendedLane`: at most eight) and `PumpRunsDown`
(`LivePump`) say besides that nothing else touches the bound: no worker, launcher,
AutoCAD or client can keep them busy. `LaneRunsDown` (`WriteBatch`) and `RunRunsDown`
(`NightRunner`) are about all processes at once: every step between two calls
takes from the bound, faults and orphaned sessions included, except the night
runner's wait of a second, which takes nothing while a worker runs.

Only model-checked: the liveness properties themselves (`CallEnds`, `CallReturns`,
`RunEnds`, `EndsOrHeld`). Beyond the theorems above they need that the fair process
can take a step as long as it has not ended, which is a statement about `ENABLED`,
and the fairness; both are beyond the prover.

## 8. Findings

Each of the first three is a run; `PROJECT.json` quotes the lines.

* `write_batch_reapply`: `apply_staged` again in the same `out_dir` restages the
  drawing and then skips every batch that passed before.
* `apply_staged_silent`: the per-op lane counts an operation as applied because a
  working copy exists, whatever its native result says.
* `attended_lane_saved`: AutoCAD is stopped at the end of the 30 s of grace,
  after the script restored the settings and before `_QSAVE`; every test of the
  call passes, and the output lacks the write.

The further configurations of section 4:

* `LivePumpSilent.cfg` (`PumpEnds`): `AriadneNativeJob.cpp` says that the pump "can
  NEVER hang a headless accoreconsole session" (7978-7980) and that a timeout
  "breaks into the same teardown -> the pump can never hang headless" (8008-8009).
  But the `FlushFileBuffers` of that teardown (8468) has no timeout: a client that
  stays connected and leaves a byte of an answer unread holds the pump there, and
  with it the command thread of AutoCAD.
* `WriteBatchSaveKill.cfg` (`SafeMeansUnchanged`): a kill between `_QSAVE` and
  the marker leaves a changed drawing that the report calls unchanged
  (`patch_batch_executor.py` 20-21 and 289-292).
* `WriteBatchCrash.cfg` (`NeverAppliedTwice`): resume re-runs a half-persisted
  batch after the executor died (`patch_batch_executor.py` 25-26 says it never
  does).
* `WriteBatchStale.cfg` (`PassMeansPersisted`): result files of an earlier
  attempt are taken for those of a session whose modules failed to load
  (`autocad-router.ps1` 2186-2187 calls a PASS proof of every operation).
* `WriteBatchRefused.cfg` (`OkMeansApplied`): with resume off over an old
  `out_dir`, a router that returns before it writes an envelope leaves the one of
  the former call, which `run_job.py` 547 reads as the answer.
* `ApplyStagedGraph.cfg` (`InspectsMatch`): the error document of a failed
  inspection becomes the graph of a drawing with no entities.
* `CorpusBatchStale.cfg` (`OkMeansRequested`): a worker that dies before its
  first write leaves the envelope of an earlier request, which becomes the answer
  to this one.

Smaller observations made while modelling: `handle_map.json` after a stopped,
unsaved batch contains pairs that were never saved; a relink that fails midway
has changed the hatch already, and the script goes on to `_QSAVE`.

## 9. What is not modelled, and why

In the modelled components:

* A second session on a staged drawing whose orphaned session still runs:
  AutoCAD's file lock decides, and it is not in the repository. A new session
  starts when the old one is gone, and a later call when the old router is gone.
* `_QSAVE` is atomic and succeeds; `p.Kill()` and `taskkill` of the router's
  session succeed. File copies are atomic: a crash in the middle of a copy is a
  crash before it.
* The original never returns to an earlier version. A file that is edited and
  restored between hash and copy would pass the last hash check;
  `staged_sha256` is recorded by the code and compared by nobody.
* A caller that resumes after its router was killed although the session had
  saved applies a batch twice, by the mechanism of `WriteBatchSaveKill.cfg`;
  `router_killed` is therefore a fault of callers that call once only.
* `validate_plan` also compares `max_ops_per_batch` of the plan with itself (it
  always agrees), which `ValidPlan` leaves out. It does not compare batches with
  it; `BatchesBounded` does.
* What the validator of `apply_staged` finds is recorded and never blocks "ok";
  its content is data.
* Durations. For a write batch the client waits `max(3600, t + 600)` s, `t` being
  the router's own session timeout (`run_job.py` 471-485), so the router normally
  kills a hung session first (`RouterTimeout`); the client's timeout, which orphans
  the session (`RouterKilled`), is for a router that does not return. Both orders
  are modelled. For a job of the per-op lane both wait 2400 s, and a hung session
  may be orphaned; it works on a copy of its own.
* In `HandleLedger`, the authoring of relinks, and a repeated call with resume
  on over a staged drawing made anew (it replays handles of the earlier drawing,
  by the mechanism of `write_batch_reapply`).
* In `CorpusBatch`, arguments of operations (resume compares ids only), the
  order in which operations run, two writers of one temporary file, and a parent
  that starts while a leftover worker has not read its request yet. A worker
  killed among its operations leaves status `running` in the summary, which the
  document does not list.
* In `AttendedLane`: a process whose start time is unknown, which the launcher
  neither drives nor stops; errors of the launcher before its first gate (they
  end like a blocked gate). Assumed: a PID is not given out again while a handle
  to its process is open, files are written whole, users leave SECURELOAD alone.
  A call that ends in an error may leave an AutoCAD behind, with SECURELOAD
  weakened; the next call takes it for a user's session. `OkRestores` says
  nothing of calls that begin beside one.
* In `NightRunner`: a queue in which two units have one id; a crash after the last
  byte of a record and before its newline; exceptions other than those of a unit's
  result; a torn line that is not UTF-8, on which a later run stops; a queue that is
  rebuilt with other numbers; `BREAKER_TRIPPED.txt`, which nothing removes.
* In `LivePump`: what a read operation returns; a cancelled read that completes
  into a buffer that is gone (`CancelIo` without waiting); a second client.
* In `GuardedExperiment`: resolving a path and opening the file, which are one step
  of a snapshot (a redirection between the two is one before or after it to the
  lock, which resolves and checks again); two processes with one receipt path; a requested path
  that is redirected and restored while the command runs, which no check sees;
  POSIX locks, which only bind those who ask. When the marker or the terminal
  write fails, an older receipt of success stays on disk, and the outcome says
  that nothing was persisted.

Components:

* Registry cache, file snapshot: section 2, item 8.
* Router routes other than write-batch and cad-job, `run_router_extract`: one
  process call with its output, without state of its own.
* Native job module: what one operation does to a drawing is data for every
  property here, except its handles, which `HandleLedger` has. `CADAGENT_MAILBOX`,
  the file-based sibling of the pump, is not modelled.
* IR builder, diff, validator and stores: pure functions over large documents.
* Extractors and converters: file formats.
* Command surface, gates, benchmarks, experiment cells, reports: dispatch,
  statistics and measurement. They are most of the repository's lines and keep
  no protocol state, which is why the mapped share of its lines is small.
