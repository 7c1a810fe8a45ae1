----------------------------- MODULE CorpusBatch ----------------------------
(***************************************************************************)
(* tools/corpus_batch.py: a parent sends one worker process after another  *)
(* over the drawings of a corpus.  A worker runs the requested operations  *)
(* and rewrites result_envelope.json after each; the parent waits for it   *)
(* with a deadline, kills it when late, and writes the envelope once more. *)
(* A later call on the same run directory skips drawings whose envelope is *)
(* terminal and covers its request.  The workers of a parent that died     *)
(* live on.                                                                *)
(*                                                                         *)
(* Operations are told apart by their ids, as should_resume_skip does; an  *)
(* envelope is replaced whole (_json_dump); taskkill succeeds.             *)
(***************************************************************************)
EXTENDS Naturals, FiniteSets

CONSTANTS
  F,         \* number of drawings
  Ops,       \* the operations that can be requested
  MaxCalls,  \* bound on the calls of run_batch on one run directory
  Faults,    \* Faults[c]: the faults caller c meets, see FaultKinds
  Callers    \* who calls again: with the same operations or with others

FaultKinds ==
  { "op_error",      \* an operation does not end with status ok
    "dies_early",    \* a worker dies before it writes anything
    "dies_late",     \* a worker dies among its operations
    "parent_crash" } \* the parent dies

CallerKinds == {"same_ops", "changed_ops"}

ASSUME CorpusAssumption ==
  /\ F \in Nat \ {0}
  /\ Ops # {} /\ IsFiniteSet(Ops)
  /\ MaxCalls \in Nat \ {0}
  /\ Callers \in SUBSET CallerKinds \ {{}}
  /\ Faults \in [Callers -> SUBSET FaultKinds]

VARIABLES
  caller,    \* how this caller calls again
  envelope,  \* per drawing: result_envelope.json
  worker,    \* per call: the worker its parent launched last
  pc,        \* the parent: what it does next, or how it ended
  cur,       \* the drawing it is at
  request,   \* the operations of this call
  force,     \* its --force
  payload,   \* the envelope it is about to write
  results,   \* per drawing: what goes into its summary
  calls      \* calls made so far; the number of the current one

vars == <<caller, envelope, worker, pc, cur, request, force, payload, results, calls>>

Admits(f) == f \in Faults[caller]

Drawings == 1 .. F
Calls    == 1 .. MaxCalls
Requests == SUBSET Ops \ {{}}

Terminal == {"ok", "failed", "timeout"}

\* What an envelope says: its status, ops_requested, and the operations of ops_run
\* that ended ok.
Envelope(st, req, ok) == [st |-> st, req |-> req, ok |-> ok]

NoEnvelope == Envelope("none", {}, {})

NoWorker == [st |-> "gone", at |-> 1, req |-> {}, ran |-> {}, ok |-> {}]

-----------------------------------------------------------------------------
Init ==
  /\ caller \in Callers
  /\ envelope = [e \in Drawings |-> NoEnvelope]
  /\ worker = [c \in Calls |-> NoWorker]
  /\ pc = "idle" /\ cur = 1 /\ request \in Requests /\ force = FALSE
  /\ payload = NoEnvelope /\ results = [e \in Drawings |-> NoEnvelope]
  /\ calls = 0

\* run_batch: a first call, or one more in the same directory.
Call ==
  /\ pc \in {"idle", "done", "crashed"} /\ calls < MaxCalls
  /\ pc' = "entry" /\ cur' = 1 /\ calls' = calls + 1
  /\ request' \in (IF calls = 0 \/ caller = "same_ops" THEN {request} ELSE Requests)
  /\ force' \in (IF calls = 0 THEN {FALSE} ELSE BOOLEAN)
  /\ results' = [e \in Drawings |-> NoEnvelope]
  /\ UNCHANGED <<caller, envelope, worker, payload>>

-----------------------------------------------------------------------------
(* The parent.                                                             *)

\* Variant: any terminal envelope is as good as a new one.
CoversAny(e) == e.st \in Terminal

\* should_resume_skip: terminal, and its operations cover the requested ones.
Covers(e) == e.st \in Terminal /\ request \subseteq e.req

Skip ==
  /\ pc = "entry" /\ cur <= F /\ ~force
  /\ Covers(envelope[cur])
  /\ pc' = "resume"
  /\ UNCHANGED <<caller, envelope, worker, cur, request, force, payload, results, calls>>

\* It is read again, to be written back with resumed = true.
Reread ==
  /\ pc = "resume"
  /\ payload' = envelope[cur]
  /\ pc' = "persist"
  /\ UNCHANGED <<caller, envelope, worker, cur, request, force, results, calls>>

\* --force clears the directory first.  A worker is started with the request.
Launch ==
  /\ pc = "entry" /\ cur <= F
  /\ force \/ ~Covers(envelope[cur])
  /\ envelope' = IF force THEN [envelope EXCEPT ![cur] = NoEnvelope] ELSE envelope
  /\ worker' = [worker EXCEPT ![calls] =
                  [st |-> "starting", at |-> cur, req |-> request, ran |-> {}, ok |-> {}]]
  /\ pc' = "waiting"
  /\ UNCHANGED <<caller, cur, request, force, payload, results, calls>>

\* The worker has exited: its envelope, or whatever envelope is there.
Collect ==
  /\ pc = "waiting" /\ worker[calls].st = "gone"
  /\ payload' = IF envelope[cur] = NoEnvelope THEN Envelope("failed", request, {})
                ELSE envelope[cur]
  /\ pc' = "persist"
  /\ UNCHANGED <<caller, envelope, worker, cur, request, force, results, calls>>

\* Variant: a worker that has reported progress is left alone.
LateIfSilent == worker[calls].st = "starting"

Late == worker[calls].st # "gone"

\* The deadline passes between a poll that found the worker alive and the kill.
Deadline ==
  /\ pc = "waiting" /\ Late
  /\ pc' = "late"
  /\ UNCHANGED <<caller, envelope, worker, cur, request, force, payload, results, calls>>

\* Variant: the worker is not killed.
KilledNone == worker

Killed == [worker EXCEPT ![calls] = NoWorker]

\* _kill_process_tree.
Kill ==
  /\ pc = "late"
  /\ worker' = Killed
  /\ pc' = "killed"
  /\ UNCHANGED <<caller, envelope, cur, request, force, payload, results, calls>>

\* A timeout keeps the operations, and the request, of the envelope it finds.
ReadPartial ==
  /\ pc = "killed"
  /\ LET e == envelope[cur]
     IN payload' = Envelope("timeout", IF e.req = {} THEN request ELSE e.req, e.ok)
  /\ pc' = "persist"
  /\ UNCHANGED <<caller, envelope, worker, cur, request, force, results, calls>>

Persist ==
  /\ pc = "persist"
  /\ envelope' = [envelope EXCEPT ![cur] = payload]
  /\ results' = [results EXCEPT ![cur] = payload]
  /\ cur' = cur + 1 /\ pc' = "entry" /\ payload' = NoEnvelope
  /\ UNCHANGED <<caller, worker, request, force, calls>>

\* The summary is built from the results.
Summarize ==
  /\ pc = "entry" /\ cur > F
  /\ pc' = "done"
  /\ UNCHANGED <<caller, envelope, worker, cur, request, force, payload, results, calls>>

ParentCrash ==
  /\ Admits("parent_crash")
  /\ pc \notin {"idle", "done", "crashed"}
  /\ pc' = "crashed"
  /\ UNCHANGED <<caller, envelope, worker, cur, request, force, payload, results, calls>>

-----------------------------------------------------------------------------
(* The worker of call c.                                                   *)

parent == <<caller, pc, cur, request, force, payload, results, calls>>

\* It writes its envelope, a whole new file, and goes on as w.
Write(c, e, w) ==
  /\ envelope' = [envelope EXCEPT ![worker[c].at] = e]
  /\ worker' = [worker EXCEPT ![c] = w]
  /\ UNCHANGED parent

\* No .dwg file, another sha256 than expected, or a source that cannot be read.
Refuse(c) ==
  /\ worker[c].st = "starting"
  /\ Write(c, Envelope("failed", worker[c].req, {}), NoWorker)

\* The drawing is staged.
Stage(c) ==
  /\ worker[c].st = "starting"
  /\ Write(c, Envelope("running", worker[c].req, {}), [worker[c] EXCEPT !.st = "running"])

\* Variant: the last operation decides.
StatusOfLast(req, ran, ok, last) ==
  IF ran # req THEN "running" ELSE IF last \in ok THEN "ok" ELSE "failed"

\* Running until the last operation; then ok if every operation was.
StatusOf(req, ran, ok, last) ==
  IF ran # req THEN "running" ELSE IF ok = req THEN "ok" ELSE "failed"

\* The next operation ends ok or not, and the progress is written.
RunOp(c) ==
  /\ worker[c].st = "running"
  /\ \E op \in worker[c].req \ worker[c].ran :
       \E good \in {TRUE} \cup (IF Admits("op_error") THEN {FALSE} ELSE {}) :
         LET w   == worker[c]
             ran == w.ran \cup {op}
             ok  == IF good THEN w.ok \cup {op} ELSE w.ok
         IN Write(c, Envelope(StatusOf(w.req, ran, ok, op), w.req, ok),
                  [w EXCEPT !.ran = ran, !.ok = ok])

\* After the last operation the same envelope is written again.
WorkerExit(c) ==
  /\ worker[c].st = "running" /\ worker[c].ran = worker[c].req
  /\ LET w == worker[c]
     IN Write(c, Envelope(IF w.ok = w.req THEN "ok" ELSE "failed", w.req, w.ok), NoWorker)

\* An operation raises.
Raise(c) ==
  /\ Admits("op_error")
  /\ worker[c].st = "running" /\ worker[c].ran # worker[c].req
  /\ Write(c, Envelope("failed", worker[c].req, worker[c].ok), NoWorker)

\* The worker is gone without a word: it cannot be imported, it crashes, it is killed.
WorkerDies(c) ==
  /\ \/ Admits("dies_early") /\ worker[c].st = "starting"
     \/ Admits("dies_late") /\ worker[c].st = "running"
  /\ worker' = [worker EXCEPT ![c] = NoWorker]
  /\ UNCHANGED <<parent, envelope>>

WorkerStep(c) ==
  Refuse(c) \/ Stage(c) \/ RunOp(c) \/ WorkerExit(c) \/ Raise(c) \/ WorkerDies(c)

ParentStep ==
  \/ Skip \/ Reread \/ Launch \/ Collect \/ Deadline \/ Kill \/ ReadPartial \/ Persist
  \/ Summarize

Next == Call \/ ParentStep \/ ParentCrash \/ \E c \in Calls : WorkerStep(c)

Spec == Init /\ [][Next]_vars

\* The parent loops with a deadline.  Nothing is assumed of a worker: it may hang.
FairSpec == Spec /\ WF_vars(ParentStep)

-----------------------------------------------------------------------------
EnvelopeType ==
  [st : Terminal \cup {"none", "running"}, req : SUBSET Ops, ok : SUBSET Ops]

WorkerType ==
  [st : {"gone", "starting", "running"}, at : Drawings,
   req : SUBSET Ops, ran : SUBSET Ops, ok : SUBSET Ops]

\* The type of every variable.
TypeOK ==
  /\ caller \in Callers
  /\ envelope \in [Drawings -> EnvelopeType]
  /\ worker \in [Calls -> WorkerType]
  /\ pc \in {"idle", "entry", "resume", "waiting", "late", "killed", "persist", "done",
             "crashed"}
  /\ cur \in 1 .. F + 1
  /\ pc \in {"resume", "waiting", "late", "killed", "persist"} => cur \in Drawings
  /\ request \in Requests /\ force \in BOOLEAN
  /\ payload \in EnvelopeType
  /\ results \in [Drawings -> EnvelopeType]
  /\ calls \in 0 .. MaxCalls

\* An envelope on disk says ok only when every operation it requested ended ok,
\* whoever wrote it last and whatever died; resume relies on it.
OkEnvelopeComplete ==
  \A e \in Drawings : envelope[e].st = "ok" => envelope[e].req \subseteq envelope[e].ok

\* An ok in the summary means that every operation of this call's request ended ok on
\* that drawing (docs/CORPUS_BATCH.md, "Contract").
OkMeansRequested ==
  pc = "done" => \A e \in Drawings : results[e].st = "ok" => request \subseteq results[e].ok

\* The summary is about the envelopes on disk: a worker that was timed out does not
\* write over its timeout, unless a crashed parent left workers behind.
SummaryAgrees ==
  pc = "done" /\ ~Admits("parent_crash") => envelope = results

\* A call comes to an end, though workers hang.
CallEnds == pc \notin {"idle", "done", "crashed"} ~> pc \in {"done", "crashed"}

-----------------------------------------------------------------------------
(* The inductive invariant.                                                *)

\* The envelopes, and the one about to be written, that say ok.
CompleteInv ==
  /\ OkEnvelopeComplete
  /\ payload.st = "ok" => payload.req \subseteq payload.ok

ProgressInv ==
  /\ pc # "idle" => calls \in Calls
  /\ pc = "done" => cur > F

\* While no parent dies, the only worker is that of the drawing the parent waits for,
\* and the summary agrees with the envelopes so far.
OneWorkerInv ==
  ~Admits("parent_crash") =>
    /\ pc # "crashed"
    /\ \A c \in Calls : worker[c].st # "gone" =>
         c = calls /\ pc \in {"waiting", "late"} /\ worker[c].at = cur
           /\ worker[c].req = request
    /\ \A e \in Drawings : e < cur => results[e] = envelope[e]

\* For one that repeats its request, every worker and every ok is about that request.
SameRequestInv ==
  caller = "same_ops" =>
    /\ \A c \in Calls : worker[c].st # "gone" => worker[c].req = request
    /\ \A e \in Drawings : envelope[e].st = "ok" => envelope[e].req = request
    /\ payload.st = "ok" => payload.req = request

\* For one that does not, the envelope of a worker that has begun is about this request,
\* and one that is skipped covers it.
ChangedRequestInv ==
  caller # "same_ops" =>
    /\ pc = "waiting" /\ worker[calls].st # "starting" => envelope[cur].req = request
    /\ pc = "resume" => Covers(envelope[cur])
    /\ pc = "persist" /\ payload.st = "ok" => request \subseteq payload.req

ResultsInv == \A e \in Drawings : results[e].st = "ok" => request \subseteq results[e].ok

CorpusInv ==
  /\ CompleteInv /\ ProgressInv /\ OneWorkerInv
  /\ SameRequestInv /\ ChangedRequestInv /\ ResultsInv
=============================================================================
