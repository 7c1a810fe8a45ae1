------------------------- MODULE CorpusBatchProofs --------------------------
(* Theorems about CorpusBatch, for any number of drawings, operations and   *)
(* calls and under every fault.                                             *)
EXTENDS CorpusBatch, TLAPS

\* What an envelope is made of.
LEMMA EnvelopeHas ==
  ASSUME NEW st, NEW req, NEW ok
  PROVE  /\ Envelope(st, req, ok).st = st
         /\ Envelope(st, req, ok).req = req
         /\ Envelope(st, req, ok).ok = ok
BY DEF Envelope

LEMMA EnvelopeTyped ==
  ASSUME NEW st \in Terminal \cup {"none", "running"},
         NEW req \in SUBSET Ops, NEW ok \in SUBSET Ops
  PROVE  Envelope(st, req, ok) \in EnvelopeType
BY DEF Envelope, EnvelopeType

LEMMA NoneTyped == NoEnvelope \in EnvelopeType /\ NoWorker \in WorkerType
<1>1. 1 \in Drawings
  BY CorpusAssumption DEF Drawings
<1> QED BY <1>1 DEF NoEnvelope, Envelope, EnvelopeType, NoWorker, WorkerType

\* A status is one that the readers of an envelope know.
LEMMA StatusKnown ==
  ASSUME NEW req, NEW ran, NEW ok, NEW last
  PROVE  StatusOf(req, ran, ok, last) \in {"ok", "failed", "running"}
BY DEF StatusOf

-----------------------------------------------------------------------------
LEMMA InitType == Init => TypeOK
<1> SUFFICES ASSUME Init PROVE TypeOK
  OBVIOUS
<1>1. 1 \in 1 .. F + 1 /\ 0 \in 0 .. MaxCalls
  BY CorpusAssumption
<1> QED BY <1>1, NoneTyped DEF Init, TypeOK

\* A worker that writes an envelope of the right type.
LEMMA WriteTyped ==
  ASSUME TypeOK, NEW c \in Calls, NEW e \in EnvelopeType, NEW w \in WorkerType,
         Write(c, e, w)
  PROVE  TypeOK'
<1>1. envelope' \in [Drawings -> EnvelopeType] /\ worker' \in [Calls -> WorkerType]
  BY DEF Write, TypeOK
<1> QED BY <1>1 DEF Write, parent, TypeOK

LEMMA WorkerTyped ==
  ASSUME TypeOK, NEW c \in Calls, WorkerStep(c)
  PROVE  TypeOK'
<1>1. worker[c] \in WorkerType
  BY DEF TypeOK
<1>2. /\ worker[c].at \in Drawings /\ worker[c].req \in SUBSET Ops
      /\ worker[c].ran \in SUBSET Ops /\ worker[c].ok \in SUBSET Ops
  BY <1>1 DEF WorkerType
<1>3. CASE Refuse(c)
  <2>1. Envelope("failed", worker[c].req, {}) \in EnvelopeType
    BY <1>2, EnvelopeTyped DEF Terminal
  <2> QED BY <1>3, <2>1, NoneTyped, WriteTyped DEF Refuse
<1>4. CASE Stage(c)
  <2>1. Envelope("running", worker[c].req, {}) \in EnvelopeType
    BY <1>2, EnvelopeTyped DEF Terminal
  <2>2. [worker[c] EXCEPT !.st = "running"] \in WorkerType
    BY <1>1 DEF WorkerType
  <2> QED BY <1>4, <2>1, <2>2, WriteTyped DEF Stage
<1>5. CASE RunOp(c)
  <2> DEFINE ran(op) == worker[c].ran \cup {op}
             ok(op, good) == IF good THEN worker[c].ok \cup {op} ELSE worker[c].ok
  <2>1. PICK op \in worker[c].req, good \in BOOLEAN :
          Write(c, Envelope(StatusOf(worker[c].req, ran(op), ok(op, good), op),
                            worker[c].req, ok(op, good)),
                [worker[c] EXCEPT !.ran = ran(op), !.ok = ok(op, good)])
    BY <1>5 DEF RunOp
  <2>2. ran(op) \in SUBSET Ops /\ ok(op, good) \in SUBSET Ops
    BY <1>2, <2>1
  <2> HIDE DEF ran, ok
  <2>3. Envelope(StatusOf(worker[c].req, ran(op), ok(op, good), op), worker[c].req,
                 ok(op, good)) \in EnvelopeType
    BY <1>2, <2>2, StatusKnown, EnvelopeTyped DEF Terminal
  <2>4. [worker[c] EXCEPT !.ran = ran(op), !.ok = ok(op, good)] \in WorkerType
    BY <1>1, <2>2 DEF WorkerType
  <2> QED BY <2>1, <2>3, <2>4, WriteTyped
<1>6. CASE WorkerExit(c)
  <2>1. Envelope(IF worker[c].ok = worker[c].req THEN "ok" ELSE "failed", worker[c].req,
                 worker[c].ok) \in EnvelopeType
    BY <1>2, EnvelopeTyped DEF Terminal
  <2> QED BY <1>6, <2>1, NoneTyped, WriteTyped DEF WorkerExit
<1>7. CASE Raise(c)
  <2>1. Envelope("failed", worker[c].req, worker[c].ok) \in EnvelopeType
    BY <1>2, EnvelopeTyped DEF Terminal
  <2> QED BY <1>7, <2>1, NoneTyped, WriteTyped DEF Raise
<1>8. CASE WorkerDies(c)
  <2>1. worker' \in [Calls -> WorkerType]
    BY <1>8, NoneTyped DEF WorkerDies, TypeOK
  <2> QED BY <1>8, <2>1 DEF WorkerDies, parent, TypeOK
<1> QED BY <1>3, <1>4, <1>5, <1>6, <1>7, <1>8 DEF WorkerStep

LEMMA NextType ==
  ASSUME TypeOK, [Next]_vars
  PROVE  TypeOK'
<1>0. F \in Nat \ {0} /\ MaxCalls \in Nat \ {0}
  BY CorpusAssumption
<1>1. CASE Call
  <2>1. 1 \in 1 .. F + 1 /\ calls + 1 \in 0 .. MaxCalls
    BY <1>0, <1>1 DEF Call, TypeOK
  <2>2. request' \in Requests /\ force' \in BOOLEAN
    BY <1>1 DEF Call, TypeOK
  <2>3. results' \in [Drawings -> EnvelopeType]
    BY <1>1, NoneTyped DEF Call
  <2> QED BY <1>1, <2>1, <2>2, <2>3 DEF Call, TypeOK
<1>2. pc = "entry" /\ cur <= F => cur \in Drawings
  BY <1>0 DEF TypeOK, Drawings
<1>3. CASE Skip
  BY <1>2, <1>3 DEF Skip, TypeOK
<1>4. CASE Reread
  <2>1. envelope[cur] \in EnvelopeType
    BY <1>4 DEF Reread, TypeOK
  <2> QED BY <1>4, <2>1 DEF Reread, TypeOK
<1>5. CASE Launch
  <2>1. envelope' \in [Drawings -> EnvelopeType]
    BY <1>5, NoneTyped DEF Launch, TypeOK
  <2>2. [st |-> "starting", at |-> cur, req |-> request, ran |-> {}, ok |-> {}] \in WorkerType
    BY <1>2, <1>5 DEF Launch, TypeOK, WorkerType, Requests
  <2>3. worker' \in [Calls -> WorkerType]
    BY <1>5, <2>2 DEF Launch, TypeOK
  <2> QED BY <1>2, <1>5, <2>1, <2>3 DEF Launch, TypeOK
<1>6. CASE Collect
  <2>1. request \in SUBSET Ops /\ cur \in Drawings
    BY <1>6 DEF Collect, TypeOK, Requests
  <2>2. Envelope("failed", request, {}) \in EnvelopeType
    BY <2>1, EnvelopeTyped DEF Terminal
  <2>3. payload' \in EnvelopeType
    BY <1>6, <2>1, <2>2 DEF Collect, TypeOK
  <2> QED BY <1>6, <2>1, <2>3 DEF Collect, TypeOK
<1>7. CASE Deadline
  BY <1>7 DEF Deadline, TypeOK
<1>8. CASE Kill
  <2>1. worker' \in [Calls -> WorkerType]
    BY <1>8, NoneTyped DEF Kill, Killed, TypeOK
  <2> QED BY <1>8, <2>1 DEF Kill, TypeOK
<1>9. CASE ReadPartial
  <2>1. cur \in Drawings /\ request \in SUBSET Ops /\ envelope[cur] \in EnvelopeType
    BY <1>9 DEF ReadPartial, TypeOK, Requests
  <2>2. envelope[cur].req \in SUBSET Ops /\ envelope[cur].ok \in SUBSET Ops
    BY <2>1 DEF EnvelopeType
  <2>3. payload' \in EnvelopeType
    BY <1>9, <2>1, <2>2, EnvelopeTyped DEF ReadPartial, Terminal
  <2> QED BY <1>9, <2>1, <2>3 DEF ReadPartial, TypeOK
<1>10. CASE Persist
  <2>1. /\ envelope' \in [Drawings -> EnvelopeType]
        /\ results' \in [Drawings -> EnvelopeType]
    BY <1>10 DEF Persist, TypeOK
  <2>2. cur' \in 1 .. F + 1
    BY <1>0, <1>10 DEF Persist, TypeOK, Drawings
  <2> QED BY <1>10, <2>1, <2>2, NoneTyped DEF Persist, TypeOK
<1>11. CASE Summarize
  BY <1>11 DEF Summarize, TypeOK
<1>12. CASE ParentCrash
  BY <1>12 DEF ParentCrash, TypeOK
<1>13. CASE \E c \in Calls : WorkerStep(c)
  BY <1>13, WorkerTyped
<1>14. CASE UNCHANGED vars
  BY <1>14 DEF vars, TypeOK
<1> QED BY <1>1, <1>3, <1>4, <1>5, <1>6, <1>7, <1>8, <1>9, <1>10, <1>11, <1>12, <1>13, <1>14
        DEF Next, ParentStep

\* Every variable keeps its type, whoever writes an envelope and whatever dies.
THEOREM TypeCorrect == Spec => []TypeOK
<1>1. TypeOK /\ [Next]_vars => TypeOK'
  BY NextType
<1> QED BY <1>1, InitType, PTL DEF Spec

-----------------------------------------------------------------------------
\* What a step of a worker that does not die amounts to: it writes an envelope about
\* its own request, ok only if complete, and goes on as w or is gone.
GoesOn(c, w) ==
  w.st = "gone" \/ (w.st = "running" /\ w.at = worker[c].at /\ w.req = worker[c].req)

Wrote(c) ==
  \E e \in EnvelopeType, w \in WorkerType :
    /\ Write(c, e, w) /\ GoesOn(c, w)
    /\ e.req = worker[c].req
    /\ e.st = "ok" => e.req \subseteq e.ok

LEMMA WorkerWrites ==
  ASSUME TypeOK, NEW c \in Calls, WorkerStep(c)
  PROVE  worker[c].st # "gone" /\ (Wrote(c) \/ WorkerDies(c))
<1>1. worker[c] \in WorkerType
  BY DEF TypeOK
<1>2. /\ worker[c].at \in Drawings /\ worker[c].req \in SUBSET Ops
      /\ worker[c].ran \in SUBSET Ops /\ worker[c].ok \in SUBSET Ops
  BY <1>1 DEF WorkerType
<1>3. NoWorker \in WorkerType /\ GoesOn(c, NoWorker)
  BY NoneTyped DEF GoesOn, NoWorker
<1>4. CASE Refuse(c)
  <2> DEFINE e == Envelope("failed", worker[c].req, {})
  <2>1. e \in EnvelopeType
    BY <1>2, EnvelopeTyped DEF Terminal
  <2>2. e.st = "failed" /\ e.req = worker[c].req
    BY EnvelopeHas
  <2>3. Write(c, e, NoWorker) /\ worker[c].st = "starting"
    BY <1>4 DEF Refuse
  <2> HIDE DEF e
  <2> QED BY <1>3, <2>1, <2>2, <2>3 DEF Wrote
<1>5. CASE Stage(c)
  <2> DEFINE e == Envelope("running", worker[c].req, {})
             w == [worker[c] EXCEPT !.st = "running"]
  <2>1. e \in EnvelopeType
    BY <1>2, EnvelopeTyped DEF Terminal
  <2>2. e.st = "running" /\ e.req = worker[c].req
    BY EnvelopeHas
  <2>3. w \in WorkerType /\ GoesOn(c, w)
    BY <1>1 DEF WorkerType, GoesOn
  <2>4. Write(c, e, w) /\ worker[c].st = "starting"
    BY <1>5 DEF Stage
  <2> HIDE DEF e, w
  <2> QED BY <2>1, <2>2, <2>3, <2>4 DEF Wrote
<1>6. CASE RunOp(c)
  <2> DEFINE ran(op) == worker[c].ran \cup {op}
             ok(op, good) == IF good THEN worker[c].ok \cup {op} ELSE worker[c].ok
             st(op, good) == StatusOf(worker[c].req, ran(op), ok(op, good), op)
             e(op, good) == Envelope(st(op, good), worker[c].req, ok(op, good))
             w(op, good) == [worker[c] EXCEPT !.ran = ran(op), !.ok = ok(op, good)]
  <2>1. PICK op \in worker[c].req, good \in BOOLEAN : Write(c, e(op, good), w(op, good))
    BY <1>6 DEF RunOp
  <2>2. ran(op) \in SUBSET Ops /\ ok(op, good) \in SUBSET Ops
    BY <1>2, <2>1
  <2>3. worker[c].st = "running"
    BY <1>6 DEF RunOp
  <2>4. st(op, good) = "ok" => ok(op, good) = worker[c].req
    BY DEF StatusOf
  <2>5. st(op, good) \in Terminal \cup {"none", "running"}
    BY StatusKnown DEF Terminal
  <2> HIDE DEF ran, ok, st
  <2>6. e(op, good) \in EnvelopeType
    BY <1>2, <2>2, <2>5, EnvelopeTyped
  <2>7. /\ e(op, good).st = st(op, good)
        /\ e(op, good).req = worker[c].req
        /\ e(op, good).ok = ok(op, good)
    BY EnvelopeHas
  <2>8. w(op, good) \in WorkerType /\ GoesOn(c, w(op, good))
    BY <1>1, <2>2, <2>3 DEF WorkerType, GoesOn
  <2> HIDE DEF e, w
  <2> QED BY <2>1, <2>3, <2>4, <2>6, <2>7, <2>8 DEF Wrote
<1>7. CASE WorkerExit(c)
  <2> DEFINE st == IF worker[c].ok = worker[c].req THEN "ok" ELSE "failed"
             e == Envelope(st, worker[c].req, worker[c].ok)
  <2>1. e \in EnvelopeType
    BY <1>2, EnvelopeTyped DEF Terminal
  <2>2. e.st = st /\ e.req = worker[c].req /\ e.ok = worker[c].ok
    BY EnvelopeHas
  <2>3. Write(c, e, NoWorker) /\ worker[c].st = "running"
    BY <1>7 DEF WorkerExit
  <2>4. e.st = "ok" => e.req \subseteq e.ok
    BY <2>2
  <2> HIDE DEF e
  <2> QED BY <1>3, <2>1, <2>2, <2>3, <2>4 DEF Wrote
<1>8. CASE Raise(c)
  <2> DEFINE e == Envelope("failed", worker[c].req, worker[c].ok)
  <2>1. e \in EnvelopeType
    BY <1>2, EnvelopeTyped DEF Terminal
  <2>2. e.st = "failed" /\ e.req = worker[c].req
    BY EnvelopeHas
  <2>3. Write(c, e, NoWorker) /\ worker[c].st = "running"
    BY <1>8 DEF Raise
  <2> HIDE DEF e
  <2> QED BY <1>3, <2>1, <2>2, <2>3 DEF Wrote
<1>9. CASE WorkerDies(c)
  BY <1>9 DEF WorkerDies
<1> QED BY <1>4, <1>5, <1>6, <1>7, <1>8, <1>9 DEF WorkerStep

-----------------------------------------------------------------------------
(* The parts of the invariant.                                             *)

LEMMA InitInv == Init => CorpusInv
BY DEF Init, CorpusInv, CompleteInv, ProgressInv, OneWorkerInv, SameRequestInv,
       ChangedRequestInv, ResultsInv, OkEnvelopeComplete, NoEnvelope, Envelope, NoWorker,
       Drawings

LEMMA ProgressNext ==
  ASSUME TypeOK, ProgressInv, [Next]_vars
  PROVE  ProgressInv'
<1>1. CASE Call
  <2>1. calls + 1 \in Calls
    BY <1>1, CorpusAssumption DEF Call, TypeOK, Calls
  <2> QED BY <1>1, <2>1 DEF Call, ProgressInv
<1>2. CASE ParentStep
  BY <1>2 DEF ParentStep, Skip, Reread, Launch, Collect, Deadline, Kill, ReadPartial, Persist,
    Summarize, ProgressInv
<1>3. CASE ParentCrash
  BY <1>3 DEF ParentCrash, ProgressInv
<1>4. ASSUME NEW c \in Calls, WorkerStep(c) PROVE ProgressInv'
  BY <1>4, WorkerWrites DEF Wrote, Write, WorkerDies, parent, ProgressInv
<1>5. CASE UNCHANGED vars
  BY <1>5 DEF vars, ProgressInv
<1> QED BY <1>1, <1>2, <1>3, <1>4, <1>5 DEF Next

\* Only whole answers are ok.
LEMMA CompleteNext ==
  ASSUME TypeOK, CompleteInv, [Next]_vars
  PROVE  CompleteInv'
<1> USE DEF CompleteInv, OkEnvelopeComplete
<1>1. CASE Call
  BY <1>1 DEF Call
<1>2. CASE Skip \/ Deadline \/ Kill \/ Summarize \/ ParentCrash
  BY <1>2 DEF Skip, Deadline, Kill, Summarize, ParentCrash
<1>3. CASE Reread
  BY <1>3 DEF Reread, TypeOK
<1>4. CASE Launch
  BY <1>4 DEF Launch, TypeOK, NoEnvelope, Envelope
<1>5. CASE Collect
  BY <1>5, EnvelopeHas DEF Collect, TypeOK
<1>6. CASE ReadPartial
  BY <1>6, EnvelopeHas DEF ReadPartial
<1>7. CASE Persist
  BY <1>7 DEF Persist, TypeOK, NoEnvelope, Envelope
<1>8. ASSUME NEW c \in Calls, WorkerStep(c) PROVE CompleteInv'
  <2>1. CASE Wrote(c)
    <3>1. PICK e \in EnvelopeType, w \in WorkerType :
            Write(c, e, w) /\ (e.st = "ok" => e.req \subseteq e.ok)
      BY <2>1 DEF Wrote
    <3> QED BY <3>1 DEF Write, parent, TypeOK
  <2>2. CASE WorkerDies(c)
    BY <2>2 DEF WorkerDies, parent
  <2> QED BY <1>8, <2>1, <2>2, WorkerWrites
<1>9. CASE UNCHANGED vars
  BY <1>9 DEF vars
<1> QED BY <1>1, <1>2, <1>3, <1>4, <1>5, <1>6, <1>7, <1>8, <1>9 DEF Next, ParentStep

\* One worker at a time, and a summary that agrees with the disk.
LEMMA OneWorkerNext ==
  ASSUME TypeOK, ProgressInv, OneWorkerInv, [Next]_vars
  PROVE  OneWorkerInv'
<1> USE DEF OneWorkerInv, Admits
<1>0. caller' = caller
  BY WorkerWrites DEF Next, vars, Call, ParentStep, Skip, Reread, Launch, Collect, Deadline,
    Kill, ReadPartial, Persist, Summarize, ParentCrash, Wrote, Write, WorkerDies, parent
<1> SUFFICES ASSUME "parent_crash" \notin Faults[caller] PROVE OneWorkerInv'
  BY <1>0
<1>c. cur \in Nat
  BY CorpusAssumption DEF TypeOK
<1>1. CASE Call
  BY <1>1 DEF Call, Drawings
<1>2. CASE Skip \/ Reread \/ Deadline \/ Summarize \/ ReadPartial
  BY <1>2 DEF Skip, Reread, Deadline, Summarize, ReadPartial
<1>3. CASE Launch
  <2>1. calls \in Calls
    BY <1>3 DEF Launch, ProgressInv
  <2> QED BY <1>3, <1>c, <2>1 DEF Launch, TypeOK, Drawings
<1>4. CASE Collect
  BY <1>4 DEF Collect
<1>5. CASE Kill
  <2>1. calls \in Calls
    BY <1>5 DEF Kill, ProgressInv
  <2> QED BY <1>5, <2>1 DEF Kill, Killed, NoWorker, TypeOK
<1>6. CASE Persist
  BY <1>6, <1>c DEF Persist, TypeOK, Drawings
<1>7. CASE ParentCrash
  BY <1>7 DEF ParentCrash
<1>8. ASSUME NEW c \in Calls, WorkerStep(c) PROVE OneWorkerInv'
  <2>0. worker[c].st # "gone"
    BY <1>8, WorkerWrites
  <2>1. CASE Wrote(c)
    <3>1. PICK e \in EnvelopeType, w \in WorkerType : Write(c, e, w) /\ GoesOn(c, w)
      BY <2>1 DEF Wrote
    <3> QED BY <1>c, <2>0, <3>1 DEF Write, GoesOn, parent, TypeOK, Drawings
  <2>2. CASE WorkerDies(c)
    BY <2>2 DEF WorkerDies, parent, NoWorker, TypeOK
  <2> QED BY <1>8, <2>1, <2>2, WorkerWrites
<1>9. CASE UNCHANGED vars
  BY <1>9 DEF vars
<1> QED BY <1>1, <1>2, <1>3, <1>4, <1>5, <1>6, <1>7, <1>8, <1>9 DEF Next, ParentStep

LEMMA CallerStays ==
  ASSUME TypeOK, [Next]_vars
  PROVE  caller' = caller
BY WorkerWrites DEF Next, vars, Call, ParentStep, Skip, Reread, Launch, Collect, Deadline,
  Kill, ReadPartial, Persist, Summarize, ParentCrash, Wrote, Write, WorkerDies, parent

\* A request that is repeated is the only one that any process works on.
LEMMA SameRequestNext ==
  ASSUME TypeOK, ProgressInv, SameRequestInv, [Next]_vars
  PROVE  SameRequestInv'
<1> USE DEF SameRequestInv
<1> SUFFICES ASSUME caller = "same_ops" PROVE SameRequestInv'
  BY CallerStays
<1>1. CASE Call
  BY <1>1 DEF Call
<1>2. CASE Skip \/ Deadline \/ Summarize \/ ParentCrash
  BY <1>2 DEF Skip, Deadline, Summarize, ParentCrash
<1>3. CASE Reread
  BY <1>3 DEF Reread, TypeOK
<1>4. CASE Launch
  <2>1. calls \in Calls
    BY <1>4 DEF Launch, ProgressInv
  <2> QED BY <1>4, <2>1 DEF Launch, TypeOK, NoEnvelope, Envelope
<1>5. CASE Collect
  BY <1>5, EnvelopeHas DEF Collect, TypeOK
<1>6. CASE Kill
  BY <1>6 DEF Kill, Killed, NoWorker, TypeOK
<1>7. CASE ReadPartial
  BY <1>7, EnvelopeHas DEF ReadPartial
<1>8. CASE Persist
  BY <1>8 DEF Persist, TypeOK, NoEnvelope, Envelope
<1>9. ASSUME NEW c \in Calls, WorkerStep(c) PROVE SameRequestInv'
  <2>0. worker[c].st # "gone"
    BY <1>9, WorkerWrites
  <2>1. CASE Wrote(c)
    <3>1. PICK e \in EnvelopeType, w \in WorkerType :
            Write(c, e, w) /\ GoesOn(c, w) /\ e.req = worker[c].req
      BY <2>1 DEF Wrote
    <3> QED BY <2>0, <3>1 DEF Write, GoesOn, parent, TypeOK
  <2>2. CASE WorkerDies(c)
    BY <2>2 DEF WorkerDies, parent, NoWorker, TypeOK
  <2> QED BY <1>9, <2>1, <2>2, WorkerWrites
<1>10. CASE UNCHANGED vars
  BY <1>10 DEF vars
<1> QED BY <1>1, <1>2, <1>3, <1>4, <1>5, <1>6, <1>7, <1>8, <1>9, <1>10 DEF Next, ParentStep

-----------------------------------------------------------------------------
\* Nothing leaves an envelope of another request where this call would look: a caller
\* that changes its request meets no worker that dies before it writes, and no parent
\* that dies.
NothingStale ==
  \A c \in Callers \ {"same_ops"} : {"dies_early", "parent_crash"} \cap Faults[c] = {}

\* What a changing caller finds on the disk is about its request.
LEMMA ChangedRequestNext ==
  ASSUME NothingStale, TypeOK, ProgressInv, OneWorkerInv, ChangedRequestInv, [Next]_vars
  PROVE  ChangedRequestInv'
<1> USE DEF ChangedRequestInv
<1> SUFFICES ASSUME caller # "same_ops" PROVE ChangedRequestInv'
  BY CallerStays
<1>a. ~Admits("dies_early") /\ ~Admits("parent_crash")
  BY DEF NothingStale, Admits, TypeOK
<1>1. CASE Call
  BY <1>1 DEF Call
<1>2. CASE Skip
  BY <1>2 DEF Skip, Covers
<1>3. CASE Reread
  BY <1>3 DEF Reread, Covers
<1>4. CASE Launch
  <2>1. calls \in Calls
    BY <1>4 DEF Launch, ProgressInv
  <2> QED BY <1>4, <2>1 DEF Launch, TypeOK
<1>5. CASE Collect
  BY <1>5, EnvelopeHas DEF Collect
<1>6. CASE Deadline \/ Kill \/ Summarize \/ ParentCrash
  BY <1>6 DEF Deadline, Kill, Summarize, ParentCrash
<1>7. CASE ReadPartial
  BY <1>7, EnvelopeHas DEF ReadPartial
<1>8. CASE Persist
  BY <1>8 DEF Persist
<1>9. ASSUME NEW c \in Calls, WorkerStep(c) PROVE ChangedRequestInv'
  <2>1. worker[c].st # "gone"
    BY <1>9, WorkerWrites
  <2>2. /\ c = calls /\ pc \in {"waiting", "late"} /\ worker[c].at = cur
        /\ worker[c].req = request
    BY <1>a, <2>1 DEF OneWorkerInv
  <2>3. CASE Wrote(c)
    <3>1. PICK e \in EnvelopeType, w \in WorkerType :
            Write(c, e, w) /\ e.req = worker[c].req
      BY <2>3 DEF Wrote
    <3>2. worker[c].at \in Drawings
      BY DEF TypeOK, WorkerType
    <3>3. envelope'[cur].req = request
      BY <2>2, <3>1, <3>2 DEF Write, TypeOK
    <3> QED BY <2>2, <3>1, <3>3 DEF Write, parent
  <2>4. CASE WorkerDies(c)
    BY <1>a, <2>2, <2>4 DEF WorkerDies, parent
  <2> QED BY <1>9, <2>3, <2>4, WorkerWrites
<1>10. CASE UNCHANGED vars
  BY <1>10 DEF vars, Covers
<1> QED BY <1>1, <1>2, <1>3, <1>4, <1>5, <1>6, <1>7, <1>8, <1>9, <1>10 DEF Next, ParentStep

\* What is put into the summary answers the request.
LEMMA ResultsNext ==
  ASSUME TypeOK, CompleteInv, SameRequestInv, ChangedRequestInv, ResultsInv, [Next]_vars
  PROVE  ResultsInv'
<1> USE DEF ResultsInv
<1>1. CASE Call
  BY <1>1 DEF Call, NoEnvelope, Envelope
<1>2. CASE Skip \/ Reread \/ Launch \/ Collect \/ Deadline \/ Kill \/ ReadPartial \/ Summarize
  BY <1>2 DEF Skip, Reread, Launch, Collect, Deadline, Kill, ReadPartial, Summarize
<1>3. CASE Persist
  <2>1. payload.st = "ok" => request \subseteq payload.ok
    BY <1>3 DEF Persist, CompleteInv, SameRequestInv, ChangedRequestInv
  <2> QED BY <1>3, <2>1 DEF Persist, TypeOK
<1>4. CASE ParentCrash
  BY <1>4 DEF ParentCrash
<1>5. ASSUME NEW c \in Calls, WorkerStep(c) PROVE ResultsInv'
  BY <1>5, WorkerWrites DEF Wrote, Write, WorkerDies, parent
<1>6. CASE UNCHANGED vars
  BY <1>6 DEF vars
<1> QED BY <1>1, <1>2, <1>3, <1>4, <1>5, <1>6 DEF Next, ParentStep

-----------------------------------------------------------------------------
\* Under every fault: an envelope that says ok is complete, whoever wrote it last.
THEOREM OkComplete == Spec => []OkEnvelopeComplete
<1>1. Init => TypeOK /\ CompleteInv
  BY InitType, InitInv DEF CorpusInv
<1>2. TypeOK /\ CompleteInv /\ [Next]_vars => (TypeOK /\ CompleteInv)'
  BY NextType, CompleteNext
<1>3. CompleteInv => OkEnvelopeComplete
  BY DEF CompleteInv
<1> QED BY <1>1, <1>2, <1>3, PTL DEF Spec

\* Unless a parent died, the summary of a finished call agrees with the envelopes.
THEOREM SummaryTrue == Spec => []SummaryAgrees
<1> DEFINE Inv == TypeOK /\ ProgressInv /\ OneWorkerInv
<1>1. Init => Inv
  BY InitType, InitInv DEF CorpusInv
<1>2. Inv /\ [Next]_vars => Inv'
  BY NextType, ProgressNext, OneWorkerNext
<1>3. Inv => SummaryAgrees
  <2> SUFFICES ASSUME Inv, pc = "done", ~Admits("parent_crash") PROVE envelope = results
    BY DEF SummaryAgrees
  <2>1. \A e \in Drawings : e < cur => results[e] = envelope[e]
    BY DEF OneWorkerInv
  <2>2. \A e \in Drawings : e < cur
    BY CorpusAssumption DEF ProgressInv, TypeOK, Drawings
  <2> QED BY <2>1, <2>2 DEF TypeOK
<1> QED BY <1>1, <1>2, <1>3, PTL DEF Spec

\* In a call's summary, ok means that every operation of its request ended ok on that
\* drawing, for callers that meet no fault that leaves a stale envelope.
THEOREM OkAnswersRequest == NothingStale => (Spec => []OkMeansRequested)
<1> SUFFICES ASSUME NothingStale PROVE Spec => []OkMeansRequested
  OBVIOUS
<1>1. Init => TypeOK /\ CorpusInv
  BY InitType, InitInv
<1>2. TypeOK /\ CorpusInv /\ [Next]_vars => (TypeOK /\ CorpusInv)'
  BY NextType, CompleteNext, ProgressNext, OneWorkerNext, SameRequestNext,
     ChangedRequestNext, ResultsNext DEF CorpusInv
<1>3. CorpusInv => OkMeansRequested
  BY DEF CorpusInv, ResultsInv, OkMeansRequested
<1> QED BY <1>1, <1>2, <1>3, PTL DEF Spec

-----------------------------------------------------------------------------
(* A call comes to an end: what can be said of it without fairness.        *)

InCall == pc \notin {"idle", "done", "crashed"}

\* What the parent has before it at the drawing it is at.
StepsAtDrawing ==
  CASE pc = "entry" -> 6
    [] pc \in {"resume", "waiting"} -> 5
    [] pc = "late" -> 4
    [] pc = "killed" -> 3
    [] pc = "persist" -> 2
    [] OTHER -> 0

\* A bound on the steps the parent has before it.
Work == 7 * ((F + 1) - cur) + StepsAtDrawing

\* The parent's steps of a call are numbered, whatever its workers do: each takes from
\* Work, nothing but a step of the parent changes it, and it is a natural number.  So a
\* call has at most 7 * F + 6 of them, and CallEnds asks no more of the parent than that
\* it goes on.
THEOREM CallRunsDown ==
  Spec => /\ [](Work \in 0 .. 7 * F + 6)
          /\ [][InCall => /\ ParentStep => Work' < Work
                          /\ ~ParentStep => Work' = Work \/ pc' = "crashed"]_vars
<1>1. TypeOK => Work \in 0 .. 7 * F + 6
  <2> SUFFICES ASSUME TypeOK PROVE Work \in 0 .. 7 * F + 6
    OBVIOUS
  <2>1. F \in Nat /\ cur \in 1 .. F + 1 /\ StepsAtDrawing \in 0 .. 6
    BY CorpusAssumption DEF TypeOK, StepsAtDrawing
  <2> QED BY <2>1 DEF Work
<1>2. ASSUME TypeOK, InCall, ParentStep PROVE Work' < Work
  <2>1. F \in Nat /\ cur \in 1 .. F + 1
    BY <1>2, CorpusAssumption DEF TypeOK
  <2>2. CASE Skip \/ Reread \/ Launch \/ Collect \/ Deadline \/ Kill \/ ReadPartial \/ Summarize
    <3>1. cur' = cur
      BY <2>2 DEF Skip, Reread, Launch, Collect, Deadline, Kill, ReadPartial, Summarize
    <3>2. StepsAtDrawing' < StepsAtDrawing /\ StepsAtDrawing \in Nat /\ StepsAtDrawing' \in Nat
      BY <2>2 DEF Skip, Reread, Launch, Collect, Deadline, Kill, ReadPartial, Summarize,
                  StepsAtDrawing
    <3>3. 7 * ((F + 1) - cur) \in Nat
      BY <2>1
    <3>4. Work' = 7 * ((F + 1) - cur) + StepsAtDrawing'
      BY <3>1 DEF Work
    <3> QED BY <3>2, <3>3, <3>4 DEF Work
  <2>3. CASE Persist
    <3>1. cur' = cur + 1 /\ StepsAtDrawing = 2 /\ StepsAtDrawing' = 6
      BY <2>3 DEF Persist, StepsAtDrawing
    <3> QED BY <2>1, <3>1 DEF Work
  <2> QED BY <1>2, <2>2, <2>3 DEF ParentStep
<1>3. ASSUME InCall, [Next]_vars, ~ParentStep PROVE Work' = Work \/ pc' = "crashed"
  <2>1. CASE ParentCrash
    BY <2>1 DEF ParentCrash
  <2>2. ASSUME NEW c \in Calls, WorkerStep(c) PROVE Work' = Work
    BY <2>2 DEF WorkerStep, Refuse, Stage, RunOp, WorkerExit, Raise, WorkerDies, Write, parent,
                Work, StepsAtDrawing
  <2>3. CASE UNCHANGED vars
    BY <2>3 DEF vars, Work, StepsAtDrawing
  <2>4. ~Call
    BY <1>3 DEF Call, InCall
  <2> QED BY <1>3, <2>1, <2>2, <2>3, <2>4 DEF Next
<1> QED BY <1>1, <1>2, <1>3, TypeCorrect, PTL DEF Spec
=============================================================================
