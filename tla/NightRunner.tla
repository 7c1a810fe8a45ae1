------------------------------ MODULE NightRunner ------------------------------
(***************************************************************************)
(* tools/night/ornith_night_runner.py: run_queue hands the units of a       *)
(* queue to a pool of workers, each of which runs one CLI process, and     *)
(* appends a receipt per unit to receipts.jsonl, whose records are chained *)
(* by hashes.  A later run on the same directory skips the units that have *)
(* a receipt.  A failure breaker and a deadline end a run early.           *)
(*                                                                         *)
(* The hash of a line is the sequence of the pieces in it: what one write  *)
(* left there, whole or torn.  A torn line has no newline, so that the     *)
(* next record lands on it.                                                *)
(***************************************************************************)
EXTENDS Naturals, Sequences, FiniteSets

CONSTANTS
  N,            \* units in the queue
  Concurrency,  \* workers
  MaxFailures,  \* max_consecutive_failures
  Beat,         \* a heartbeat every so many results (25 in the code)
  MaxRuns,      \* bound on the runs
  MaxCrashes    \* bound on the runs that are killed, perhaps in a write

ASSUME NightAssumption ==
  /\ N \in Nat /\ Concurrency \in Nat \ {0} /\ MaxFailures \in Nat \ {0}
  /\ Beat \in Nat \ {0} /\ MaxRuns \in Nat /\ MaxCrashes \in Nat

VARIABLES
  log,        \* receipts.jsonl: a sequence of lines, each a sequence of pieces
  torn,       \* the last line has no newline
  claims,     \* per unit: its claim file
  tripped,    \* BREAKER_TRIPPED.txt is there
  pc,         \* the main thread
  runs,       \* runs started
  crashes,    \* those that were killed
  writes,     \* records written so far, in part or whole
  lastHash,   \* _last_hash
  todo,       \* pending[next_idx:]
  active,     \* units in the pool
  answer,     \* what the worker of each unit has come to
  batch,      \* finished: results not handled yet
  out,        \* what is still to be written for the result in hand
  failures,   \* consecutive_failures
  processed,  \* processed
  late,       \* the deadline has passed
  state,      \* terminal_state
  begun,      \* history: units started by this run
  told        \* history: its results, in the order they were handled

files == <<log, torn, claims, tripped, writes>>
memory == <<lastHash, todo, active, batch, out, failures, processed, late, state, begun,
            told>>
vars == <<files, pc, runs, crashes, answer, memory>>

Units == 1 .. N

\* A piece of a line: record number id, whole or torn, and the hash it was given.
Kinds == {"ok", "fail", "heartbeat", "terminal"}

Record(kind, unit, st) == [kind |-> kind, unit |-> unit, state |-> st]

Hash(line) == [i \in DOMAIN line |-> <<line[i].id, line[i].whole>>]

\* A line parses when it is one whole record.
Parses(line) == Len(line) = 1 /\ line[1].whole

IsReceipt(line) == Parses(line) /\ line[1].kind \in {"ok", "fail"}

ReceiptOf(u, i) == IsReceipt(log[i]) /\ log[i][1].unit = u

\* Variant: only a unit that ended ok is complete.
CompletedOk == {u \in Units : \E i \in DOMAIN log : ReceiptOf(u, i) /\ log[i][1].kind = "ok"}

\* read_completed_unit_ids: any receipt counts, a line that does not parse is passed over.
Completed == {u \in Units : \E i \in DOMAIN log : ReceiptOf(u, i)}

\* filter_pending_units: the units that are not complete, in the order of the queue.
Pending ==
  LET left == Units \ Completed
  IN {s \in [1 .. Cardinality(left) -> left] :
        /\ \A i, j \in DOMAIN s : i < j => s[i] < s[j]
        /\ \A u \in left : \E i \in DOMAIN s : s[i] = u}

\* Variant: the chain begins anew with each run.
SeedNone == <<>>

\* _seed_hash: the last line, whatever it is.
Seed == IF log = <<>> THEN <<>> ELSE Hash(log[Len(log)])

\* What the process knew is gone with it.
Forget ==
  /\ pc' = "down" /\ answer' = [u \in Units |-> "none"]
  /\ lastHash' = <<>> /\ todo' = <<>> /\ active' = {} /\ batch' = {} /\ out' = <<>>
  /\ failures' = 0 /\ processed' = 0 /\ late' = FALSE /\ state' = "none" /\ begun' = {}
  /\ told' = <<>>

Init ==
  /\ log = <<>> /\ torn = FALSE /\ claims = [u \in Units |-> "none"] /\ tripped = FALSE
  /\ pc = "down" /\ runs = 0 /\ crashes = 0 /\ writes = 0 /\ lastHash = <<>>
  /\ todo = <<>> /\ active = {} /\ answer = [u \in Units |-> "none"] /\ batch = {}
  /\ out = <<>> /\ failures = 0 /\ processed = 0 /\ late = FALSE /\ state = "none"
  /\ begun = {} /\ told = <<>>

\* A run starts; its deadline is ahead of it.
Open ==
  /\ pc = "down" /\ runs < MaxRuns
  /\ runs' = runs + 1 /\ pc' = "loop"
  /\ todo' \in Pending /\ lastHash' = Seed
  /\ UNCHANGED <<files, crashes, answer, active, batch, out, failures, processed, late, state, begun,
                 told>>

DeadlinePasses ==
  /\ pc # "down" /\ ~late /\ late' = TRUE
  /\ UNCHANGED <<files, pc, runs, crashes, answer, lastHash, todo, active, batch, out, failures,
                 processed, state, begun, told>>

\* The worker of u ends: with a completion, without one (time out, nothing said, no JSON,
\* no process), or with an exception that run_unit does not catch.
WorkerEnds(u) ==
  /\ answer[u] = "running"
  /\ \E a \in {"ok", "fail", "raise"} : answer' = [answer EXCEPT ![u] = a]
  /\ UNCHANGED <<files, pc, runs, crashes, memory>>

MaySubmit ==
  /\ Cardinality(active) < Concurrency /\ todo # <<>>
  /\ failures < MaxFailures /\ ~late

Submit ==
  /\ pc = "loop" /\ MaySubmit
  /\ active' = active \cup {Head(todo)} /\ begun' = begun \cup {Head(todo)}
  /\ answer' = [answer EXCEPT ![Head(todo)] = "running"]
  /\ todo' = Tail(todo)
  /\ UNCHANGED <<files, pc, runs, crashes, lastHash, batch, out, failures, processed, late, state,
                 told>>

\* Variant: whatever is in the pool.
ReadyAll == active

\* The futures that are done.
Ready == {u \in active : answer[u] # "running"}

\* concurrent.futures.wait: nothing for a second ...
WaitTimesOut ==
  /\ pc = "loop" /\ ~MaySubmit /\ active # {} /\ Ready = {}
  /\ state' = IF late /\ todo # <<>> THEN "deadline" ELSE state
  /\ UNCHANGED <<files, pc, runs, crashes, answer, lastHash, todo, active, batch, out, failures,
                 processed, late, begun, told>>

\* ... or all that is finished by now.
Wait ==
  /\ pc = "loop" /\ ~MaySubmit /\ Ready # {}
  /\ batch' = Ready /\ pc' = "results"
  /\ UNCHANGED <<files, runs, crashes, answer, lastHash, todo, active, out, failures, processed,
                 late, state, begun, told>>

\* Variant: the receipt goes first.
ReceiptThenClaim(u) == <<Record("ok", u, "none"), [kind |-> "claim", unit |-> u]>>

\* A claim, then its receipt.
ClaimThenReceipt(u) == <<[kind |-> "claim", unit |-> u], Record("ok", u, "none")>>

HeartbeatDue == (processed + 1) % Beat = 0

\* The writes for the result of unit u.
WritesFor(u) ==
  LET result == IF answer[u] = "ok" THEN ClaimThenReceipt(u) ELSE <<Record("fail", u, "none")>>
  IN IF HeartbeatDue THEN Append(result, Record("heartbeat", 0, "none")) ELSE result

\* Variant: the breaker is looked at when all results in hand are counted.
BreakerLate(f) == IF f >= MaxFailures /\ Cardinality(batch) = 1 THEN "breaker" ELSE state

\* The breaker opens, and stays open though a success in the same batch follows.
Breaker(f) == IF f >= MaxFailures THEN "breaker" ELSE state

\* The next result; finished is a set.
Result(u) ==
  /\ pc = "results" /\ out = <<>> /\ u \in batch /\ answer[u] # "raise"
  /\ batch' = batch \ {u} /\ active' = active \ {u}
  /\ processed' = processed + 1
  /\ failures' = IF answer[u] = "ok" THEN 0 ELSE failures + 1
  /\ state' = Breaker(failures')
  /\ out' = WritesFor(u)
  /\ told' = Append(told, answer[u])
  /\ UNCHANGED <<files, pc, runs, crashes, answer, lastHash, todo, late, begun>>

\* fut.result() raises: the files are closed and the run is over, without a last record.
\* The executor still waits for its workers.
ResultRaises(u) ==
  /\ pc = "results" /\ out = <<>> /\ u \in batch /\ answer[u] = "raise"
  /\ pc' = "raised"
  /\ UNCHANGED <<files, runs, crashes, answer, memory>>

\* What a write of record r leaves, whole or torn.
Piece(r, whole) ==
  [kind |-> r.kind, unit |-> r.unit, state |-> r.state,
   id |-> writes + 1, whole |-> whole, prev |-> lastHash]

\* The file with piece x at its end.
Appended(x) ==
  IF torn THEN [log EXCEPT ![Len(log)] = Append(@, x)] ELSE Append(log, <<x>>)

\* _last_hash is of the text that was written, not of the line it landed on.
Chained(x) == Hash(<<x>>)

\* JsonlChainWriter.write.
WriteRecord ==
  /\ out # <<>> /\ Head(out).kind \in Kinds
  /\ LET x == Piece(Head(out), TRUE) IN log' = Appended(x) /\ lastHash' = Chained(x)
  /\ torn' = FALSE /\ writes' = writes + 1 /\ out' = Tail(out)
  /\ UNCHANGED <<claims, tripped, pc, runs, crashes, answer, todo, active, batch, failures,
                 processed, late, state, begun, told>>

\* append_claim, and the file that says the breaker tripped.
WriteFile ==
  /\ out # <<>> /\ Head(out).kind \in {"claim", "breaker"}
  /\ IF Head(out).kind = "claim"
     THEN claims' = [claims EXCEPT ![Head(out).unit] = "whole"] /\ UNCHANGED tripped
     ELSE tripped' = TRUE /\ UNCHANGED claims
  /\ out' = Tail(out)
  /\ UNCHANGED <<log, torn, writes, pc, runs, crashes, answer, lastHash, todo, active, batch,
                 failures, processed, late, state, begun, told>>

\* The run is over with state st: the last record, after the breaker's file.
Over(st) ==
  /\ state' = st /\ pc' = "end"
  /\ out' = Append(IF st = "breaker" THEN <<[kind |-> "breaker", unit |-> 0]>> ELSE <<>>,
                   Record("terminal", 0, st))

BatchDone ==
  /\ pc = "results" /\ out = <<>> /\ batch = {}
  /\ pc' = IF state = "breaker" THEN "drop" ELSE "loop"
  /\ UNCHANGED <<files, runs, crashes, answer, memory>>

\* The breaker is open: workers that run cannot be cancelled, the executor waits for
\* them, and what they say is dropped.
Drop ==
  /\ pc = "drop" /\ Ready = active
  /\ Over("breaker")
  /\ UNCHANGED <<files, runs, crashes, answer, lastHash, todo, active, batch, failures, processed,
                 late, begun, told>>

\* Variant: the queue is exhausted when its last unit has been submitted.
NoneLeft == todo = <<>> \/ active = {}

\* Variant: the loop ends with the queue only.
NoneWaiting == active = {} /\ todo = <<>>

\* Nothing runs and nothing can be submitted.
NoneActive == active = {}

LoopEnds ==
  /\ pc = "loop" /\ ~MaySubmit /\ NoneActive
  /\ Over(IF todo = <<>> THEN "exhausted" ELSE "deadline")
  /\ UNCHANGED <<files, runs, crashes, answer, lastHash, todo, active, batch, failures, processed,
                 late, begun, told>>

\* The process ends, once its workers have.
Finish ==
  /\ \/ pc = "end" /\ out = <<>>
     \/ pc = "raised" /\ Ready = active
  /\ Forget
  /\ UNCHANGED <<files, runs, crashes>>

\* Killed between two steps, or in a write, which then leaves part of a record or claim.
Crash ==
  /\ pc # "down" /\ crashes < MaxCrashes /\ crashes' = crashes + 1
  /\ \/ UNCHANGED files
     \/ /\ out # <<>> /\ Head(out).kind \in Kinds
        /\ log' = Appended(Piece(Head(out), FALSE))
        /\ torn' = TRUE /\ writes' = writes + 1
        /\ UNCHANGED <<claims, tripped>>
     \/ /\ out # <<>> /\ Head(out).kind = "claim"
        /\ claims' = [claims EXCEPT ![Head(out).unit] = "torn"]
        /\ UNCHANGED <<log, torn, writes, tripped>>
  /\ Forget /\ UNCHANGED runs

Runner ==
  \/ Submit \/ WaitTimesOut \/ Wait \/ (\E u \in Units : Result(u) \/ ResultRaises(u))
  \/ WriteRecord \/ WriteFile \/ BatchDone \/ Drop \/ LoopEnds \/ Finish

Next == Open \/ Runner \/ DeadlinePasses \/ Crash \/ \E u \in Units : WorkerEnds(u)

Spec == Init /\ [][Next]_vars

\* The main thread goes on, and a worker ends: its process has a timeout and is killed.
FairSpec ==
  /\ Spec /\ WF_vars(Runner)
  /\ \A u \in 1 .. N : WF_vars(WorkerEnds(u))

-----------------------------------------------------------------------------
States == {"none", "exhausted", "breaker", "deadline"}

Hashes == Seq((Nat \ {0}) \X BOOLEAN)

Pieces ==
  [kind : Kinds, unit : 0 .. N, state : States, id : Nat \ {0}, whole : BOOLEAN,
   prev : Hashes]

Outs ==
  [kind : Kinds, unit : 0 .. N, state : States]
    \cup [kind : {"claim", "breaker"}, unit : 0 .. N]

\* The type of every variable; no line is empty, and only workers of active units run.
TypeOK ==
  /\ log \in Seq(Seq(Pieces)) /\ (\A i \in DOMAIN log : log[i] # <<>>)
  /\ torn \in BOOLEAN /\ (torn => log # <<>>)
  /\ claims \in [Units -> {"none", "torn", "whole"}] /\ tripped \in BOOLEAN
  /\ pc \in {"down", "loop", "results", "drop", "end", "raised"}
  /\ runs \in 0 .. MaxRuns /\ crashes \in 0 .. MaxCrashes /\ writes \in Nat /\ lastHash \in Hashes
  /\ todo \in Seq(Units) /\ active \subseteq Units /\ batch \subseteq active
  /\ answer \in [Units -> {"none", "running", "ok", "fail", "raise"}]
  /\ out \in Seq(Outs) /\ failures \in Nat /\ processed \in Nat /\ late \in BOOLEAN
  /\ state \in States /\ begun \subseteq Units /\ told \in Seq({"ok", "fail"})
  /\ \A u \in Units : answer[u] = "running" => u \in active

\* A receipt that says ok has the claim of its unit beside it, whole, through crashes and
\* runs that repeat a unit.
OkHasClaim ==
  \A i \in DOMAIN log : IsReceipt(log[i]) /\ log[i][1].kind = "ok"
    => claims[log[i][1].unit] = "whole"

\* No unit has two receipts, however its runs ended ("resumable receipts").
ReceiptedOnce ==
  \A i, j \in DOMAIN log, u \in Units : ReceiptOf(u, i) /\ ReceiptOf(u, j) => i = j

\* The chain links each record that parses to the line before it, if that parses too:
\* across runs, heartbeats and crashes.
ChainVerifies ==
  \A i \in 2 .. Len(log) :
    Parses(log[i - 1]) /\ Parses(log[i]) => log[i][1].prev = Hash(log[i - 1])

Pieced(u) ==
  \E i \in DOMAIN log : \E k \in DOMAIN log[i] :
    log[i][k].whole /\ log[i][k].unit = u /\ log[i][k].kind \in {"ok", "fail"}

\* A run that ends exhausted or by the deadline has written the result of every unit it
\* started, and an exhausted one that of every unit.
RunAccounts ==
  state # "breaker" =>
    /\ \A u \in begun : Pieced(u)
    /\ state = "exhausted" => \A u \in Units : Pieced(u)

\* A run says breaker when max_consecutive_failures failures in a row were handled, in
\* whatever batches they came, and only then.
BreakerExact ==
  state = "breaker" <=>
    \E i \in DOMAIN told :
      /\ i + MaxFailures - 1 <= Len(told)
      /\ \A k \in i .. i + MaxFailures - 1 : told[k] = "fail"

\* The state in the last record of a run is true of the run: what it wrote, and how its
\* results followed each other.
StateIsTrue == pc = "end" => RunAccounts /\ BreakerExact

\* A run ends, though every unit may run into its timeout.
RunEnds == pc # "down" ~> pc = "down"
=============================================================================
