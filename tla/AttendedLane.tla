---------------------------- MODULE AttendedLane ----------------------------
(***************************************************************************)
(* The attended lane: tools/attended_lane.py starts the launcher            *)
(* tools/attended/run_attended_job.ps1, which starts a dedicated acad.exe  *)
(* with a script beside the AutoCAD sessions of the user.  The three share *)
(* a run directory: job_out.json and two security files written by the     *)
(* script, a completion receipt by the launcher, and a final receipt by    *)
(* the launcher or, when that does not come, by Python from its own        *)
(* evidence.                                                               *)
(*                                                                         *)
(* A process is a PID and a birth number, which stands for its start time. *)
(* Files are replaced whole; a PID is not given away while a handle to its *)
(* process is open; users leave the security settings alone.               *)
(***************************************************************************)
EXTENDS Naturals, Sequences, FiniteSets

CONSTANTS
  Pids,       \* process ids
  MaxBirths,  \* bound on the AutoCAD processes ever started
  MaxCalls,   \* bound on the calls
  Plans       \* sequences of jobs: the calls made, and the faults each may meet

OpKinds == {"write", "read"}

FaultKinds ==
  { "query_unknown",  \* a query for processes fails
    "start_fails",    \* acad.exe cannot be started
    "stop_fails",     \* Stop-Process or taskkill has no effect
    "kill_fails",     \* Python cannot close the launcher
    "receipt_fails",  \* the completion receipt cannot be written
    "load_fails",     \* arxload fails in the script
    "launcher_dies",
    "acad_dies" }

Jobs == [kind : OpKinds, faults : SUBSET FaultKinds]

ASSUME AttendedAssumption ==
  /\ Pids \subseteq Nat
  /\ MaxBirths \in Nat \ {0}
  /\ MaxCalls \in Nat \ {0}
  /\ Plans \subseteq {p \in Seq(Jobs) : Len(p) <= MaxCalls}

VARIABLES
  plan,     \* the calls of this behaviour
  table,    \* per PID: the birth number of the process that has it, or 0
  births,   \* processes started so far
  users,    \* births of the sessions the user started
  profile,  \* SECURELOAD and TRUSTEDPATHS on this machine: the user's or weakened
  file,     \* per run directory: what is in it
  acad,     \* per call: its dedicated AutoCAD
  ps,       \* per call: its launcher
  py,       \* Python: what it does next
  calls,    \* calls made so far; the number of the current one
  dir,      \* per call: its run directory, named by the first call in it
  seen,     \* Python has read the completion receipt
  err,      \* Python has met an error
  outcome,  \* what the call returned
  output,   \* what staged_output.dwg holds
  start,    \* history: profile when the call began
  orphan    \* history: a process of an earlier call was alive by then

machine == <<table, births, users, profile>>
python  == <<plan, py, calls, dir, seen, err, outcome, output, start, orphan>>
vars    == <<machine, file, acad, ps, python>>

Calls == 1 .. MaxCalls

Admits(c, f) == c \in DOMAIN plan /\ f \in plan[c].faults

Saves(c) == c \in DOMAIN plan /\ plan[c].kind = "write"

NoReceipt == [by |-> "nobody", status |-> "none", call |-> 0]

Receipt(by, status, c) == [by |-> by, status |-> status, call |-> c]

NoFiles ==
  [out |-> FALSE, job |-> FALSE, before |-> "none", after |-> "none",
   completion |-> FALSE, final |-> NoReceipt]

\* mem is SECURELOAD in the memory of the process.
NoAcad == [st |-> "none", pid |-> 0, birth |-> 0, mem |-> "none", saved |-> FALSE]

NoLauncher ==
  [pc |-> "none", pre |-> {}, dedicated |-> FALSE, done |-> FALSE, timedOut |-> FALSE,
   unsure |-> FALSE, status |-> "none"]

Alive(c) == acad[c].st \notin {"none", "gone"}

\* What a query for the launched process finds: the same PID and start time.
Present(c) == acad[c].st # "none" /\ table[acad[c].pid] = acad[c].birth

\* Variant: the launcher gives up its handle before it falls back on the PID.
HandleDropped(c) ==
  ps[c].pc \notin {"none", "dead", "taskkill"} /\ acad[c].st # "none"

\* The launcher holds $proc to its end.
HandleHeld(c) == ps[c].pc \notin {"none", "dead"} /\ acad[c].st # "none"

Free(p) ==
  table[p] = 0 /\ ~\E c \in Calls : HandleHeld(c) /\ acad[c].pid = p

Sessions == {<<p, table[p]>> : p \in {q \in Pids : table[q] # 0}}

Init ==
  /\ plan \in Plans
  /\ table \in [Pids -> {0, 1}] /\ Cardinality({p \in Pids : table[p] = 1}) = 1
  /\ births = 1 /\ users = {1} /\ profile = "user"
  /\ file = [d \in Calls |-> NoFiles]
  /\ acad = [c \in Calls |-> NoAcad]
  /\ ps = [c \in Calls |-> NoLauncher]
  /\ py = "idle" /\ calls = 0 /\ seen = FALSE /\ err = FALSE
  /\ dir = [c \in Calls |-> c]
  /\ outcome = "none" /\ output = "none" /\ start = "user" /\ orphan = FALSE

-----------------------------------------------------------------------------
(* The user's sessions.                                                    *)

UserOpens(p) ==
  /\ Free(p) /\ births < MaxBirths
  /\ births' = births + 1
  /\ table' = [table EXCEPT ![p] = births + 1]
  /\ users' = users \cup {births + 1}
  /\ UNCHANGED <<profile, file, acad, ps, python>>

UserCloses(p) ==
  /\ table[p] \in users
  /\ table' = [table EXCEPT ![p] = 0]
  /\ UNCHANGED <<births, users, profile, file, acad, ps, python>>

-----------------------------------------------------------------------------
(* The dedicated AutoCAD of call c runs the script of the launcher.        *)

\* It goes on as a; the run directory then holds f.
Script(c, a, f) ==
  /\ acad' = [acad EXCEPT ![c] = a]
  /\ file' = [file EXCEPT ![dir[c]] = f]
  /\ UNCHANGED <<births, users, ps, python>>

\* It writes down the settings it finds and weakens them.
Weaken(c) ==
  /\ acad[c].st = "opened"
  /\ Script(c, [acad[c] EXCEPT !.st = "weakened"],
               [file[dir[c]] EXCEPT !.before = acad[c].mem])
  /\ profile' = "weak" /\ UNCHANGED table

\* arxload and the native command, which leaves job_out.json.
RunJob(c) ==
  /\ acad[c].st = "weakened"
  /\ \E job \in {TRUE} \cup (IF Admits(c, "load_fails") THEN {FALSE} ELSE {}) :
       Script(c, [acad[c] EXCEPT !.st = "ran"], [file[dir[c]] EXCEPT !.job = job])
  /\ UNCHANGED <<table, profile>>

Restore(c) ==
  /\ acad[c].st = "ran"
  /\ Script(c, [acad[c] EXCEPT !.st = "restored"],
               [file[dir[c]] EXCEPT !.after = acad[c].mem])
  /\ profile' = acad[c].mem /\ UNCHANGED table

\* _QSAVE, which a read operation does not run.
Save(c) ==
  /\ acad[c].st = "restored" /\ Saves(c)
  /\ Script(c, [acad[c] EXCEPT !.st = "saved", !.saved = TRUE], file[dir[c]])
  /\ UNCHANGED <<table, profile>>

\* The process ends.
Gone(c) ==
  /\ acad' = [acad EXCEPT ![c].st = "gone"]
  /\ table' = [table EXCEPT ![acad[c].pid] = 0]

Quit(c) ==
  /\ acad[c].st = (IF Saves(c) THEN "saved" ELSE "restored")
  /\ Gone(c)
  /\ UNCHANGED <<births, users, profile, file, ps, python>>

AcadDies(c) ==
  /\ Alive(c) /\ Admits(c, "acad_dies")
  /\ Gone(c)
  /\ UNCHANGED <<births, users, profile, file, ps, python>>

AcadStep(c) ==
  Weaken(c) \/ RunJob(c) \/ Restore(c) \/ Save(c) \/ Quit(c) \/ AcadDies(c)

-----------------------------------------------------------------------------
(* The launcher of call c.                                                 *)

Unknowns(c) == {FALSE} \cup (IF Admits(c, "query_unknown") THEN {TRUE} ELSE {})

\* It goes on as l, and leaves the world alone.
Launcher(c, l) ==
  /\ ps' = [ps EXCEPT ![c] = l]
  /\ UNCHANGED <<machine, file, acad, python>>

\* Gate 1: which AutoCAD processes are there.  Without an answer it launches nothing.
Gate(c) ==
  /\ ps[c].pc = "gate"
  /\ \E unknown \in Unknowns(c) :
       Launcher(c, IF unknown THEN [ps[c] EXCEPT !.pc = "collect"]
                   ELSE [ps[c] EXCEPT !.pc = "launch", !.pre = Sessions,
                                      !.dedicated = TRUE])

\* acad.exe with the script.  One whose start time is unknown is neither driven nor
\* stopped, but it has its script.
LaunchAcad(c) ==
  /\ ps[c].pc = "launch"
  /\ \E p \in Pids, unknown \in Unknowns(c) :
       /\ Free(p) /\ births < MaxBirths
       /\ births' = births + 1
       /\ table' = [table EXCEPT ![p] = births + 1]
       /\ acad' = [acad EXCEPT ![c] =
                     [st |-> "opened", pid |-> p, birth |-> births + 1,
                      mem |-> profile, saved |-> FALSE]]
       /\ ps' = [ps EXCEPT ![c].pc = IF unknown THEN "collect" ELSE "poll",
                           ![c].dedicated = ~unknown, ![c].unsure = unknown]
  /\ UNCHANGED <<users, profile, file, python>>

StartFails(c) ==
  /\ ps[c].pc = "launch" /\ Admits(c, "start_fails")
  /\ Launcher(c, [ps[c] EXCEPT !.pc = "collect", !.dedicated = FALSE])

\* job_out.json is there: the completion receipt, then 30 s of grace.
JobDone(c) ==
  /\ ps[c].pc = "poll" /\ file[dir[c]].job
  /\ \E written \in {TRUE} \cup (IF Admits(c, "receipt_fails") THEN {FALSE} ELSE {}) :
       file' = [file EXCEPT ![dir[c]].completion = written]
  /\ ps' = [ps EXCEPT ![c].pc = "grace", ![c].done = TRUE]
  /\ UNCHANGED <<machine, acad, python>>

\* The process has exited, or the deadline has passed; job_out.json may have come
\* since the last look.
PollEnds(c) ==
  /\ ps[c].pc = "poll"
  /\ Launcher(c, [ps[c] EXCEPT !.pc = "stop", !.timedOut = Alive(c)])

\* Exited, or out of grace.
GraceEnds(c) ==
  /\ ps[c].pc = "grace"
  /\ Launcher(c, [ps[c] EXCEPT !.pc = "stop"])

\* Whoever has PID p is no more.
Killed(p) ==
  /\ table' = [table EXCEPT ![p] = 0]
  /\ acad' = [c \in Calls |->
                IF Alive(c) /\ acad[c].pid = p THEN [acad[c] EXCEPT !.st = "gone"]
                ELSE acad[c]]

\* Teardown: a process that still runs is stopped through its handle.
Stop(c) ==
  /\ ps[c].pc = "stop" /\ Alive(c)
  /\ Killed(acad[c].pid)
  /\ ps' = [ps EXCEPT ![c].pc = "recheck"]
  /\ UNCHANGED <<births, users, profile, file, python>>

\* It has exited, Stop-Process has no effect, or its identity is unknown.
DoNotStop(c) ==
  /\ ps[c].pc = "stop"
  /\ \/ /\ ~Alive(c)
        /\ Launcher(c, [ps[c] EXCEPT !.pc = "collect"])
     \/ /\ Alive(c) /\ Admits(c, "stop_fails")
        /\ Launcher(c, [ps[c] EXCEPT !.pc = "recheck"])
     \/ /\ Alive(c) /\ Admits(c, "query_unknown")
        /\ Launcher(c, [ps[c] EXCEPT !.pc = "collect", !.unsure = TRUE])

\* Two queries for the identity; taskkill is for one that is still the same.
Recheck(c) ==
  /\ ps[c].pc = "recheck"
  /\ \E unknown \in Unknowns(c) :
       \E pc \in (IF Present(c) THEN {"taskkill"} ELSE {"collect"})
                  \cup (IF unknown THEN {"collect"} ELSE {}) :
         Launcher(c, [ps[c] EXCEPT !.pc = pc, !.unsure = @ \/ unknown])

\* taskkill goes by the PID alone.
TaskKill(c) ==
  /\ ps[c].pc = "taskkill"
  /\ \/ Killed(acad[c].pid)
     \/ Admits(c, "stop_fails") /\ UNCHANGED <<table, acad>>
  /\ ps' = [ps EXCEPT ![c].pc = "collect"]
  /\ UNCHANGED <<births, users, profile, file, python>>

\* Variant: no difference is seen where there is nothing to compare.
RestoredLoosely(f) == f.after = "none" \/ f.before = f.after

\* Both files are there and equal.
Restored(f) == f.before # "none" /\ f.before = f.after

UsersThere(c) == ps[c].pre \subseteq Sessions

\* Variant: a job without all the evidence is reported as partial.
VerdictPartial(c, known) ==
  IF ~ps[c].dedicated THEN "blocked"
  ELSE IF ps[c].timedOut THEN "timeout"
  ELSE IF ~ps[c].done \/ ~known THEN "error"
  ELSE IF Present(c) \/ ~Restored(file[dir[c]]) THEN "partial" ELSE "ok"

\* The status of the final receipt.
Verdict(c, known) ==
  IF ~ps[c].dedicated THEN "blocked"
  ELSE IF ps[c].timedOut THEN "timeout"
  ELSE IF /\ ps[c].done /\ known /\ ~ps[c].unsure
          /\ ~Present(c) /\ UsersThere(c) /\ Restored(file[dir[c]])
       THEN "ok"
  ELSE "error"

Collect(c) ==
  /\ ps[c].pc = "collect"
  /\ \E unknown \in Unknowns(c) :
       Launcher(c, [ps[c] EXCEPT !.pc = "publish", !.status = Verdict(c, ~unknown)])

\* WriteJsonAtomic replaces what is there.
Publish(c) ==
  /\ ps[c].pc = "publish"
  /\ file' = [file EXCEPT ![dir[c]].final = Receipt("launcher", ps[c].status, c)]
  /\ ps' = [ps EXCEPT ![c].pc = "flush"]
  /\ UNCHANGED <<machine, acad, python>>

LauncherExits(c) ==
  /\ ps[c].pc = "flush"
  /\ Launcher(c, [ps[c] EXCEPT !.pc = "dead"])

LauncherDies(c) ==
  /\ ps[c].pc \notin {"none", "dead"} /\ Admits(c, "launcher_dies")
  /\ Launcher(c, [ps[c] EXCEPT !.pc = "dead"])

LauncherStep(c) ==
  \/ Gate(c) \/ LaunchAcad(c) \/ StartFails(c) \/ JobDone(c) \/ PollEnds(c)
  \/ GraceEnds(c) \/ Stop(c) \/ DoNotStop(c) \/ Recheck(c) \/ TaskKill(c)
  \/ Collect(c) \/ Publish(c) \/ LauncherExits(c) \/ LauncherDies(c)

-----------------------------------------------------------------------------
(* Python: attended_apply_staged and run_attended_native_job.              *)

Dir == dir[calls]

\* A call, in a run directory of its own or one of an earlier call.
Call ==
  /\ py \in {"idle", "ended"} /\ calls < Len(plan)
  /\ calls' = calls + 1
  /\ \E d \in {calls + 1} \cup {dir[c] : c \in 1 .. calls} :
       dir' = [dir EXCEPT ![calls + 1] = d]
  /\ py' = "begin" /\ seen' = FALSE /\ err' = FALSE /\ outcome' = "none"
  /\ output' = "none"
  /\ start' = profile /\ orphan' = \E c \in Calls : Alive(c) \/ ps[c].pc \notin {"none", "dead"}
  /\ UNCHANGED <<machine, file, acad, ps, plan>>

\* Python goes to pc, with or without an error.
Python(pc, bad) ==
  /\ py' = pc /\ err' = bad
  /\ UNCHANGED <<machine, plan, calls, dir, outcome, output, start, orphan>>

\* The call returns.
Return(result) ==
  /\ py' = "ended" /\ outcome' = result
  /\ UNCHANGED <<machine, file, acad, ps, plan, calls, dir, seen, err, start, orphan>>

\* Variant: a directory whose run has its final receipt may be used again.
ReservedUnfinished(f) == f # NoFiles /\ f.final = NoReceipt

\* Any artifact of a run makes its directory unusable.
Reserved(f) == f # NoFiles

\* The run directory is refused, the launcher or the drawing is missing, the
\* inspection before fails.
Decline ==
  /\ py = "begin"
  /\ Return("error") /\ UNCHANGED output

Launch ==
  /\ py = "begin" /\ ~Reserved(file[Dir])
  /\ file' = [file EXCEPT ![Dir].out = TRUE]
  /\ ps' = [ps EXCEPT ![calls].pc = "gate"]
  /\ Python("poll", FALSE) /\ UNCHANGED <<acad, seen>>

\* The loop ends with the final receipt ...
SeeFinal ==
  /\ py = "poll" /\ file[Dir].final # NoReceipt
  /\ Python("close", err) /\ UNCHANGED <<file, acad, ps, seen>>

SeeCompletion ==
  /\ py = "poll" /\ ~seen /\ file[Dir].completion
  /\ seen' = TRUE
  /\ Python("poll", err) /\ UNCHANGED <<file, acad, ps>>

\* ... with a launcher that is gone without one and without completion ...
LauncherGone ==
  /\ py = "poll" /\ ~seen /\ ps[calls].pc = "dead" /\ file[Dir].final = NoReceipt
  /\ Python("close", TRUE) /\ UNCHANGED <<file, acad, ps, seen>>

\* Variant: the deadline is that of the completion receipt alone.
OuterTimeoutSeen ==
  /\ py = "poll" /\ seen
  /\ Python("close", TRUE) /\ UNCHANGED <<file, acad, ps, seen>>

\* ... or at the outer deadline.
OuterTimeout ==
  /\ py = "poll"
  /\ Python("close", TRUE) /\ UNCHANGED <<file, acad, ps, seen>>

\* Variant: a process that was told to quit is taken to be gone.
ProvenAssumed(c) == file[dir[c]].job /\ Restored(file[dir[c]]) /\ UsersThere(c)

\* What the independent validator asks: job_out.json, restored settings, the dedicated
\* process gone, every session of Gate 1 still itself.
Proven(c) ==
  /\ file[dir[c]].job /\ Restored(file[dir[c]])
  /\ ~Present(c) /\ UsersThere(c)

\* The deadline of the completion receipt has passed, or the launcher is gone.
Recover ==
  /\ py = "poll" /\ seen
  /\ \E unknown \in Unknowns(calls) :
       IF Proven(calls) /\ ~unknown THEN Python("confirm", err) ELSE Python("close", TRUE)
  /\ UNCHANGED <<file, acad, ps, seen>>

\* A last-moment receipt of the launcher wins.
YieldToLauncher ==
  /\ py \in {"confirm", "link"} /\ file[Dir].final # NoReceipt
  /\ Python("close", err) /\ UNCHANGED <<file, acad, ps, seen>>

\* The launcher is gone or is closed by its handle, or cannot be closed.
LauncherClosed(closed, bad) ==
  \/ /\ ps' = [ps EXCEPT ![calls].pc = "dead"]
     /\ Python(closed, err)
  \/ /\ Admits(calls, "kill_fails") /\ ps[calls].pc # "dead"
     /\ UNCHANGED ps
     /\ Python(bad, TRUE)

\* Variant: the launcher is left to itself.
HelperIgnored == UNCHANGED ps /\ Python("link", err)

HelperClosed == LauncherClosed("link", "close")

CloseHelper ==
  /\ py = "confirm" /\ file[Dir].final = NoReceipt
  /\ HelperClosed
  /\ UNCHANGED <<file, acad, seen>>

\* os.link does not replace a receipt.
LinkReceipt ==
  /\ py = "link" /\ file[Dir].final = NoReceipt
  /\ file' = [file EXCEPT ![Dir].final = Receipt("validator", "ok", calls)]
  /\ Python("close", err) /\ UNCHANGED <<acad, ps, seen>>

\* After the loop: the launcher is waited for, then closed.
Close ==
  /\ py = "close"
  /\ LauncherClosed("judge", "judge")
  /\ UNCHANGED <<file, acad, seen>>

\* A final receipt that says ok and a job_out.json, and no error on the way.
Accepted == ~err /\ file[Dir].final.status = "ok" /\ file[Dir].job

Judge ==
  /\ py = "judge"
  /\ IF ~Accepted THEN Return("error") /\ UNCHANGED output
     ELSE IF ~Saves(calls) THEN Return("ok") /\ UNCHANGED output
     ELSE /\ py' = "inspect"
          /\ output' = IF acad[calls].saved THEN "saved" ELSE "unsaved"
          /\ UNCHANGED <<machine, file, acad, ps, plan, calls, dir, seen, err, outcome,
                         start, orphan>>

\* attended_apply_staged inspects its copy of the drawing.
PostInspect ==
  /\ py = "inspect"
  /\ \E result \in {"ok", "error"} : Return(result)
  /\ UNCHANGED output

PyStep ==
  \/ Decline \/ Launch \/ SeeFinal \/ SeeCompletion \/ LauncherGone \/ OuterTimeout
  \/ Recover \/ YieldToLauncher \/ CloseHelper \/ LinkReceipt \/ Close \/ Judge
  \/ PostInspect

Next ==
  \/ Call \/ PyStep
  \/ \E c \in Calls : LauncherStep(c) \/ AcadStep(c)
  \/ \E p \in Pids : UserOpens(p) \/ UserCloses(p)

Spec == Init /\ [][Next]_vars

\* Python polls with a deadline.  Nothing is assumed of the launcher or of AutoCAD.
FairSpec == Spec /\ WF_vars(PyStep)

-----------------------------------------------------------------------------
FileType ==
  [out : BOOLEAN, job : BOOLEAN, before : {"none", "user", "weak"},
   after : {"none", "user", "weak"}, completion : BOOLEAN,
   final : [by : {"nobody", "launcher", "validator"},
            status : {"none", "ok", "error", "timeout", "blocked"}, call : 0 .. MaxCalls]]

AcadType ==
  [st : {"none", "opened", "weakened", "ran", "restored", "saved", "gone"},
   pid : Pids \cup {0}, birth : 0 .. MaxBirths, mem : {"none", "user", "weak"},
   saved : BOOLEAN]

LauncherType ==
  [pc : {"none", "gate", "launch", "poll", "grace", "stop", "recheck", "taskkill",
         "collect", "publish", "flush", "dead"},
   pre : SUBSET (Pids \X (1 .. MaxBirths)), dedicated : BOOLEAN, done : BOOLEAN,
   timedOut : BOOLEAN, unsure : BOOLEAN,
   status : {"none", "ok", "error", "timeout", "blocked"}]

\* The type of every variable, and that a live process is the one its PID names.
TypeOK ==
  /\ plan \in Plans
  /\ table \in [Pids -> 0 .. births] /\ births \in 0 .. MaxBirths
  /\ users \subseteq 1 .. births /\ profile \in {"user", "weak"}
  /\ file \in [Calls -> FileType] /\ acad \in [Calls -> AcadType]
  /\ ps \in [Calls -> LauncherType]
  /\ py \in {"idle", "begin", "poll", "confirm", "link", "close", "judge", "inspect", "ended"}
  /\ calls \in 0 .. Len(plan) /\ dir \in [Calls -> Calls]
  /\ seen \in BOOLEAN /\ err \in BOOLEAN
  /\ outcome \in {"none", "ok", "error"} /\ output \in {"none", "saved", "unsaved"}
  /\ start \in {"user", "weak"} /\ orphan \in BOOLEAN
  /\ \A c \in Calls : Alive(c) =>
       acad[c].pid \in Pids /\ table[acad[c].pid] = acad[c].birth

\* A call that returns ok leaves none of its processes behind, whichever receipt it
\* went by ("launched_pid_closed", "powershell_helper_closed").
OkMeansClosed == outcome = "ok" => acad[calls].st = "gone" /\ ps[calls].pc = "dead"

\* A call that returns ok leaves the security settings as it found them; one that runs
\* beside processes of an earlier call may not.
OkRestores == outcome = "ok" /\ ~orphan => profile = start

\* The receipt an ok rests on was written for this call and not for an earlier one in
\* the same directory.
OkIsFresh == outcome = "ok" => file[Dir].final.call = calls

\* A call that returns ok for a write has handed over a drawing with that write in it
\* (attended_apply_staged: never a fake "ok").
OkIsSaved == outcome = "ok" /\ Saves(calls) => output = "saved"

\* A final receipt is published once: neither writer replaces the other's.
ReceiptStands ==
  [][\A d \in Calls : file[d].final # NoReceipt => file'[d].final = file[d].final]_vars

\* Nobody but the user ends a session of the user.
OnlyUsersClose ==
  [][\/ \E p \in Pids : UserCloses(p)
     \/ \A p \in Pids : table[p] \in users => table'[p] = table[p]]_vars

\* A call returns, though the launcher or AutoCAD hangs.
CallReturns == py \notin {"idle", "ended"} ~> py = "ended"
=============================================================================
