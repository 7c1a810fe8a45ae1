-------------------------- MODULE AttendedLaneProofs --------------------------
(* Theorems about AttendedLane, for any set of process ids, any number of   *)
(* processes and of calls, and under every fault.                          *)
EXTENDS AttendedLane, SequenceTheorems, TLAPS

\* An AutoCAD of a call was started by nobody else, and for one call.
BirthInv ==
  /\ \A c \in Calls : acad[c].st # "none" =>
       /\ acad[c].pid \in Pids /\ acad[c].birth \in 1 .. births /\ acad[c].birth \notin users
       /\ acad[c].mem # "none"
  /\ \A c, d \in Calls :
       acad[c].st # "none" /\ acad[d].st # "none" /\ acad[c].birth = acad[d].birth => c = d

\* A PID whose process a launcher holds is not given away.
HandleInv == \A c \in Calls : HandleHeld(c) => table[acad[c].pid] \in {0, acad[c].birth}

\* How far a launcher has come says whether its AutoCAD was started.
LaunchInv ==
  /\ py # "idle" => calls # 0
  /\ \A c \in Calls : c > calls => ps[c].pc = "none"
  /\ py = "begin" => ps[calls].pc = "none"
  /\ py \in {"poll", "confirm", "link", "close", "judge", "inspect"} => ps[calls].pc # "none"
  /\ \A c \in Calls : ps[c].pc \in {"none", "gate", "launch"} => acad[c].st = "none"
  /\ \A c \in Calls :
       ps[c].pc \in {"poll", "grace", "stop", "recheck", "taskkill"} \/ ps[c].done
         => acad[c].st # "none"

\* No two launchers share a run directory, and only its own AutoCAD writes to it.
DirInv ==
  /\ \A c \in Calls : ps[c].pc # "none" => file[dir[c]].out
  /\ \A c, d \in Calls :
       ps[c].pc # "none" /\ ps[d].pc # "none" /\ dir[c] = dir[d] => c = d
  /\ \A c \in Calls : ps[c].pc # "none" /\ file[dir[c]].job => acad[c].st # "none"

\* A launcher publishes last, and Python only when the launcher is closed.
FinalInv ==
  /\ \A c \in Calls :
       ps[c].pc \notin {"none", "flush", "dead"} => file[dir[c]].final = NoReceipt
  /\ py = "link" => ps[calls].pc = "dead"
  /\ \A c \in Calls : ps[c].pc # "none" =>
       file[dir[c]].final = NoReceipt \/ file[dir[c]].final.call = c

\* Whoever says ok has seen the process end and the settings restored.
Settled(c) == acad[c].st = "gone" /\ file[dir[c]].after # "none"

ClosedInv ==
  /\ \A c \in Calls : ps[c].status = "ok" => Settled(c)
  /\ \A c \in Calls : ps[c].pc # "none" /\ file[dir[c]].final.status = "ok" => Settled(c)
  /\ py \in {"confirm", "link"} => Settled(calls)
  /\ py \in {"judge", "inspect"} /\ ~err => ps[calls].pc = "dead"
  /\ py = "inspect" => ~err /\ file[Dir].final.status = "ok"
  /\ outcome = "ok" =>
       py = "ended" /\ ps[calls].pc = "dead" /\ file[Dir].final.status = "ok"

\* With no process of an earlier call about, the settings are weak only between the two
\* ends of the script.
Quiet(c) == ~Alive(c) /\ ps[c].pc \in {"none", "dead"}

Clean(c) ==
  /\ acad[c].st \in {"none", "opened"} => profile = start
  /\ acad[c].st # "none" => acad[c].mem = start
  /\ ps[c].pc # "none" /\ acad[c].st \in {"none", "opened", "weakened", "ran"} =>
       file[dir[c]].after = "none"
  /\ ps[c].pc # "none" /\ file[dir[c]].after # "none" => profile = start

ProfileInv ==
  ~orphan => \A c \in Calls : (c # calls => Quiet(c)) /\ (c = calls => Clean(c))

IInv ==
  TypeOK /\ BirthInv /\ HandleInv /\ LaunchInv /\ DirInv /\ FinalInv /\ ClosedInv /\ ProfileInv

-----------------------------------------------------------------------------
(* What the steps of each process do, pointwise.                            *)

ScriptStep(c) == Weaken(c) \/ RunJob(c) \/ Restore(c) \/ Save(c)

LEMMA ScriptHas ==
  ASSUME TypeOK, BirthInv, NEW c \in Calls, ScriptStep(c)
  PROVE  /\ Alive(c) /\ UNCHANGED <<births, users, ps, python, table>>
         /\ \A d \in Calls : d # c => acad'[d] = acad[d]
         /\ acad'[c].pid = acad[c].pid /\ acad'[c].birth = acad[c].birth /\ acad'[c].mem = acad[c].mem
         /\ acad'[c].st \in {"weakened", "ran", "restored", "saved"} /\ acad'[c] \in AcadType
         /\ acad' \in [Calls -> AcadType] /\ file' \in [Calls -> FileType]
         /\ profile' \in {"user", "weak"}
         /\ \A e \in Calls : e # dir[c] => file'[e] = file[e]
         /\ file'[dir[c]].out = file[dir[c]].out /\ file'[dir[c]].final = file[dir[c]].final
         /\ \/ acad[c].st = "opened" /\ profile' = "weak" /\ file'[dir[c]].after = file[dir[c]].after
               /\ acad'[c].st = "weakened"
            \/ acad[c].st = "weakened" /\ UNCHANGED profile /\ file'[dir[c]].after = file[dir[c]].after
               /\ acad'[c].st = "ran"
            \/ acad[c].st = "ran" /\ profile' = acad[c].mem /\ file'[dir[c]].after = acad[c].mem
               /\ acad'[c].st = "restored"
            \/ acad[c].st = "restored" /\ UNCHANGED profile /\ file'[dir[c]].after = file[dir[c]].after
               /\ acad'[c].st = "saved"
<1>1. /\ acad \in [Calls -> AcadType] /\ file \in [Calls -> FileType] /\ dir[c] \in Calls
      /\ profile \in {"user", "weak"}
  BY DEF TypeOK
<1>2. acad[c] \in AcadType /\ file[dir[c]] \in FileType
  BY <1>1
<1>3. acad[c].st # "none" => acad[c].mem \in {"user", "weak"}
  BY <1>2 DEF BirthInv, AcadType
<1>4. ASSUME NEW a \in AcadType, NEW f \in FileType, Script(c, a, f)
      PROVE  /\ acad' \in [Calls -> AcadType] /\ file' \in [Calls -> FileType]
             /\ acad'[c] = a /\ \A d \in Calls : d # c => acad'[d] = acad[d]
             /\ file'[dir[c]] = f /\ \A e \in Calls : e # dir[c] => file'[e] = file[e]
             /\ UNCHANGED <<births, users, ps, python>>
  BY <1>1, <1>4 DEF Script
<1>5. CASE Weaken(c)
  <2> DEFINE a == [acad[c] EXCEPT !.st = "weakened"]
             f == [file[dir[c]] EXCEPT !.before = acad[c].mem]
  <2>1. Script(c, a, f) /\ acad[c].st = "opened" /\ profile' = "weak" /\ UNCHANGED table
    BY <1>5 DEF Weaken
  <2>2. /\ a \in AcadType /\ a.st = "weakened" /\ a.pid = acad[c].pid /\ a.birth = acad[c].birth
        /\ a.mem = acad[c].mem /\ f \in FileType /\ f.out = file[dir[c]].out
        /\ f.final = file[dir[c]].final /\ f.after = file[dir[c]].after
    BY <1>2, <1>3, <2>1 DEF AcadType, FileType
  <2> HIDE DEF a, f
  <2> QED BY <1>4, <2>1, <2>2 DEF Alive
<1>6. CASE RunJob(c)
  <2>1. PICK job \in BOOLEAN : Script(c, [acad[c] EXCEPT !.st = "ran"], [file[dir[c]] EXCEPT !.job = job])
    BY <1>6 DEF RunJob
  <2> DEFINE a == [acad[c] EXCEPT !.st = "ran"]
             f == [file[dir[c]] EXCEPT !.job = job]
  <2>2. Script(c, a, f) /\ acad[c].st = "weakened" /\ UNCHANGED <<table, profile>>
    BY <1>6, <2>1 DEF RunJob
  <2>3. /\ a \in AcadType /\ a.st = "ran" /\ a.pid = acad[c].pid /\ a.birth = acad[c].birth
        /\ a.mem = acad[c].mem /\ f \in FileType /\ f.out = file[dir[c]].out
        /\ f.final = file[dir[c]].final /\ f.after = file[dir[c]].after
    BY <1>2 DEF AcadType, FileType
  <2> HIDE DEF a, f
  <2> QED BY <1>1, <1>4, <2>2, <2>3 DEF Alive
<1>7. CASE Restore(c)
  <2> DEFINE a == [acad[c] EXCEPT !.st = "restored"]
             f == [file[dir[c]] EXCEPT !.after = acad[c].mem]
  <2>1. Script(c, a, f) /\ acad[c].st = "ran" /\ profile' = acad[c].mem /\ UNCHANGED table
    BY <1>7 DEF Restore
  <2>2. /\ a \in AcadType /\ a.st = "restored" /\ a.pid = acad[c].pid /\ a.birth = acad[c].birth
        /\ a.mem = acad[c].mem /\ f \in FileType /\ f.out = file[dir[c]].out
        /\ f.final = file[dir[c]].final /\ f.after = acad[c].mem
    BY <1>2, <1>3, <2>1 DEF AcadType, FileType
  <2> HIDE DEF a, f
  <2> QED BY <1>3, <1>4, <2>1, <2>2 DEF Alive
<1>8. CASE Save(c)
  <2> DEFINE a == [acad[c] EXCEPT !.st = "saved", !.saved = TRUE]
             f == file[dir[c]]
  <2>1. Script(c, a, f) /\ acad[c].st = "restored" /\ UNCHANGED <<table, profile>>
    BY <1>8 DEF Save
  <2>2. /\ a \in AcadType /\ a.st = "saved" /\ a.pid = acad[c].pid /\ a.birth = acad[c].birth
        /\ a.mem = acad[c].mem /\ f \in FileType
    BY <1>2 DEF AcadType
  <2> HIDE DEF a
  <2> QED BY <1>1, <1>4, <2>1, <2>2 DEF Alive
<1> QED BY <1>5, <1>6, <1>7, <1>8 DEF ScriptStep

\* A process ends, or several of one PID, or none.
EndStep(c) == Quit(c) \/ AcadDies(c) \/ Stop(c) \/ TaskKill(c)

LEMMA EndHas ==
  ASSUME TypeOK, BirthInv, LaunchInv, NEW c \in Calls, EndStep(c)
  PROVE  /\ UNCHANGED <<births, users, profile, file, python>>
         /\ acad[c].st # "none" /\ acad[c].pid \in Pids
         /\ \A q \in Pids : table'[q] = table[q] \/ (q = acad[c].pid /\ table'[q] = 0)
         /\ \A d \in Calls : \/ acad'[d] = acad[d]
                             \/ Alive(d) /\ acad'[d] = [acad[d] EXCEPT !.st = "gone"]
         /\ \A d \in Calls : acad'[d].st \notin {"none", "gone"} =>
              acad'[d] = acad[d] /\ table'[acad[d].pid] = table[acad[d].pid]
         /\ table' \in [Pids -> 0 .. births] /\ acad' \in [Calls -> AcadType]
<1>1. acad \in [Calls -> AcadType] /\ table \in [Pids -> 0 .. births]
  BY DEF TypeOK
<1>2. acad[c].st # "none"
  BY DEF EndStep, Quit, AcadDies, Alive, Stop, TaskKill, LaunchInv
<1>3. acad[c].pid \in Pids
  BY <1>2 DEF BirthInv
<1>4. CASE Quit(c) \/ AcadDies(c)
  <2>1. Alive(c) /\ Gone(c) /\ UNCHANGED <<births, users, profile, file, python>>
    BY <1>4 DEF Quit, AcadDies, Alive
  <2>2. ASSUME NEW d \in Calls, d # c, Alive(d) PROVE acad[d].pid # acad[c].pid
    BY <2>1, <2>2 DEF TypeOK, BirthInv, Alive
  <2>3. /\ acad' = [acad EXCEPT ![c] = [acad[c] EXCEPT !.st = "gone"]]
        /\ table' = [table EXCEPT ![acad[c].pid] = 0]
    BY <1>1, <2>1 DEF Gone, AcadType
  <2>4. [acad[c] EXCEPT !.st = "gone"] \in AcadType
    BY <1>1 DEF AcadType
  <2>5. \A d \in Calls : acad'[d] = IF d = c THEN [acad[c] EXCEPT !.st = "gone"] ELSE acad[d]
    BY <1>1, <2>3
  <2>6. acad'[c].st = "gone"
    BY <1>1, <2>5 DEF AcadType
  <2>7. \A q \in Pids : table'[q] = IF q = acad[c].pid THEN 0 ELSE table[q]
    BY <1>1, <2>3
  <2>8. ASSUME NEW d \in Calls, acad'[d].st \notin {"none", "gone"}
        PROVE  acad'[d] = acad[d] /\ table'[acad[d].pid] = table[acad[d].pid]
    <3>1. d # c /\ acad'[d] = acad[d] /\ Alive(d)
      BY <2>5, <2>6, <2>8 DEF Alive
    <3>2. acad[d].pid # acad[c].pid /\ acad[d].pid \in Pids
      BY <2>2, <3>1 DEF BirthInv, Alive
    <3> QED BY <2>7, <3>1, <3>2
  <2>9. table' \in [Pids -> 0 .. births] /\ acad' \in [Calls -> AcadType]
    <3>1. 0 \in 0 .. births
      BY AttendedAssumption DEF TypeOK
    <3>2. table' \in [Pids -> 0 .. births]
      BY <1>1, <2>3, <3>1
    <3>3. acad' \in [Calls -> AcadType]
      BY <1>1, <2>3, <2>4
    <3> QED BY <3>2, <3>3
  <2> QED BY <1>2, <1>3, <2>1, <2>5, <2>7, <2>8, <2>9
<1>5. CASE Killed(acad[c].pid) /\ UNCHANGED <<births, users, profile, file, python>>
  <2> DEFINE p == acad[c].pid
  <2>1. /\ acad' = [d \in Calls |-> IF Alive(d) /\ acad[d].pid = p THEN [acad[d] EXCEPT !.st = "gone"]
                                    ELSE acad[d]]
        /\ table' = [table EXCEPT ![p] = 0] /\ p \in Pids
    BY <1>3, <1>5 DEF Killed
  <2> HIDE DEF p
  <2>2. \A d \in Calls : acad'[d] = IF Alive(d) /\ acad[d].pid = p THEN [acad[d] EXCEPT !.st = "gone"]
                                    ELSE acad[d]
    BY <2>1
  <2>3. \A q \in Pids : table'[q] = IF q = p THEN 0 ELSE table[q]
    BY <1>1, <2>1
  <2>4. \A d \in Calls : [acad[d] EXCEPT !.st = "gone"] \in AcadType
                         /\ [acad[d] EXCEPT !.st = "gone"].st = "gone"
    BY <1>1 DEF AcadType
  <2>5. ASSUME NEW d \in Calls, acad'[d].st \notin {"none", "gone"}
        PROVE  acad'[d] = acad[d] /\ table'[acad[d].pid] = table[acad[d].pid]
    <3>1. acad'[d] = acad[d] /\ Alive(d) /\ acad[d].pid # p
      BY <2>2, <2>4, <2>5 DEF Alive
    <3>2. acad[d].pid \in Pids
      BY <3>1 DEF BirthInv, Alive
    <3> QED BY <2>3, <3>1, <3>2
  <2>6. table' \in [Pids -> 0 .. births] /\ acad' \in [Calls -> AcadType]
    <3>1. acad' \in [Calls -> AcadType]
      BY <1>1, <2>1, <2>4
    <3> QED BY <1>1, <2>1, <3>1 DEF TypeOK
  <2> QED BY <1>2, <1>3, <1>5, <2>2, <2>3, <2>5, <2>6 DEF p
<1>6. CASE UNCHANGED <<table, acad>> /\ UNCHANGED <<births, users, profile, file, python>>
  BY <1>1, <1>2, <1>3, <1>6
<1> QED BY <1>4, <1>5, <1>6 DEF EndStep, Stop, TaskKill

LEMMA EndLauncher ==
  ASSUME TypeOK, NEW c \in Calls, EndStep(c)
  PROVE  /\ ps' \in [Calls -> LauncherType] /\ \A d \in Calls : d # c => ps'[d] = ps[d]
         /\ \/ UNCHANGED ps
            \/ /\ ps[c].pc \in {"stop", "taskkill"} /\ ps'[c].pc \in {"recheck", "collect"}
               /\ ps'[c].done = ps[c].done /\ ps'[c].status = ps[c].status
<1>1. ps \in [Calls -> LauncherType] /\ ps[c] \in LauncherType
  BY DEF TypeOK
<1>2. CASE Quit(c) \/ AcadDies(c)
  BY <1>1, <1>2 DEF Quit, AcadDies
<1>3. ASSUME NEW pc \in {"recheck", "collect"}, ps[c].pc \in {"stop", "taskkill"},
             ps' = [ps EXCEPT ![c].pc = pc]
      PROVE  /\ ps' \in [Calls -> LauncherType] /\ \A d \in Calls : d # c => ps'[d] = ps[d]
             /\ ps'[c].pc \in {"recheck", "collect"}
             /\ ps'[c].done = ps[c].done /\ ps'[c].status = ps[c].status
  <2>1. [ps[c] EXCEPT !.pc = pc] \in LauncherType
    BY <1>1 DEF LauncherType
  <2> QED BY <1>1, <1>3, <2>1 DEF LauncherType
<1>4. CASE Stop(c)
  BY <1>3, <1>4 DEF Stop
<1>5. CASE TaskKill(c)
  BY <1>3, <1>5 DEF TaskKill
<1> QED BY <1>2, <1>4, <1>5 DEF EndStep

\* A launcher looks at what is there.
LookStep(c) ==
  \/ Gate(c) \/ StartFails(c) \/ PollEnds(c) \/ GraceEnds(c) \/ DoNotStop(c) \/ Recheck(c)
  \/ Collect(c) \/ LauncherExits(c) \/ LauncherDies(c)

LEMMA LookHas ==
  ASSUME TypeOK, NEW c \in Calls, LookStep(c)
  PROVE  /\ UNCHANGED <<machine, file, acad, python>>
         /\ ps' \in [Calls -> LauncherType] /\ \A d \in Calls : d # c => ps'[d] = ps[d]
         /\ ps[c].pc \notin {"none", "dead"}
         /\ ps'[c].pc \in {"launch", "collect", "stop", "recheck", "taskkill", "publish", "dead"}
         /\ ps'[c].pc = "launch" => ps[c].pc = "gate"
         /\ ps'[c].pc \in {"stop", "recheck", "taskkill"} =>
              ps[c].pc \in {"poll", "grace", "stop", "recheck"}
         /\ ps[c].pc = "flush" => ps'[c].pc = "dead"
         /\ ps'[c].done = TRUE => ps[c].done = TRUE
         /\ ps'[c].status = "ok" => \/ ps[c].status = "ok"
                                    \/ ps[c].done /\ ~Present(c) /\ Restored(file[dir[c]])
<1>1. ps \in [Calls -> LauncherType] /\ ps[c] \in LauncherType
  BY DEF TypeOK
<1>2. Sessions \in SUBSET (Pids \X (1 .. MaxBirths))
  BY AttendedAssumption DEF Sessions, TypeOK
<1>3. ASSUME NEW l \in LauncherType, Launcher(c, l)
      PROVE  /\ UNCHANGED <<machine, file, acad, python>> /\ ps'[c] = l
             /\ ps' \in [Calls -> LauncherType] /\ \A d \in Calls : d # c => ps'[d] = ps[d]
  BY <1>1, <1>3 DEF Launcher
<1>4. CASE Gate(c)
  <2> DEFINE l1 == [ps[c] EXCEPT !.pc = "collect"]
             l2 == [ps[c] EXCEPT !.pc = "launch", !.pre = Sessions, !.dedicated = TRUE]
  <2>1. l1 \in LauncherType /\ l1.pc = "collect" /\ l1.done = ps[c].done /\ l1.status = ps[c].status
    BY <1>1 DEF LauncherType
  <2>2. l2 \in LauncherType /\ l2.pc = "launch" /\ l2.done = ps[c].done /\ l2.status = ps[c].status
    BY <1>1, <1>2 DEF LauncherType
  <2>3. (Launcher(c, l1) \/ Launcher(c, l2)) /\ ps[c].pc = "gate"
    BY <1>4 DEF Gate
  <2> HIDE DEF l1, l2
  <2> QED BY <1>3, <2>1, <2>2, <2>3
<1>5. CASE StartFails(c)
  <2> DEFINE l == [ps[c] EXCEPT !.pc = "collect", !.dedicated = FALSE]
  <2>1. l \in LauncherType /\ l.pc = "collect" /\ l.done = ps[c].done /\ l.status = ps[c].status
    BY <1>1 DEF LauncherType
  <2>2. Launcher(c, l) /\ ps[c].pc = "launch"
    BY <1>5 DEF StartFails
  <2> HIDE DEF l
  <2> QED BY <1>3, <2>1, <2>2
<1>6. CASE PollEnds(c)
  <2> DEFINE l == [ps[c] EXCEPT !.pc = "stop", !.timedOut = Alive(c)]
  <2>1. Alive(c) \in BOOLEAN
    BY DEF Alive
  <2>2. l \in LauncherType /\ l.pc = "stop" /\ l.done = ps[c].done /\ l.status = ps[c].status
    BY <1>1, <2>1 DEF LauncherType
  <2>3. Launcher(c, l) /\ ps[c].pc = "poll"
    BY <1>6 DEF PollEnds
  <2> HIDE DEF l
  <2> QED BY <1>3, <2>2, <2>3
<1>7. CASE GraceEnds(c)
  <2> DEFINE l == [ps[c] EXCEPT !.pc = "stop"]
  <2>1. l \in LauncherType /\ l.pc = "stop" /\ l.done = ps[c].done /\ l.status = ps[c].status
    BY <1>1 DEF LauncherType
  <2>2. Launcher(c, l) /\ ps[c].pc = "grace"
    BY <1>7 DEF GraceEnds
  <2> HIDE DEF l
  <2> QED BY <1>3, <2>1, <2>2
<1>8. CASE DoNotStop(c)
  <2> DEFINE l1 == [ps[c] EXCEPT !.pc = "collect"]
             l2 == [ps[c] EXCEPT !.pc = "recheck"]
             l3 == [ps[c] EXCEPT !.pc = "collect", !.unsure = TRUE]
  <2>1. /\ l1 \in LauncherType /\ l1.pc = "collect" /\ l1.done = ps[c].done /\ l1.status = ps[c].status
        /\ l2 \in LauncherType /\ l2.pc = "recheck" /\ l2.done = ps[c].done /\ l2.status = ps[c].status
        /\ l3 \in LauncherType /\ l3.pc = "collect" /\ l3.done = ps[c].done /\ l3.status = ps[c].status
    BY <1>1 DEF LauncherType
  <2>2. (Launcher(c, l1) \/ Launcher(c, l2) \/ Launcher(c, l3)) /\ ps[c].pc = "stop"
    BY <1>8 DEF DoNotStop
  <2> HIDE DEF l1, l2, l3
  <2> QED BY <1>3, <2>1, <2>2
<1>9. CASE Recheck(c)
  <2>1. PICK unknown \in BOOLEAN, pc \in {"taskkill", "collect"} :
          Launcher(c, [ps[c] EXCEPT !.pc = pc, !.unsure = @ \/ unknown])
    BY <1>9 DEF Recheck, Unknowns
  <2> DEFINE l == [ps[c] EXCEPT !.pc = pc, !.unsure = @ \/ unknown]
  <2>2. l \in LauncherType /\ l.pc = pc /\ l.done = ps[c].done /\ l.status = ps[c].status
    BY <1>1 DEF LauncherType
  <2>3. Launcher(c, l) /\ ps[c].pc = "recheck"
    BY <1>9, <2>1 DEF Recheck
  <2> HIDE DEF l
  <2> QED BY <1>3, <2>2, <2>3
<1>10. CASE Collect(c)
  <2>1. PICK unknown \in BOOLEAN : Launcher(c, [ps[c] EXCEPT !.pc = "publish", !.status = Verdict(c, ~unknown)])
    BY <1>10 DEF Collect, Unknowns
  <2> DEFINE v == Verdict(c, ~unknown)
             l == [ps[c] EXCEPT !.pc = "publish", !.status = v]
  <2>2. /\ v \in {"ok", "error", "timeout", "blocked"}
        /\ v = "ok" => ps[c].done /\ ~Present(c) /\ Restored(file[dir[c]])
    BY DEF Verdict
  <2> HIDE DEF v
  <2>3. l \in LauncherType /\ l.pc = "publish" /\ l.done = ps[c].done /\ l.status = v
    BY <1>1, <2>2 DEF LauncherType
  <2>4. Launcher(c, l) /\ ps[c].pc = "collect"
    BY <1>10, <2>1 DEF Collect, v
  <2> HIDE DEF l
  <2> QED BY <1>3, <2>2, <2>3, <2>4
<1>11. CASE LauncherExits(c) \/ LauncherDies(c)
  <2> DEFINE l == [ps[c] EXCEPT !.pc = "dead"]
  <2>1. l \in LauncherType /\ l.pc = "dead" /\ l.done = ps[c].done /\ l.status = ps[c].status
    BY <1>1 DEF LauncherType
  <2>2. Launcher(c, l) /\ ps[c].pc \notin {"none", "dead"}
    BY <1>11 DEF LauncherExits, LauncherDies
  <2> HIDE DEF l
  <2> QED BY <1>3, <2>1, <2>2
<1> QED BY <1>4, <1>5, <1>6, <1>7, <1>8, <1>9, <1>10, <1>11 DEF LookStep
\* The launcher starts AutoCAD under a PID that is free.
LEMMA LaunchHas ==
  ASSUME TypeOK, NEW c \in Calls, LaunchAcad(c)
  PROVE  /\ UNCHANGED <<users, profile, file, python>>
         /\ births' = births + 1 /\ births + 1 \in 1 .. MaxBirths
         /\ acad' \in [Calls -> AcadType] /\ \A d \in Calls : d # c => acad'[d] = acad[d]
         /\ acad'[c].st = "opened" /\ acad'[c].pid \in Pids /\ acad'[c].birth = births + 1
         /\ acad'[c].mem = profile /\ Free(acad'[c].pid)
         /\ table' \in [Pids -> 0 .. births'] /\ table'[acad'[c].pid] = births + 1
         /\ \A q \in Pids : q # acad'[c].pid => table'[q] = table[q]
         /\ ps' \in [Calls -> LauncherType] /\ \A d \in Calls : d # c => ps'[d] = ps[d]
         /\ ps[c].pc = "launch" /\ ps'[c].pc \in {"collect", "poll"}
         /\ ps'[c].done = ps[c].done /\ ps'[c].status = ps[c].status
<1>1. /\ ps \in [Calls -> LauncherType] /\ ps[c] \in LauncherType /\ acad \in [Calls -> AcadType]
      /\ table \in [Pids -> 0 .. births] /\ births \in Nat /\ profile \in {"user", "weak"}
  BY AttendedAssumption DEF TypeOK
<1>2. PICK p \in Pids, unknown \in BOOLEAN :
        /\ Free(p) /\ births < MaxBirths /\ births' = births + 1
        /\ table' = [table EXCEPT ![p] = births + 1]
        /\ acad' = [acad EXCEPT ![c] = [st |-> "opened", pid |-> p, birth |-> births + 1,
                                        mem |-> profile, saved |-> FALSE]]
        /\ ps' = [ps EXCEPT ![c].pc = IF unknown THEN "collect" ELSE "poll",
                            ![c].dedicated = ~unknown, ![c].unsure = unknown]
  BY DEF LaunchAcad, Unknowns
<1> DEFINE a == [st |-> "opened", pid |-> p, birth |-> births + 1, mem |-> profile, saved |-> FALSE]
           l == [ps[c] EXCEPT !.pc = IF unknown THEN "collect" ELSE "poll",
                              !.dedicated = ~unknown, !.unsure = unknown]
<1>3. births + 1 \in 1 .. MaxBirths
  BY <1>1, <1>2, AttendedAssumption
<1>4. a \in AcadType /\ a.st = "opened" /\ a.pid = p /\ a.birth = births + 1 /\ a.mem = profile
  BY <1>1, <1>3 DEF AcadType
<1>5. /\ l \in LauncherType /\ l.pc \in {"collect", "poll"}
      /\ l.done = ps[c].done /\ l.status = ps[c].status
  BY <1>1 DEF LauncherType
<1>6. ps' = [ps EXCEPT ![c] = l] /\ acad' = [acad EXCEPT ![c] = a]
  BY <1>1, <1>2
<1>7. ps[c].pc = "launch" /\ UNCHANGED <<users, profile, file, python>>
  BY DEF LaunchAcad
<1> HIDE DEF a, l
<1>8. table' \in [Pids -> 0 .. births'] /\ table'[p] = births + 1
      /\ \A q \in Pids : q # p => table'[q] = table[q]
  <2>1. births + 1 \in 0 .. births' /\ 0 .. births \subseteq 0 .. births'
    BY <1>1, <1>2
  <2> QED BY <1>1, <1>2, <2>1
<1>9. acad' \in [Calls -> AcadType] /\ acad'[c] = a /\ \A d \in Calls : d # c => acad'[d] = acad[d]
  BY <1>1, <1>4, <1>6
<1>10. ps' \in [Calls -> LauncherType] /\ ps'[c] = l /\ \A d \in Calls : d # c => ps'[d] = ps[d]
  BY <1>1, <1>5, <1>6
<1> QED BY <1>2, <1>3, <1>4, <1>5, <1>7, <1>8, <1>9, <1>10

\* The completion receipt and the final one.
LEMMA WriteHas ==
  ASSUME TypeOK, NEW c \in Calls, JobDone(c) \/ Publish(c)
  PROVE  /\ UNCHANGED <<machine, acad, python>>
         /\ ps' \in [Calls -> LauncherType] /\ \A d \in Calls : d # c => ps'[d] = ps[d]
         /\ ps'[c].status = ps[c].status
         /\ file' \in [Calls -> FileType] /\ \A e \in Calls : e # dir[c] => file'[e] = file[e]
         /\ file'[dir[c]].out = file[dir[c]].out /\ file'[dir[c]].job = file[dir[c]].job
         /\ file'[dir[c]].after = file[dir[c]].after
         /\ \/ /\ ps[c].pc = "poll" /\ ps'[c].pc = "grace"
               /\ file'[dir[c]].final = file[dir[c]].final
            \/ /\ ps[c].pc = "publish" /\ ps'[c].pc = "flush" /\ ps'[c].done = ps[c].done
               /\ file'[dir[c]].final.status = ps[c].status /\ file'[dir[c]].final.call = c
<1>1. /\ ps \in [Calls -> LauncherType] /\ ps[c] \in LauncherType /\ file \in [Calls -> FileType]
      /\ dir[c] \in Calls /\ file[dir[c]] \in FileType
  BY DEF TypeOK
<1>2. CASE JobDone(c)
  <2>1. PICK w \in BOOLEAN : file' = [file EXCEPT ![dir[c]].completion = w]
    BY <1>2 DEF JobDone
  <2> DEFINE f == [file[dir[c]] EXCEPT !.completion = w]
             l == [ps[c] EXCEPT !.pc = "grace", !.done = TRUE]
  <2>2. /\ f \in FileType /\ f.out = file[dir[c]].out /\ f.job = file[dir[c]].job
        /\ f.after = file[dir[c]].after /\ f.final = file[dir[c]].final
    BY <1>1 DEF FileType
  <2>3. l \in LauncherType /\ l.pc = "grace" /\ l.status = ps[c].status
    BY <1>1 DEF LauncherType
  <2>4. /\ file' = [file EXCEPT ![dir[c]] = f] /\ ps' = [ps EXCEPT ![c] = l]
        /\ ps[c].pc = "poll" /\ UNCHANGED <<machine, acad, python>>
    BY <1>1, <1>2, <2>1 DEF JobDone
  <2> HIDE DEF f, l
  <2>5. file'[dir[c]] = f /\ file' \in [Calls -> FileType] /\ \A e \in Calls : e # dir[c] => file'[e] = file[e]
    BY <1>1, <2>2, <2>4
  <2>6. ps'[c] = l /\ ps' \in [Calls -> LauncherType] /\ \A d \in Calls : d # c => ps'[d] = ps[d]
    BY <1>1, <2>3, <2>4
  <2> QED BY <2>2, <2>3, <2>4, <2>5, <2>6
<1>3. CASE Publish(c)
  <2> DEFINE r == Receipt("launcher", ps[c].status, c)
             f == [file[dir[c]] EXCEPT !.final = r]
             l == [ps[c] EXCEPT !.pc = "flush"]
  <2>1. /\ r \in [by : {"nobody", "launcher", "validator"},
                   status : {"none", "ok", "error", "timeout", "blocked"}, call : 0 .. MaxCalls]
        /\ r.status = ps[c].status /\ r.call = c
    BY <1>1, AttendedAssumption DEF Receipt, LauncherType, Calls
  <2> HIDE DEF r
  <2>2. /\ f \in FileType /\ f.out = file[dir[c]].out /\ f.job = file[dir[c]].job
        /\ f.after = file[dir[c]].after /\ f.final = r
    BY <1>1, <2>1 DEF FileType
  <2>3. l \in LauncherType /\ l.pc = "flush" /\ l.status = ps[c].status /\ l.done = ps[c].done
    BY <1>1 DEF LauncherType
  <2>4. /\ file' = [file EXCEPT ![dir[c]] = f] /\ ps' = [ps EXCEPT ![c] = l]
        /\ ps[c].pc = "publish" /\ UNCHANGED <<machine, acad, python>>
    BY <1>1, <1>3 DEF Publish, r
  <2> HIDE DEF f, l
  <2>5. file'[dir[c]] = f /\ file' \in [Calls -> FileType] /\ \A e \in Calls : e # dir[c] => file'[e] = file[e]
    BY <1>1, <2>2, <2>4
  <2>6. ps'[c] = l /\ ps' \in [Calls -> LauncherType] /\ \A d \in Calls : d # c => ps'[d] = ps[d]
    BY <1>1, <2>3, <2>4
  <2> QED BY <2>1, <2>2, <2>3, <2>4, <2>5, <2>6
<1> QED BY <1>2, <1>3

Busy == {"poll", "confirm", "link", "close", "judge", "inspect"}

LEMMA Current ==
  ASSUME TypeOK, LaunchInv, py # "idle"
  PROVE  calls \in Calls /\ Dir \in Calls
<1>1. calls \in 0 .. Len(plan) /\ calls # 0 /\ plan \in Seq(Jobs) /\ Len(plan) <= MaxCalls
  BY AttendedAssumption DEF TypeOK, LaunchInv
<1>2. calls \in Calls
  BY <1>1, AttendedAssumption DEF Calls
<1> QED BY <1>2 DEF TypeOK, Dir

\* Python waits, decides and closes the launcher; it writes nothing.
WaitStep ==
  \/ Decline \/ SeeFinal \/ SeeCompletion \/ LauncherGone \/ OuterTimeout \/ Recover
  \/ YieldToLauncher \/ CloseHelper \/ Close \/ Judge \/ PostInspect

\* What is so of the launcher afterwards.
Shut == ps' = [ps EXCEPT ![calls].pc = "dead"]

LEMMA WaitHas ==
  ASSUME TypeOK, LaunchInv, ClosedInv, WaitStep
  PROVE  /\ UNCHANGED <<machine, file, acad, plan, calls, dir, start, orphan>>
         /\ py \in Busy \cup {"begin"} /\ py' \in Busy \cup {"ended"}
         /\ py' \in Busy => py \in Busy
         /\ UNCHANGED ps \/ (py \in Busy /\ Shut)
         /\ seen' \in BOOLEAN /\ err' \in BOOLEAN
         /\ outcome' \in {"none", "ok", "error"} /\ output' \in {"none", "saved", "unsaved"}
         /\ py' = "confirm" => Proven(calls)
         /\ py' = "link" => py = "confirm" /\ Shut
         /\ py' = "judge" /\ ~err' => Shut
         /\ py' = "inspect" => py = "judge" /\ UNCHANGED <<ps, err>> /\ Accepted
         /\ outcome' = "ok" => /\ py' = "ended" /\ UNCHANGED <<ps, err>>
                              /\ ((py = "judge" /\ Accepted) \/ py = "inspect")
<1>1. seen \in BOOLEAN /\ err \in BOOLEAN
  BY DEF TypeOK
<1>2. outcome \in {"none", "ok", "error"} /\ output \in {"none", "saved", "unsaved"}
  BY DEF TypeOK
<1>3. outcome = "ok" => py = "ended"
  BY DEF ClosedInv
<1>4. CASE Decline
  <2>1. UNCHANGED <<machine, file, acad, plan, calls, dir, start, orphan>>
    BY <1>4 DEF Decline, Return
  <2>2. py = "begin" /\ py' = "ended"
    BY <1>4 DEF Decline, Return
  <2>3. outcome' = "error" /\ UNCHANGED output
    BY <1>4 DEF Decline, Return
  <2>4. (seen' = seen \/ seen' = TRUE) /\ (err' = err \/ err' = TRUE)
    BY <1>4 DEF Decline, Return
  <2>5. UNCHANGED <<ps, err>>
    BY <1>4, <2>2 DEF Decline, Return
  <2>6. outcome' \in {"none", "ok", "error"} /\ output' \in {"none", "saved", "unsaved"}
    BY <1>2, <2>3
  <2>7. seen' \in BOOLEAN /\ err' \in BOOLEAN
    BY <1>1, <2>4
  <2> QED BY <1>3, <2>1, <2>2, <2>3, <2>4, <2>5, <2>6, <2>7 DEF Busy
<1>5. CASE SeeFinal \/ SeeCompletion \/ LauncherGone \/ OuterTimeout
  <2>1. UNCHANGED <<machine, file, acad, plan, calls, dir, start, orphan>>
    BY <1>5 DEF SeeFinal, SeeCompletion, LauncherGone, OuterTimeout, Python
  <2>2. py = "poll" /\ py' \in {"poll", "close"}
    BY <1>5 DEF SeeFinal, SeeCompletion, LauncherGone, OuterTimeout, Python
  <2>3. UNCHANGED <<outcome, output>>
    BY <1>5 DEF SeeFinal, SeeCompletion, LauncherGone, OuterTimeout, Python
  <2>4. (seen' = seen \/ seen' = TRUE) /\ (err' = err \/ err' = TRUE)
    BY <1>5 DEF SeeFinal, SeeCompletion, LauncherGone, OuterTimeout, Python
  <2>5. UNCHANGED ps
    BY <1>5, <2>2 DEF SeeFinal, SeeCompletion, LauncherGone, OuterTimeout, Python
  <2>6. outcome' \in {"none", "ok", "error"} /\ output' \in {"none", "saved", "unsaved"}
    BY <1>2, <2>3
  <2>7. seen' \in BOOLEAN /\ err' \in BOOLEAN
    BY <1>1, <2>4
  <2> QED BY <1>3, <2>1, <2>2, <2>3, <2>4, <2>5, <2>6, <2>7 DEF Busy
<1>6. CASE Recover
  <2>1. UNCHANGED <<machine, file, acad, plan, calls, dir, start, orphan>>
    BY <1>6 DEF Recover, Python
  <2>2. py = "poll" /\ py' \in {"confirm", "close"}
    BY <1>6 DEF Recover, Python
  <2>3. UNCHANGED <<outcome, output>>
    BY <1>6 DEF Recover, Python
  <2>4. (seen' = seen \/ seen' = TRUE) /\ (err' = err \/ err' = TRUE)
    BY <1>6 DEF Recover, Python
  <2>5. UNCHANGED ps /\ (py' = "confirm" => Proven(calls))
    BY <1>6, <2>2 DEF Recover, Python
  <2>6. outcome' \in {"none", "ok", "error"} /\ output' \in {"none", "saved", "unsaved"}
    BY <1>2, <2>3
  <2>7. seen' \in BOOLEAN /\ err' \in BOOLEAN
    BY <1>1, <2>4
  <2> QED BY <1>3, <2>1, <2>2, <2>3, <2>4, <2>5, <2>6, <2>7 DEF Busy
<1>7. CASE YieldToLauncher
  <2>1. UNCHANGED <<machine, file, acad, plan, calls, dir, start, orphan>>
    BY <1>7 DEF YieldToLauncher, Python
  <2>2. py \in {"confirm", "link"} /\ py' = "close"
    BY <1>7 DEF YieldToLauncher, Python
  <2>3. UNCHANGED <<outcome, output>>
    BY <1>7 DEF YieldToLauncher, Python
  <2>4. (seen' = seen \/ seen' = TRUE) /\ (err' = err \/ err' = TRUE)
    BY <1>7 DEF YieldToLauncher, Python
  <2>5. UNCHANGED ps
    BY <1>7, <2>2 DEF YieldToLauncher, Python
  <2>6. outcome' \in {"none", "ok", "error"} /\ output' \in {"none", "saved", "unsaved"}
    BY <1>2, <2>3
  <2>7. seen' \in BOOLEAN /\ err' \in BOOLEAN
    BY <1>1, <2>4
  <2> QED BY <1>3, <2>1, <2>2, <2>3, <2>4, <2>5, <2>6, <2>7 DEF Busy
<1>8. CASE CloseHelper
  <2>1. UNCHANGED <<machine, file, acad, plan, calls, dir, start, orphan>>
    BY <1>8 DEF CloseHelper, HelperClosed, LauncherClosed, Python, Shut
  <2>2. py = "confirm" /\ py' \in {"link", "close"}
    BY <1>8 DEF CloseHelper, HelperClosed, LauncherClosed, Python, Shut
  <2>3. UNCHANGED <<outcome, output>>
    BY <1>8 DEF CloseHelper, HelperClosed, LauncherClosed, Python, Shut
  <2>4. (seen' = seen \/ seen' = TRUE) /\ (err' = err \/ err' = TRUE)
    BY <1>8 DEF CloseHelper, HelperClosed, LauncherClosed, Python, Shut
  <2>5. (UNCHANGED ps \/ Shut) /\ (py' = "link" => Shut)
    BY <1>8, <2>2 DEF CloseHelper, HelperClosed, LauncherClosed, Python, Shut
  <2>6. outcome' \in {"none", "ok", "error"} /\ output' \in {"none", "saved", "unsaved"}
    BY <1>2, <2>3
  <2>7. seen' \in BOOLEAN /\ err' \in BOOLEAN
    BY <1>1, <2>4
  <2> QED BY <1>3, <2>1, <2>2, <2>3, <2>4, <2>5, <2>6, <2>7 DEF Busy
<1>9. CASE Close
  <2>1. UNCHANGED <<machine, file, acad, plan, calls, dir, start, orphan>>
    BY <1>9 DEF Close, LauncherClosed, Python, Shut
  <2>2. py = "close" /\ py' = "judge"
    BY <1>9 DEF Close, LauncherClosed, Python, Shut
  <2>3. UNCHANGED <<outcome, output>>
    BY <1>9 DEF Close, LauncherClosed, Python, Shut
  <2>4. (seen' = seen \/ seen' = TRUE) /\ (err' = err \/ err' = TRUE)
    BY <1>9 DEF Close, LauncherClosed, Python, Shut
  <2>5. (UNCHANGED ps \/ Shut) /\ (~err' => Shut)
    BY <1>9, <2>2 DEF Close, LauncherClosed, Python, Shut
  <2>6. outcome' \in {"none", "ok", "error"} /\ output' \in {"none", "saved", "unsaved"}
    BY <1>2, <2>3
  <2>7. seen' \in BOOLEAN /\ err' \in BOOLEAN
    BY <1>1, <2>4
  <2> QED BY <1>3, <2>1, <2>2, <2>3, <2>4, <2>5, <2>6, <2>7 DEF Busy
<1>10. CASE Judge
  <2>1. UNCHANGED <<machine, file, acad, plan, calls, dir, start, orphan>>
    BY <1>10 DEF Judge, Return
  <2>2. py = "judge" /\ py' \in {"inspect", "ended"}
    BY <1>10 DEF Judge, Return
  <2>3. (UNCHANGED outcome \/ (py' = "ended" /\ outcome' \in {"ok", "error"})) /\ (UNCHANGED output \/ output' \in {"saved", "unsaved"})
    BY <1>10 DEF Judge, Return
  <2>4. (seen' = seen \/ seen' = TRUE) /\ (err' = err \/ err' = TRUE)
    BY <1>10 DEF Judge, Return
  <2>5. UNCHANGED <<ps, err>> /\ (py' = "inspect" \/ outcome' = "ok" => Accepted)
    BY <1>10, <2>2 DEF Judge, Return
  <2>6. outcome' \in {"none", "ok", "error"} /\ output' \in {"none", "saved", "unsaved"}
    BY <1>2, <2>3
  <2>7. seen' \in BOOLEAN /\ err' \in BOOLEAN
    BY <1>1, <2>4
  <2> QED BY <1>3, <2>1, <2>2, <2>3, <2>4, <2>5, <2>6, <2>7 DEF Busy
<1>11. CASE PostInspect
  <2>1. UNCHANGED <<machine, file, acad, plan, calls, dir, start, orphan>>
    BY <1>11 DEF PostInspect, Return
  <2>2. py = "inspect" /\ py' = "ended"
    BY <1>11 DEF PostInspect, Return
  <2>3. outcome' \in {"ok", "error"} /\ UNCHANGED output
    BY <1>11 DEF PostInspect, Return
  <2>4. (seen' = seen \/ seen' = TRUE) /\ (err' = err \/ err' = TRUE)
    BY <1>11 DEF PostInspect, Return
  <2>5. UNCHANGED <<ps, err>>
    BY <1>11, <2>2 DEF PostInspect, Return
  <2>6. outcome' \in {"none", "ok", "error"} /\ output' \in {"none", "saved", "unsaved"}
    BY <1>2, <2>3
  <2>7. seen' \in BOOLEAN /\ err' \in BOOLEAN
    BY <1>1, <2>4
  <2> QED BY <1>3, <2>1, <2>2, <2>3, <2>4, <2>5, <2>6, <2>7 DEF Busy
<1> QED BY <1>4, <1>5, <1>6, <1>7, <1>8, <1>9, <1>10, <1>11 DEF WaitStep

\* The launcher is dead or as it was.
LEMMA WaitLauncher ==
  ASSUME TypeOK, LaunchInv, ClosedInv, WaitStep
  PROVE  /\ ps' \in [Calls -> LauncherType]
         /\ \A d \in Calls : /\ ps'[d].done = ps[d].done /\ ps'[d].status = ps[d].status
                            /\ \/ ps'[d].pc = ps[d].pc
                               \/ py \in Busy /\ d = calls /\ ps[d].pc # "none" /\ ps'[d].pc = "dead"
         /\ Shut => ps'[calls].pc = "dead"
<1>1. ps \in [Calls -> LauncherType] /\ calls \in Calls
  BY WaitHas, Current DEF TypeOK, Busy
<1>2. py \in Busy => ps[calls].pc # "none"
  BY DEF LaunchInv, Busy
<1>3. CASE Shut
  <2> DEFINE l == [ps[calls] EXCEPT !.pc = "dead"]
  <2>1. l \in LauncherType /\ l.pc = "dead" /\ l.done = ps[calls].done /\ l.status = ps[calls].status
    BY <1>1 DEF LauncherType
  <2>2. ps' = [ps EXCEPT ![calls] = l]
    BY <1>1, <1>3 DEF Shut
  <2> HIDE DEF l
  <2>3. ps'[calls] = l /\ ps' \in [Calls -> LauncherType] /\ \A d \in Calls : d # calls => ps'[d] = ps[d]
    BY <1>1, <2>1, <2>2
  <2>4. ps' = ps \/ py \in Busy
    BY WaitHas
  <2> QED BY <1>1, <1>2, <2>1, <2>3, <2>4
<1>4. CASE UNCHANGED ps /\ ~Shut
  BY <1>1, <1>4
<1> QED BY <1>3, <1>4, WaitHas

\* Python starts a launcher in a directory that holds nothing.
LEMMA StartHas ==
  ASSUME TypeOK, LaunchInv, Launch
  PROVE  /\ UNCHANGED <<machine, acad, plan, calls, dir, outcome, output, start, orphan, seen>>
         /\ py = "begin" /\ py' = "poll" /\ err' = FALSE
         /\ file[Dir] = NoFiles /\ file' \in [Calls -> FileType]
         /\ \A e \in Calls : e # Dir => file'[e] = file[e]
         /\ file'[Dir].out = TRUE /\ file'[Dir].final = NoReceipt /\ file'[Dir].after = "none"
         /\ file'[Dir].job = FALSE
         /\ ps' \in [Calls -> LauncherType] /\ \A d \in Calls : d # calls => ps'[d] = ps[d]
         /\ ps'[calls].pc = "gate"
         /\ ps'[calls].done = ps[calls].done /\ ps'[calls].status = ps[calls].status
<1>1. /\ py = "begin" /\ py' = "poll" /\ err' = FALSE /\ file[Dir] = NoFiles
      /\ UNCHANGED <<machine, acad, plan, calls, dir, outcome, output, start, orphan, seen>>
      /\ file' = [file EXCEPT ![Dir].out = TRUE] /\ ps' = [ps EXCEPT ![calls].pc = "gate"]
  BY DEF Launch, Reserved, Python
<1>2. /\ calls \in Calls /\ Dir \in Calls /\ ps \in [Calls -> LauncherType]
      /\ ps[calls] \in LauncherType /\ file \in [Calls -> FileType] /\ file[Dir] \in FileType
  BY <1>1, Current DEF TypeOK
<1> DEFINE f == [file[Dir] EXCEPT !.out = TRUE]
           l == [ps[calls] EXCEPT !.pc = "gate"]
<1>3. f \in FileType /\ f.out = TRUE /\ f.final = NoReceipt /\ f.after = "none" /\ f.job = FALSE
  <2>1. /\ f \in FileType /\ f.out = TRUE /\ f.final = file[Dir].final
        /\ f.after = file[Dir].after /\ f.job = file[Dir].job
    BY <1>2 DEF FileType
  <2> QED BY <1>1, <2>1 DEF NoFiles
<1>4. l \in LauncherType /\ l.pc = "gate" /\ l.done = ps[calls].done /\ l.status = ps[calls].status
  BY <1>2 DEF LauncherType
<1>5. file' = [file EXCEPT ![Dir] = f] /\ ps' = [ps EXCEPT ![calls] = l]
  BY <1>1, <1>2
<1> HIDE DEF f, l
<1>6. file'[Dir] = f /\ file' \in [Calls -> FileType] /\ \A e \in Calls : e # Dir => file'[e] = file[e]
  BY <1>2, <1>3, <1>5
<1>7. ps'[calls] = l /\ ps' \in [Calls -> LauncherType] /\ \A d \in Calls : d # calls => ps'[d] = ps[d]
  BY <1>2, <1>4, <1>5
<1> QED BY <1>1, <1>3, <1>4, <1>6, <1>7

\* The receipt of the independent validator.
LEMMA LinkHas ==
  ASSUME TypeOK, LaunchInv, LinkReceipt
  PROVE  /\ UNCHANGED <<machine, acad, ps, plan, calls, dir, outcome, output, start, orphan, seen, err>>
         /\ py = "link" /\ py' = "close" /\ file[Dir].final = NoReceipt
         /\ file' \in [Calls -> FileType] /\ \A e \in Calls : e # Dir => file'[e] = file[e]
         /\ file'[Dir].out = file[Dir].out /\ file'[Dir].job = file[Dir].job
         /\ file'[Dir].after = file[Dir].after /\ file'[Dir].final.call = calls
<1> DEFINE r == Receipt("validator", "ok", calls)
           f == [file[Dir] EXCEPT !.final = r]
<1>1. /\ py = "link" /\ py' = "close" /\ file[Dir].final = NoReceipt
      /\ UNCHANGED <<machine, acad, ps, plan, calls, dir, outcome, output, start, orphan, seen, err>>
      /\ file' = [file EXCEPT ![Dir].final = r]
  BY DEF LinkReceipt, Python
<1>2. calls \in Calls /\ Dir \in Calls /\ file \in [Calls -> FileType] /\ file[Dir] \in FileType
  BY <1>1, Current DEF TypeOK
<1>3. /\ r \in [by : {"nobody", "launcher", "validator"},
                 status : {"none", "ok", "error", "timeout", "blocked"}, call : 0 .. MaxCalls]
      /\ r.call = calls
  BY <1>2, AttendedAssumption DEF Receipt, Calls
<1> HIDE DEF r
<1>4. /\ f \in FileType /\ f.out = file[Dir].out /\ f.job = file[Dir].job
      /\ f.after = file[Dir].after /\ f.final = r
  BY <1>2, <1>3 DEF FileType
<1>5. file' = [file EXCEPT ![Dir] = f]
  BY <1>1, <1>2
<1> HIDE DEF f
<1>6. file'[Dir] = f /\ file' \in [Calls -> FileType] /\ \A e \in Calls : e # Dir => file'[e] = file[e]
  BY <1>2, <1>4, <1>5
<1> QED BY <1>1, <1>3, <1>4, <1>6

LEMMA CallHas ==
  ASSUME TypeOK, Call
  PROVE  /\ UNCHANGED <<machine, file, acad, ps, plan>>
         /\ py \in {"idle", "ended"} /\ py' = "begin" /\ outcome' = "none"
         /\ calls' = calls + 1 /\ calls \in Nat /\ calls' \in Calls /\ calls' \in 0 .. Len(plan)
         /\ dir' \in [Calls -> Calls] /\ \A c \in Calls : c # calls' => dir'[c] = dir[c]
         /\ seen' = FALSE /\ err' = FALSE /\ output' = "none" /\ start' = profile
         /\ orphan' \in BOOLEAN
         /\ ~orphan' => \A c \in Calls : ~Alive(c) /\ ps[c].pc \in {"none", "dead"}
<1>1. /\ calls \in 0 .. Len(plan) /\ dir \in [Calls -> Calls] /\ plan \in Seq(Jobs)
      /\ Len(plan) \in Nat /\ Len(plan) <= MaxCalls /\ MaxCalls \in Nat
  BY AttendedAssumption, LenProperties DEF TypeOK
<1>2. /\ UNCHANGED <<machine, file, acad, ps, plan>> /\ calls < Len(plan) /\ calls' = calls + 1
      /\ py \in {"idle", "ended"} /\ py' = "begin" /\ outcome' = "none"
      /\ seen' = FALSE /\ err' = FALSE /\ output' = "none" /\ start' = profile
      /\ orphan' = \E c \in Calls : Alive(c) \/ ps[c].pc \notin {"none", "dead"}
  BY DEF Call
<1>3. calls + 1 \in Calls /\ calls + 1 \in 0 .. Len(plan) /\ calls \in Nat
  BY <1>1, <1>2 DEF Calls
<1>4. PICK d \in {calls + 1} \cup {dir[c] : c \in 1 .. calls} : dir' = [dir EXCEPT ![calls + 1] = d]
  BY DEF Call
<1>5. d \in Calls
  <2>1. 1 .. calls \subseteq Calls
    BY <1>1, <1>3 DEF Calls
  <2> QED BY <1>1, <1>3, <1>4, <2>1
<1>6. dir' \in [Calls -> Calls] /\ \A c \in Calls : c # calls + 1 => dir'[c] = dir[c]
  BY <1>1, <1>3, <1>4, <1>5
<1> QED BY <1>1, <1>2, <1>3, <1>6

\* A session of the user begins or ends.
UserStep(p) == UserOpens(p) \/ UserCloses(p)

LEMMA UserHas ==
  ASSUME TypeOK, NEW p \in Pids, UserStep(p)
  PROVE  /\ UNCHANGED <<profile, file, acad, ps, python>>
         /\ table' \in [Pids -> 0 .. births'] /\ births' \in 0 .. MaxBirths
         /\ \A q \in Pids : q # p => table'[q] = table[q]
         /\ \/ /\ Free(p) /\ births' = births + 1 /\ users' = users \cup {births + 1}
               /\ table'[p] = births + 1
            \/ /\ table[p] \in users /\ UNCHANGED <<births, users>> /\ table'[p] = 0
<1>1. table \in [Pids -> 0 .. births] /\ births \in Nat /\ births <= MaxBirths /\ MaxBirths \in Nat
  BY AttendedAssumption DEF TypeOK
<1>2. CASE UserOpens(p)
  <2>1. births + 1 \in 0 .. births + 1 /\ 0 .. births \subseteq 0 .. births + 1
    BY <1>1
  <2>2. /\ births' = births + 1 /\ births < MaxBirths /\ table' = [table EXCEPT ![p] = births + 1]
        /\ UNCHANGED <<profile, file, acad, ps, python>> /\ Free(p)
        /\ users' = users \cup {births + 1}
    BY <1>2 DEF UserOpens
  <2>3. table' \in [Pids -> 0 .. births + 1] /\ table'[p] = births + 1
        /\ \A q \in Pids : q # p => table'[q] = table[q]
    BY <1>1, <2>1, <2>2
  <2>4. births' \in 0 .. MaxBirths
    BY <1>1, <2>2
  <2> QED BY <2>2, <2>3, <2>4
<1>3. CASE UserCloses(p)
  <2>1. 0 \in 0 .. births /\ births \in 0 .. MaxBirths
    BY <1>1
  <2>2. /\ table[p] \in users /\ table' = [table EXCEPT ![p] = 0]
        /\ UNCHANGED <<births, users, profile, file, acad, ps, python>>
    BY <1>3 DEF UserCloses
  <2>3. table' \in [Pids -> 0 .. births] /\ table'[p] = 0 /\ \A q \in Pids : q # p => table'[q] = table[q]
    BY <1>1, <2>1, <2>2
  <2> QED BY <2>1, <2>2, <2>3
<1> QED BY <1>2, <1>3 DEF UserStep

LEMMA Steps ==
  ASSUME Next
  PROVE  \/ \E c \in Calls : \/ ScriptStep(c) \/ EndStep(c) \/ LookStep(c) \/ LaunchAcad(c)
                            \/ JobDone(c) \/ Publish(c)
         \/ WaitStep \/ Launch \/ LinkReceipt \/ Call
         \/ \E p \in Pids : UserStep(p)
BY DEF Next, PyStep, LauncherStep, AcadStep, ScriptStep, EndStep, LookStep, WaitStep, UserStep

-----------------------------------------------------------------------------
(* Types.                                                                  *)

WorldType ==
  /\ table \in [Pids -> 0 .. births] /\ births \in 0 .. MaxBirths
  /\ users \subseteq 1 .. births /\ profile \in {"user", "weak"}
  /\ file \in [Calls -> FileType] /\ acad \in [Calls -> AcadType]
  /\ ps \in [Calls -> LauncherType]

PyType ==
  /\ plan \in Plans
  /\ py \in {"idle", "begin", "poll", "confirm", "link", "close", "judge", "inspect", "ended"}
  /\ calls \in 0 .. Len(plan) /\ dir \in [Calls -> Calls]
  /\ seen \in BOOLEAN /\ err \in BOOLEAN
  /\ outcome \in {"none", "ok", "error"} /\ output \in {"none", "saved", "unsaved"}
  /\ start \in {"user", "weak"} /\ orphan \in BOOLEAN

Named == \A c \in Calls : Alive(c) =>
           acad[c].pid \in Pids /\ table[acad[c].pid] = acad[c].birth

LEMMA TypeParts == TypeOK <=> WorldType /\ PyType /\ Named
BY DEF TypeOK, WorldType, PyType, Named

LEMMA PyTypeStays == ASSUME PyType, UNCHANGED python PROVE PyType'
<1>1. /\ plan' = plan /\ py' = py /\ calls' = calls /\ dir' = dir /\ outcome' = outcome
      /\ output' = output /\ start' = start
  BY DEF python
<1>2. seen' = seen /\ err' = err /\ orphan' = orphan
  BY DEF python
<1>3. seen' \in BOOLEAN /\ err' \in BOOLEAN /\ orphan' \in BOOLEAN
  BY <1>2 DEF PyType
<1> QED BY <1>1, <1>3 DEF PyType

LEMMA TypeNext == ASSUME IInv, Next PROVE TypeOK'
<1>1. TypeOK /\ BirthInv /\ LaunchInv /\ ClosedInv /\ WorldType /\ PyType /\ Named
  BY TypeParts DEF IInv
<1>2. ASSUME NEW c \in Calls, ScriptStep(c) PROVE TypeOK'
  <2>1. WorldType' /\ UNCHANGED python
    BY <1>1, <1>2, ScriptHas DEF WorldType
  <2>2. Named'
    BY <1>1, <1>2, ScriptHas DEF Named, Alive
  <2> QED BY <1>1, <2>1, <2>2, PyTypeStays DEF TypeOK, WorldType, PyType, Named
<1>3. ASSUME NEW c \in Calls, EndStep(c) PROVE TypeOK'
  <2>1. WorldType' /\ UNCHANGED python
    BY <1>1, <1>3, EndHas, EndLauncher DEF WorldType
  <2>2. Named'
    BY <1>1, <1>3, EndHas DEF Named, Alive
  <2> QED BY <1>1, <2>1, <2>2, PyTypeStays DEF TypeOK, WorldType, PyType, Named
<1>4. ASSUME NEW c \in Calls, LookStep(c) PROVE TypeOK'
  <2>1. WorldType' /\ UNCHANGED python
    BY <1>1, <1>4, LookHas DEF WorldType, machine
  <2>2. Named'
    BY <1>1, <1>4, LookHas DEF Named, Alive, machine
  <2> QED BY <1>1, <2>1, <2>2, PyTypeStays DEF TypeOK, WorldType, PyType, Named
<1>5. ASSUME NEW c \in Calls, LaunchAcad(c) PROVE TypeOK'
  <2>0. births \in Nat /\ users \subseteq 1 .. births /\ MaxBirths \in Nat
    BY <1>1, AttendedAssumption DEF WorldType
  <2>4. /\ births' = births + 1 /\ births' \in 1 .. MaxBirths /\ UNCHANGED <<users, profile, file, python>>
        /\ table' \in [Pids -> 0 .. births'] /\ acad' \in [Calls -> AcadType]
        /\ ps' \in [Calls -> LauncherType]
    BY <1>1, <1>5, LaunchHas
  <2>5. users' \subseteq 1 .. births' /\ births' \in 0 .. MaxBirths
    BY <2>0, <2>4
  <2>1. WorldType' /\ UNCHANGED python
    BY <1>1, <2>4, <2>5 DEF WorldType
  <2>2. ASSUME NEW d \in Calls, Alive(d)' PROVE acad'[d].pid \in Pids /\ table'[acad'[d].pid] = acad'[d].birth
    <3>1. CASE d = c
      BY <1>1, <1>5, <3>1, LaunchHas
    <3>2. CASE d # c
      <4>1. acad'[d] = acad[d] /\ Alive(d)
        BY <1>1, <1>5, <2>2, <3>2, LaunchHas DEF Alive
      <4>2. acad[d].pid \in Pids /\ table[acad[d].pid] = acad[d].birth /\ acad[d].birth # 0
        BY <1>1, <2>0, <4>1 DEF Named, Alive, BirthInv
      <4>3. acad'[c].pid \in Pids /\ table[acad'[c].pid] = 0
        BY <1>1, <1>5, LaunchHas DEF Free
      <4> QED BY <1>1, <1>5, <4>1, <4>2, <4>3, LaunchHas
    <3> QED BY <3>1, <3>2
  <2>3. Named'
    BY <2>2 DEF Named
  <2> QED BY <1>1, <2>1, <2>3, PyTypeStays DEF TypeOK, WorldType, PyType, Named
<1>6. ASSUME NEW c \in Calls, JobDone(c) \/ Publish(c) PROVE TypeOK'
  <2>3. /\ UNCHANGED <<machine, acad, python>> /\ ps' \in [Calls -> LauncherType]
        /\ file' \in [Calls -> FileType]
    BY <1>1, <1>6, WriteHas
  <2>1. WorldType' /\ UNCHANGED python
    BY <1>1, <2>3 DEF WorldType, machine
  <2>2. Named'
    BY <1>1, <1>6, WriteHas DEF Named, Alive, machine
  <2> QED BY <1>1, <2>1, <2>2, PyTypeStays DEF TypeOK, WorldType, PyType, Named
<1>7. CASE WaitStep
  <2>1. WorldType'
    BY <1>1, <1>7, WaitHas, WaitLauncher DEF WorldType, machine
  <2>2. Named'
    BY <1>1, <1>7, WaitHas DEF Named, Alive, machine
  <2>3. /\ UNCHANGED <<plan, calls, dir, start>> /\ py' \in Busy \cup {"ended"}
        /\ outcome' \in {"none", "ok", "error"} /\ output' \in {"none", "saved", "unsaved"}
    BY <1>1, <1>7, WaitHas
  <2>4. seen' \in BOOLEAN /\ err' \in BOOLEAN /\ orphan' = orphan
    BY <1>1, <1>7, WaitHas
  <2>5. orphan' \in BOOLEAN
    BY <1>1, <2>4 DEF PyType
  <2>6. PyType'
    BY <1>1, <2>3, <2>4, <2>5 DEF PyType, Busy
  <2> QED BY <2>1, <2>2, <2>6 DEF TypeOK, WorldType, PyType, Named
<1>8. CASE Launch
  <2>1. WorldType'
    BY <1>1, <1>8, StartHas DEF WorldType, machine
  <2>2. Named'
    BY <1>1, <1>8, StartHas DEF Named, Alive, machine
  <2>3. UNCHANGED <<plan, calls, dir, start, outcome, output>> /\ py' = "poll"
    BY <1>1, <1>8, StartHas
  <2>4. seen' = seen /\ err' = FALSE /\ orphan' = orphan
    BY <1>1, <1>8, StartHas
  <2>5. seen' \in BOOLEAN /\ err' \in BOOLEAN /\ orphan' \in BOOLEAN
    BY <1>1, <2>4 DEF PyType
  <2>6. PyType'
    BY <1>1, <2>3, <2>5 DEF PyType
  <2> QED BY <2>1, <2>2, <2>6 DEF TypeOK, WorldType, PyType, Named
<1>9. CASE LinkReceipt
  <2>1. WorldType'
    BY <1>1, <1>9, LinkHas DEF WorldType, machine
  <2>2. Named'
    BY <1>1, <1>9, LinkHas DEF Named, Alive, machine
  <2>3. UNCHANGED <<plan, calls, dir, start, outcome, output>> /\ py' = "close"
    BY <1>1, <1>9, LinkHas
  <2>4. seen' = seen /\ err' = err /\ orphan' = orphan
    BY <1>1, <1>9, LinkHas
  <2>5. seen' \in BOOLEAN /\ err' \in BOOLEAN /\ orphan' \in BOOLEAN
    BY <1>1, <2>4 DEF PyType
  <2>6. PyType'
    BY <1>1, <2>3, <2>5 DEF PyType
  <2> QED BY <2>1, <2>2, <2>6 DEF TypeOK, WorldType, PyType, Named
<1>10. CASE Call
  <2>1. WorldType'
    BY <1>1, <1>10, CallHas DEF WorldType, machine
  <2>2. Named'
    BY <1>1, <1>10, CallHas DEF Named, Alive, machine
  <2>3. /\ plan' = plan /\ py' = "begin" /\ calls' \in 0 .. Len(plan) /\ dir' \in [Calls -> Calls]
        /\ outcome' = "none" /\ output' = "none" /\ start' = profile
    BY <1>1, <1>10, CallHas
  <2>4. seen' = FALSE /\ err' = FALSE /\ orphan' \in BOOLEAN
    BY <1>1, <1>10, CallHas
  <2>5. seen' \in BOOLEAN /\ err' \in BOOLEAN
    BY <2>4
  <2>6. PyType'
    BY <1>1, <2>3, <2>4, <2>5 DEF PyType, WorldType
  <2> QED BY <2>1, <2>2, <2>6 DEF TypeOK, WorldType, PyType, Named
<1>11. ASSUME NEW p \in Pids, UserStep(p) PROVE TypeOK'
  <2>0. births \in Nat /\ users \subseteq 1 .. births
    BY <1>1, AttendedAssumption DEF WorldType
  <2>1. /\ table' \in [Pids -> 0 .. births'] /\ births' \in 0 .. MaxBirths
        /\ UNCHANGED <<profile, file, acad, ps, python>>
        /\ \/ births' = births + 1 /\ users' = users \cup {births + 1}
           \/ UNCHANGED <<births, users>>
    BY <1>1, <1>11, UserHas
  <2>5. users' \subseteq 1 .. births'
    <3>1. CASE births' = births + 1 /\ users' = users \cup {births + 1}
      BY <2>0, <3>1
    <3>2. CASE births' = births /\ users' = users
      BY <2>0, <3>2
    <3> QED BY <2>1, <3>1, <3>2
  <2>2. WorldType'
    BY <1>1, <2>1, <2>5 DEF WorldType
  <2>3. ASSUME NEW c \in Calls, Alive(c)' PROVE acad'[c].pid \in Pids /\ table'[acad'[c].pid] = acad'[c].birth
    <3>1. acad'[c] = acad[c] /\ Alive(c)
      BY <2>1, <2>3 DEF Alive
    <3>2. acad[c].pid \in Pids /\ table[acad[c].pid] = acad[c].birth /\ acad[c].birth # 0 /\ acad[c].birth \notin users
      BY <1>1, <2>0, <3>1 DEF Named, Alive, BirthInv
    <3>3. acad[c].pid # p
      BY <1>1, <1>11, <3>2, UserHas DEF Free
    <3> QED BY <1>1, <1>11, <3>1, <3>2, <3>3, UserHas
  <2>4. Named'
    BY <2>3 DEF Named
  <2> QED BY <1>1, <2>1, <2>2, <2>4, PyTypeStays DEF TypeOK, WorldType, PyType, Named
<1> QED BY <1>2, <1>3, <1>4, <1>5, <1>6, <1>7, <1>8, <1>9, <1>10, <1>11, Steps

-----------------------------------------------------------------------------
(* Births and PIDs.                                                        *)

LEMMA BirthNext == ASSUME IInv, Next PROVE BirthInv'
<1>1. /\ TypeOK /\ BirthInv /\ LaunchInv /\ ClosedInv /\ births \in Nat /\ users \subseteq 1 .. births
      /\ acad \in [Calls -> AcadType]
  BY AttendedAssumption DEF IInv, TypeOK
<1>2. ASSUME NEW c \in Calls, ScriptStep(c) PROVE BirthInv'
  <2>1. /\ UNCHANGED <<births, users>> /\ acad[c].st # "none"
        /\ \A d \in Calls : /\ acad'[d].st # "none" => acad[d].st # "none"
                           /\ acad'[d].pid = acad[d].pid /\ acad'[d].birth = acad[d].birth
                           /\ acad'[d].mem = acad[d].mem
    BY <1>1, <1>2, ScriptHas DEF Alive
  <2> QED BY <1>1, <2>1 DEF BirthInv
<1>3. ASSUME NEW c \in Calls, EndStep(c) PROVE BirthInv'
  <2>1. UNCHANGED <<births, users>>
    BY <1>1, <1>3, EndHas
  <2>2. ASSUME NEW d \in Calls
        PROVE  /\ acad'[d].st # "none" => acad[d].st # "none"
               /\ acad'[d].pid = acad[d].pid /\ acad'[d].birth = acad[d].birth
               /\ acad'[d].mem = acad[d].mem
    <3>1. acad'[d] = acad[d] \/ (Alive(d) /\ acad'[d] = [acad[d] EXCEPT !.st = "gone"])
      BY <1>1, <1>3, EndHas
    <3>2. acad[d] \in AcadType
      BY <1>1
    <3> QED BY <3>1, <3>2 DEF AcadType, Alive
  <2> QED BY <1>1, <2>1, <2>2 DEF BirthInv
<1>4. ASSUME NEW c \in Calls, LaunchAcad(c) PROVE BirthInv'
  <2>1. /\ births' = births + 1 /\ users' = users /\ acad'[c].pid \in Pids
        /\ acad'[c].birth = births + 1 /\ acad'[c].mem = profile
        /\ \A d \in Calls : d # c => acad'[d] = acad[d]
    BY <1>1, <1>4, LaunchHas
  <2>2. births + 1 \in 1 .. births' /\ births + 1 \notin users /\ profile # "none"
    BY <1>1, <2>1 DEF TypeOK
  <2>3. 1 .. births \subseteq 1 .. births' /\ births + 1 \notin 1 .. births
    BY <1>1, <2>1
  <2> QED BY <1>1, <2>1, <2>2, <2>3 DEF BirthInv
<1>5. ASSUME NEW p \in Pids, UserStep(p) PROVE BirthInv'
  <2>1. /\ acad' = acad
        /\ \/ births' = births + 1 /\ users' = users \cup {births + 1}
           \/ UNCHANGED <<births, users>>
    BY <1>1, <1>5, UserHas
  <2>2. \A b \in 1 .. births : b \notin users => b \in 1 .. births' /\ b \notin users'
    BY <1>1, <2>1
  <2> QED BY <1>1, <2>1, <2>2 DEF BirthInv
<1>6. ASSUME UNCHANGED <<births, users, acad>> PROVE BirthInv'
  BY <1>1, <1>6 DEF BirthInv
<1>7. ASSUME NEW c \in Calls, LookStep(c) \/ JobDone(c) \/ Publish(c) PROVE BirthInv'
  <2>1. UNCHANGED <<machine, acad>>
    BY <1>1, <1>7, LookHas, WriteHas
  <2> QED BY <1>6, <2>1 DEF machine
<1>8. CASE WaitStep \/ Launch \/ LinkReceipt \/ Call
  <2>1. UNCHANGED <<machine, acad>>
    BY <1>1, <1>8, WaitHas, StartHas, LinkHas, CallHas
  <2> QED BY <1>6, <2>1 DEF machine
<1> QED BY <1>2, <1>3, <1>4, <1>5, <1>7, <1>8, Steps

LEMMA HandleNext == ASSUME IInv, Next PROVE HandleInv'
<1>1. /\ TypeOK /\ BirthInv /\ LaunchInv /\ ClosedInv /\ HandleInv /\ acad \in [Calls -> AcadType]
  BY DEF IInv, TypeOK
<1>2. ASSUME NEW d \in Calls, HandleHeld(d)', acad'[d].pid = acad[d].pid, acad'[d].birth = acad[d].birth,
             HandleHeld(d), table'[acad[d].pid] \in {0, table[acad[d].pid]}
      PROVE  table'[acad'[d].pid] \in {0, acad'[d].birth}
  BY <1>1, <1>2 DEF HandleInv
<1>3. ASSUME NEW c \in Calls, ScriptStep(c) PROVE HandleInv'
  <2>1. /\ UNCHANGED <<table, ps>> /\ acad[c].st # "none"
        /\ \A d \in Calls : /\ acad'[d].st # "none" => acad[d].st # "none"
                           /\ acad'[d].pid = acad[d].pid /\ acad'[d].birth = acad[d].birth
    BY <1>1, <1>3, ScriptHas DEF Alive
  <2> QED BY <1>2, <2>1 DEF HandleInv, HandleHeld
<1>4. ASSUME NEW c \in Calls, EndStep(c) PROVE HandleInv'
  <2>1. ASSUME NEW d \in Calls, HandleHeld(d)' PROVE table'[acad'[d].pid] \in {0, acad'[d].birth}
    <3>1. acad'[d] = acad[d] \/ (Alive(d) /\ acad'[d] = [acad[d] EXCEPT !.st = "gone"])
      BY <1>1, <1>4, EndHas
    <3>2. acad[d] \in AcadType
      BY <1>1
    <3>3. acad'[d].pid = acad[d].pid /\ acad'[d].birth = acad[d].birth /\ acad[d].st # "none"
      BY <2>1, <3>1, <3>2 DEF AcadType, Alive, HandleHeld
    <3>4. ps[d].pc \notin {"none", "dead"}
      BY <1>1, <1>4, <2>1, EndLauncher DEF HandleHeld
    <3>5. acad[d].pid \in Pids
      BY <1>1, <3>3 DEF BirthInv
    <3>6. table'[acad[d].pid] \in {0, table[acad[d].pid]}
      BY <1>1, <1>4, <3>5, EndHas
    <3> QED BY <1>2, <2>1, <3>3, <3>4, <3>6 DEF HandleHeld
  <2> QED BY <2>1 DEF HandleInv
<1>5. ASSUME NEW c \in Calls, LaunchAcad(c) PROVE HandleInv'
  <2>1. ASSUME NEW d \in Calls, HandleHeld(d)' PROVE table'[acad'[d].pid] \in {0, acad'[d].birth}
    <3>1. CASE d = c
      BY <1>1, <1>5, <3>1, LaunchHas
    <3>2. CASE d # c
      <4>1. acad'[d] = acad[d] /\ ps'[d] = ps[d] /\ HandleHeld(d)
        BY <1>1, <1>5, <2>1, <3>2, LaunchHas DEF HandleHeld
      <4>2. acad[d].pid \in Pids
        BY <1>1, <4>1 DEF BirthInv, HandleHeld
      <4>3. acad[d].pid # acad'[c].pid
        BY <1>1, <1>5, <4>1, LaunchHas DEF Free
      <4>4. table'[acad[d].pid] = table[acad[d].pid]
        BY <1>1, <1>5, <4>2, <4>3, LaunchHas
      <4> QED BY <1>2, <2>1, <4>1, <4>4
    <3> QED BY <3>1, <3>2
  <2> QED BY <2>1 DEF HandleInv
<1>6. ASSUME NEW p \in Pids, UserStep(p) PROVE HandleInv'
  <2>1. ASSUME NEW d \in Calls, HandleHeld(d)' PROVE table'[acad'[d].pid] \in {0, acad'[d].birth}
    <3>1. UNCHANGED <<acad, ps>>
      BY <1>1, <1>6, UserHas
    <3>2. HandleHeld(d)
      BY <2>1, <3>1 DEF HandleHeld
    <3>3. acad[d].pid \in Pids
      BY <1>1, <3>2 DEF BirthInv, HandleHeld
    <3>4. table'[acad[d].pid] \in {0, table[acad[d].pid]}
      BY <1>1, <1>6, <3>2, <3>3, UserHas DEF Free
    <3> QED BY <1>2, <2>1, <3>1, <3>2, <3>4
  <2> QED BY <2>1 DEF HandleInv
<1>7. ASSUME UNCHANGED <<table, acad>>,
             \A d \in Calls : ps'[d].pc \notin {"none", "dead"} =>
               ps[d].pc \notin {"none", "dead"} \/ acad[d].st = "none"
      PROVE HandleInv'
  BY <1>2, <1>7 DEF HandleInv, HandleHeld
<1>8. ASSUME NEW c \in Calls, LookStep(c) \/ JobDone(c) \/ Publish(c) PROVE HandleInv'
  <2>1. CASE LookStep(c)
    <3>1. UNCHANGED <<machine, acad>> /\ ps[c].pc \notin {"none", "dead"} /\ \A d \in Calls : d # c => ps'[d] = ps[d]
      BY <1>1, <2>1, LookHas
    <3> QED BY <1>7, <3>1 DEF machine
  <2>2. CASE JobDone(c) \/ Publish(c)
    <3>1. UNCHANGED <<machine, acad>> /\ ps[c].pc \in {"poll", "publish"} /\ \A d \in Calls : d # c => ps'[d] = ps[d]
      BY <1>1, <2>2, WriteHas
    <3> QED BY <1>7, <3>1 DEF machine
  <2> QED BY <1>8, <2>1, <2>2
<1>9. CASE WaitStep
  <2>1. UNCHANGED <<machine, acad>> /\ \A d \in Calls : ps'[d].pc = ps[d].pc \/ ps'[d].pc = "dead"
    BY <1>1, <1>9, WaitHas, WaitLauncher
  <2> QED BY <1>7, <2>1 DEF machine
<1>10. CASE Launch
  <2>1. UNCHANGED <<machine, acad>> /\ \A d \in Calls : d # calls => ps'[d] = ps[d]
    BY <1>1, <1>10, StartHas
  <2>2. calls \in Calls => acad[calls].st = "none"
    BY <1>1, <1>10, StartHas DEF LaunchInv
  <2> QED BY <1>7, <2>1, <2>2 DEF machine
<1>11. CASE LinkReceipt \/ Call
  <2>1. UNCHANGED <<machine, acad, ps>>
    BY <1>1, <1>11, LinkHas, CallHas
  <2> QED BY <1>7, <2>1 DEF machine
<1> QED BY <1>3, <1>4, <1>5, <1>6, <1>8, <1>9, <1>10, <1>11, Steps

-----------------------------------------------------------------------------
(* Launchers and run directories.                                          *)

\* The PIDs and births of what was started, and no launcher begins or is forgotten.
Kept ==
  /\ \A d \in Calls : (acad'[d].st = "none" <=> acad[d].st = "none")
  /\ \A d \in Calls : (ps'[d].pc = "none" <=> ps[d].pc = "none")

LEMMA EndKeeps ==
  ASSUME IInv, NEW c \in Calls, EndStep(c)
  PROVE  Kept /\ \A d \in Calls : acad[d].st = "gone" => acad'[d].st = "gone"
<1>1. TypeOK /\ BirthInv /\ LaunchInv /\ acad \in [Calls -> AcadType]
  BY DEF IInv, TypeOK
<1>2. ASSUME NEW d \in Calls
      PROVE  (acad'[d].st = "none" <=> acad[d].st = "none") /\ (acad[d].st = "gone" => acad'[d].st = "gone")
  <2>1. acad'[d] = acad[d] \/ (Alive(d) /\ acad'[d] = [acad[d] EXCEPT !.st = "gone"])
    BY <1>1, EndHas
  <2>2. acad[d] \in AcadType
    BY <1>1
  <2> QED BY <2>1, <2>2 DEF AcadType, Alive
<1>3. \A d \in Calls : ps'[d].pc = "none" <=> ps[d].pc = "none"
  BY <1>1, EndLauncher
<1> QED BY <1>2, <1>3 DEF Kept

\* The part of LaunchInv that is about Python.
CurrentInv ==
  /\ py # "idle" => calls # 0
  /\ \A c \in Calls : c > calls => ps[c].pc = "none"
  /\ py = "begin" => ps[calls].pc = "none"
  /\ py \in Busy => ps[calls].pc # "none"

Reached(c) ==
  /\ ps[c].pc \in {"none", "gate", "launch"} => acad[c].st = "none"
  /\ ps[c].pc \in {"poll", "grace", "stop", "recheck", "taskkill"} \/ ps[c].done
       => acad[c].st # "none"

LEMMA LaunchParts == LaunchInv <=> CurrentInv /\ \A c \in Calls : Reached(c)
BY DEF LaunchInv, CurrentInv, Reached, Busy

LEMMA CurrentStays ==
  ASSUME IInv, UNCHANGED python, \A d \in Calls : ps'[d].pc = "none" <=> ps[d].pc = "none"
  PROVE  CurrentInv'
<1>1. CurrentInv /\ TypeOK /\ LaunchInv
  BY LaunchParts DEF IInv
<1>2. py' = py /\ calls' = calls
  BY DEF python
<1>3. py # "idle" => calls \in Calls
  BY <1>1, Current
<1> QED BY <1>1, <1>2, <1>3 DEF CurrentInv, Busy

LEMMA LaunchNext == ASSUME IInv, Next PROVE LaunchInv'
<1>1. /\ TypeOK /\ BirthInv /\ LaunchInv /\ ClosedInv /\ CurrentInv
      /\ \A c \in Calls : Reached(c)
  BY LaunchParts DEF IInv
<1>2. ASSUME NEW c \in Calls, ScriptStep(c) PROVE LaunchInv'
  <2>1. /\ UNCHANGED <<ps, python>> /\ \A d \in Calls : acad'[d].st = "none" <=> acad[d].st = "none"
    BY <1>1, <1>2, ScriptHas DEF Alive
  <2>2. \A d \in Calls : Reached(d)'
    BY <1>1, <2>1 DEF Reached
  <2> QED BY <2>1, <2>2, CurrentStays, LaunchParts DEF LaunchInv, CurrentInv, Reached, Busy
<1>3. ASSUME NEW c \in Calls, EndStep(c) PROVE LaunchInv'
  <2>1. Kept /\ UNCHANGED python
    BY <1>1, <1>3, EndKeeps, EndHas
  <2>2. ASSUME NEW d \in Calls PROVE Reached(d)'
    <3>1. \/ ps'[d] = ps[d]
          \/ /\ ps[d].pc \in {"stop", "taskkill"} /\ ps'[d].pc \in {"recheck", "collect"}
             /\ ps'[d].done = ps[d].done
      BY <1>1, <1>3, EndLauncher
    <3>2. ps'[d].done <=> ps[d].done
      BY <3>1
    <3>3. acad'[d].st = "none" <=> acad[d].st = "none"
      BY <2>1 DEF Kept
    <3> QED BY <1>1, <3>1, <3>2, <3>3 DEF Reached
  <2>3. \A d \in Calls : ps'[d].pc = "none" <=> ps[d].pc = "none"
    BY <2>1 DEF Kept
  <2> QED BY <2>1, <2>2, <2>3, CurrentStays DEF LaunchInv, CurrentInv, Reached, Busy
<1>4. ASSUME NEW c \in Calls, LookStep(c) PROVE LaunchInv'
  <2>1. /\ UNCHANGED <<acad, python>> /\ \A d \in Calls : ps'[d].pc = "none" <=> ps[d].pc = "none"
    BY <1>1, <1>4, LookHas
  <2>2. Reached(c)'
    BY <1>1, <1>4, <2>1, LookHas DEF Reached
  <2>3. \A d \in Calls : Reached(d)'
    BY <1>1, <1>4, <2>1, <2>2, LookHas DEF Reached
  <2> QED BY <2>1, <2>3, CurrentStays DEF LaunchInv, CurrentInv, Reached, Busy
<1>5. ASSUME NEW c \in Calls, LaunchAcad(c) PROVE LaunchInv'
  <2>1. /\ UNCHANGED python /\ \A d \in Calls : d # c => ps'[d] = ps[d] /\ acad'[d] = acad[d]
        /\ ps[c].pc = "launch" /\ ps'[c].pc \in {"collect", "poll"} /\ acad'[c].st = "opened"
    BY <1>1, <1>5, LaunchHas
  <2>2. \A d \in Calls : Reached(d)'
    BY <1>1, <2>1 DEF Reached
  <2> QED BY <2>1, <2>2, CurrentStays DEF LaunchInv, CurrentInv, Reached, Busy
<1>6. ASSUME NEW c \in Calls, JobDone(c) \/ Publish(c) PROVE LaunchInv'
  <2>1. /\ UNCHANGED <<acad, python>> /\ \A d \in Calls : d # c => ps'[d] = ps[d]
        /\ \/ ps[c].pc = "poll" /\ ps'[c].pc = "grace"
           \/ ps[c].pc = "publish" /\ ps'[c].pc = "flush" /\ ps'[c].done = ps[c].done
    BY <1>1, <1>6, WriteHas
  <2>2. \A d \in Calls : Reached(d)'
    BY <1>1, <2>1 DEF Reached
  <2> QED BY <2>1, <2>2, CurrentStays DEF LaunchInv, CurrentInv, Reached, Busy
<1>7. CASE WaitStep
  <2>1. /\ UNCHANGED <<acad, calls>> /\ py' \in Busy \cup {"ended"}
        /\ py' \in Busy => py \in Busy
        /\ py \in Busy \cup {"begin"}
    BY <1>1, <1>7, WaitHas DEF machine
  <2>2. \A d \in Calls : /\ ps'[d].done = ps[d].done
                       /\ (ps'[d].pc = ps[d].pc \/ (ps[d].pc # "none" /\ ps'[d].pc = "dead"))
    BY <1>1, <1>7, WaitLauncher
  <2>3. ASSUME NEW d \in Calls PROVE Reached(d)'
    <3>1. ps'[d].done = ps[d].done
      BY <2>2
    <3> QED BY <1>1, <2>1, <2>2, <3>1 DEF Reached
  <2>4. calls \in Calls
    BY <1>1, <2>1, Current DEF Busy
  <2>5. CurrentInv'
    BY <1>1, <2>1, <2>2, <2>4 DEF CurrentInv, Busy
  <2> QED BY <2>3, <2>5 DEF LaunchInv, CurrentInv, Reached, Busy
<1>8. CASE Launch
  <2>1. /\ UNCHANGED <<acad, calls>> /\ py = "begin" /\ py' = "poll"
        /\ \A d \in Calls : d # calls => ps'[d] = ps[d]
        /\ ps'[calls].pc = "gate" /\ ps'[calls].done = ps[calls].done
    BY <1>1, <1>8, StartHas
  <2>2. calls \in Calls
    BY <1>1, <2>1, Current
  <2>3. \A d \in Calls : Reached(d)'
    BY <1>1, <2>1 DEF Reached, CurrentInv
  <2>4. ~(calls > calls)
    BY <1>1 DEF TypeOK
  <2>5. CurrentInv'
    BY <1>1, <2>1, <2>2, <2>4 DEF CurrentInv, Busy
  <2> QED BY <2>3, <2>5 DEF LaunchInv, CurrentInv, Reached, Busy
<1>9. CASE LinkReceipt
  <2>1. UNCHANGED <<acad, ps, calls>> /\ py = "link" /\ py' = "close"
    BY <1>1, <1>9, LinkHas
  <2> QED BY <1>1, <2>1 DEF LaunchInv
<1>10. CASE Call
  <2>1. /\ UNCHANGED <<acad, ps>> /\ calls' = calls + 1 /\ calls \in Nat /\ calls' \in Calls
        /\ py' = "begin"
    BY <1>1, <1>10, CallHas
  <2>2. ps[calls'].pc = "none"
    BY <1>1, <2>1 DEF CurrentInv
  <2>3. \A c \in Calls : c > calls' => ps[c].pc = "none"
    BY <1>1, <2>1 DEF CurrentInv, Calls
  <2> QED BY <1>1, <2>1, <2>2, <2>3 DEF LaunchInv
<1>11. ASSUME NEW p \in Pids, UserStep(p) PROVE LaunchInv'
  <2>1. UNCHANGED <<acad, ps, python>>
    BY <1>1, <1>11, UserHas
  <2> QED BY <1>1, <2>1 DEF LaunchInv, python
<1> QED BY <1>2, <1>3, <1>4, <1>5, <1>6, <1>7, <1>8, <1>9, <1>10, <1>11, Steps

LEMMA DirNext == ASSUME IInv, Next PROVE DirInv'
<1>1. /\ TypeOK /\ BirthInv /\ LaunchInv /\ ClosedInv /\ DirInv /\ dir \in [Calls -> Calls]
  BY DEF IInv, TypeOK
\* No launcher begins, and nobody writes job_out.json.
<1>2. ASSUME UNCHANGED <<dir>>, \A d \in Calls : ps'[d].pc = "none" <=> ps[d].pc = "none",
             \A d \in Calls : file[d].out => file'[d].out,
             \A d \in Calls : acad[d].st # "none" => acad'[d].st # "none",
             \A d \in Calls : ps[d].pc # "none" /\ file'[dir[d]].job => file[dir[d]].job \/ acad[d].st # "none"
      PROVE  DirInv'
  BY <1>1, <1>2 DEF DirInv
<1>3. ASSUME NEW c \in Calls, ScriptStep(c) PROVE DirInv'
  <2>1. /\ UNCHANGED ps /\ dir' = dir /\ acad[c].st # "none" /\ acad'[c].st # "none"
        /\ \A e \in Calls : e # dir[c] => file'[e] = file[e]
        /\ file'[dir[c]].out = file[dir[c]].out
        /\ \A d \in Calls : d # c => acad'[d] = acad[d]
    BY <1>1, <1>3, ScriptHas DEF python, Alive
  <2>2. ps[c].pc # "none"
    BY <1>1, <2>1 DEF LaunchInv
  <2>3. \A d \in Calls : ps[d].pc # "none" /\ file'[dir[d]].job => file[dir[d]].job \/ acad[d].st # "none"
    BY <1>1, <2>1, <2>2 DEF DirInv
  <2> QED BY <1>1, <1>2, <2>1, <2>3
<1>4. ASSUME NEW c \in Calls, EndStep(c) PROVE DirInv'
  <2>1. Kept /\ UNCHANGED <<file, python>>
    BY <1>1, <1>4, EndKeeps, EndHas
  <2>2. /\ \A d \in Calls : ps'[d].pc = "none" <=> ps[d].pc = "none"
        /\ \A d \in Calls : acad[d].st # "none" => acad'[d].st # "none"
    BY <2>1 DEF Kept
  <2> QED BY <1>2, <2>1, <2>2 DEF python
<1>5. ASSUME NEW c \in Calls, LookStep(c) PROVE DirInv'
  <2>1. /\ UNCHANGED <<acad, file, python>> /\ \A d \in Calls : ps'[d].pc = "none" <=> ps[d].pc = "none"
    BY <1>1, <1>5, LookHas
  <2> QED BY <1>2, <2>1 DEF python
<1>6. ASSUME NEW c \in Calls, LaunchAcad(c) PROVE DirInv'
  <2>1. /\ UNCHANGED <<file, python>> /\ \A d \in Calls : d # c => ps'[d] = ps[d] /\ acad'[d] = acad[d]
        /\ ps[c].pc = "launch" /\ ps'[c].pc \in {"collect", "poll"} /\ acad'[c].st = "opened"
    BY <1>1, <1>6, LaunchHas
  <2> QED BY <1>2, <2>1 DEF python
<1>7. ASSUME NEW c \in Calls, JobDone(c) \/ Publish(c) PROVE DirInv'
  <2>1. /\ UNCHANGED <<acad, python>> /\ \A d \in Calls : d # c => ps'[d] = ps[d]
        /\ ps[c].pc \in {"poll", "publish"} /\ ps'[c].pc \in {"grace", "flush"}
        /\ \A e \in Calls : e # dir[c] => file'[e] = file[e]
        /\ file'[dir[c]].out = file[dir[c]].out /\ file'[dir[c]].job = file[dir[c]].job
    BY <1>1, <1>7, WriteHas
  <2> QED BY <1>1, <1>2, <2>1 DEF python
<1>8. CASE WaitStep
  <2>1. UNCHANGED <<acad, file, dir>> /\ \A d \in Calls : ps'[d].pc = "none" <=> ps[d].pc = "none"
    BY <1>1, <1>8, WaitHas, WaitLauncher
  <2> QED BY <1>2, <2>1
<1>9. CASE Launch
  <2>1. /\ UNCHANGED <<acad, calls, dir>> /\ py = "begin" /\ file[Dir] = NoFiles
        /\ \A d \in Calls : d # calls => ps'[d] = ps[d]
        /\ \A e \in Calls : e # Dir => file'[e] = file[e]
        /\ file'[Dir].out = TRUE /\ file'[Dir].job = FALSE
    BY <1>1, <1>9, StartHas
  <2>2. calls \in Calls
    BY <1>1, <2>1, Current
  <2>3. file[Dir].out = FALSE
    BY <2>1 DEF NoFiles
  <2>4. \A d \in Calls : ps[d].pc # "none" => dir[d] # Dir
    BY <1>1, <2>3 DEF DirInv
  <2> QED BY <1>1, <2>1, <2>2, <2>4 DEF DirInv, Dir
<1>10. CASE LinkReceipt
  <2>1. /\ UNCHANGED <<acad, ps, dir>> /\ \A e \in Calls : e # Dir => file'[e] = file[e]
        /\ file'[Dir].out = file[Dir].out /\ file'[Dir].job = file[Dir].job
    BY <1>1, <1>10, LinkHas
  <2> QED BY <1>1, <1>2, <2>1
<1>11. CASE Call
  <2>1. /\ UNCHANGED <<acad, ps, file>> /\ \A c \in Calls : c # calls' => dir'[c] = dir[c]
        /\ calls' = calls + 1 /\ calls \in Nat /\ calls' \in Calls
    BY <1>1, <1>11, CallHas
  <2>2. ps[calls'].pc = "none"
    BY <1>1, <2>1 DEF LaunchInv
  <2> QED BY <1>1, <2>1, <2>2 DEF DirInv
<1>12. ASSUME NEW p \in Pids, UserStep(p) PROVE DirInv'
  <2>1. UNCHANGED <<acad, ps, file, python>>
    BY <1>1, <1>12, UserHas
  <2> QED BY <1>2, <2>1 DEF python
<1> QED BY <1>3, <1>4, <1>5, <1>6, <1>7, <1>8, <1>9, <1>10, <1>11, <1>12, Steps

-----------------------------------------------------------------------------
(* Final receipts.                                                         *)

LEMMA FinalNext == ASSUME IInv, Next PROVE FinalInv'
<1>1. /\ TypeOK /\ BirthInv /\ LaunchInv /\ ClosedInv /\ DirInv /\ FinalInv /\ dir \in [Calls -> Calls]
  BY DEF IInv, TypeOK
\* The receipts and what is asked of Python stay.
<1>2. ASSUME UNCHANGED python, \A d \in Calls : file'[d].final = file[d].final,
             \A d \in Calls : \/ ps'[d] = ps[d]
                             \/ /\ ps[d].pc \notin {"none", "dead"}
                                /\ ps[d].pc = "flush" => ps'[d].pc = "dead"
      PROVE  FinalInv'
  <2>1. py' = py /\ calls' = calls /\ dir' = dir
    BY <1>2 DEF python
  <2>2. py = "link" => ps'[calls].pc = "dead"
    BY <1>1, <1>2, Current DEF FinalInv
  <2>3. ASSUME NEW d \in Calls, ps'[d].pc \notin {"none", "flush", "dead"}
        PROVE  file'[dir[d]].final = NoReceipt
    <3>1. ps[d].pc \notin {"none", "flush", "dead"}
      BY <1>2, <2>3
    <3> QED BY <1>1, <1>2, <3>1 DEF FinalInv
  <2>4. ASSUME NEW d \in Calls, ps'[d].pc # "none"
        PROVE  file'[dir[d]].final = NoReceipt \/ file'[dir[d]].final.call = d
    <3>1. ps[d].pc # "none"
      BY <1>2, <2>4
    <3> QED BY <1>1, <1>2, <3>1 DEF FinalInv
  <2> QED BY <2>1, <2>2, <2>3, <2>4 DEF FinalInv
<1>3. ASSUME NEW c \in Calls, ScriptStep(c) PROVE FinalInv'
  <2>1. /\ UNCHANGED <<ps, python>> /\ \A d \in Calls : file'[d].final = file[d].final
    BY <1>1, <1>3, ScriptHas
  <2> QED BY <1>2, <2>1
<1>4. ASSUME NEW c \in Calls, EndStep(c) PROVE FinalInv'
  <2>1. /\ UNCHANGED <<python, file>> /\ \A d \in Calls : \/ ps'[d] = ps[d]
                                                       \/ ps[d].pc \in {"stop", "taskkill"}
    BY <1>1, <1>4, EndHas, EndLauncher
  <2> QED BY <1>2, <2>1
<1>5. ASSUME NEW c \in Calls, LookStep(c) PROVE FinalInv'
  <2>1. /\ UNCHANGED <<python, file>> /\ \A d \in Calls : d # c => ps'[d] = ps[d]
        /\ ps[c].pc \notin {"none", "dead"} /\ (ps[c].pc = "flush" => ps'[c].pc = "dead")
    BY <1>1, <1>5, LookHas
  <2> QED BY <1>2, <2>1
<1>6. ASSUME NEW c \in Calls, LaunchAcad(c) PROVE FinalInv'
  <2>1. /\ UNCHANGED <<python, file>> /\ \A d \in Calls : d # c => ps'[d] = ps[d]
        /\ ps[c].pc = "launch"
    BY <1>1, <1>6, LaunchHas
  <2> QED BY <1>2, <2>1
<1>7. ASSUME NEW c \in Calls, JobDone(c) \/ Publish(c) PROVE FinalInv'
  <2>1. /\ UNCHANGED python /\ \A d \in Calls : d # c => ps'[d] = ps[d]
        /\ \A e \in Calls : e # dir[c] => file'[e] = file[e]
        /\ \/ /\ ps[c].pc = "poll" /\ ps'[c].pc = "grace"
              /\ file'[dir[c]].final = file[dir[c]].final
           \/ /\ ps[c].pc = "publish" /\ ps'[c].pc = "flush" /\ file'[dir[c]].final.call = c
    BY <1>1, <1>7, WriteHas
  <2>2. CASE ps[c].pc = "poll" /\ file'[dir[c]].final = file[dir[c]].final
    BY <1>2, <2>1, <2>2
  <2>3. CASE ps[c].pc = "publish" /\ ps'[c].pc = "flush" /\ file'[dir[c]].final.call = c
    <3>1. py' = py /\ calls' = calls /\ dir' = dir
      BY <2>1 DEF python
    <3>2. \A d \in Calls : d # c /\ ps[d].pc # "none" => dir[d] # dir[c] /\ file'[dir[d]] = file[dir[d]]
      BY <1>1, <2>1, <2>3 DEF DirInv
    <3>3. py = "link" => ps'[calls].pc = "dead"
      BY <1>1, <2>1, <2>3, Current DEF FinalInv
    <3> QED BY <1>1, <2>1, <2>3, <3>1, <3>2, <3>3 DEF FinalInv
  <2> QED BY <2>1, <2>2, <2>3
<1>8. CASE WaitStep
  <2>1. UNCHANGED <<file, dir, calls>> /\ (py' = "link" => py = "confirm" /\ Shut)
    BY <1>1, <1>8, WaitHas
  <2>2. /\ \A d \in Calls : ps'[d].pc = ps[d].pc \/ (ps[d].pc # "none" /\ ps'[d].pc = "dead")
        /\ Shut => ps'[calls].pc = "dead"
    BY <1>1, <1>8, WaitLauncher
  <2> QED BY <1>1, <2>1, <2>2 DEF FinalInv
<1>9. CASE Launch
  <2>1. /\ UNCHANGED <<calls, dir>> /\ py = "begin" /\ py' = "poll" /\ file[Dir] = NoFiles
        /\ \A d \in Calls : d # calls => ps'[d] = ps[d]
        /\ \A e \in Calls : e # Dir => file'[e] = file[e]
        /\ file'[Dir].final = NoReceipt
    BY <1>1, <1>9, StartHas
  <2>2. file[Dir].out = FALSE
    BY <2>1 DEF NoFiles
  <2>3. \A d \in Calls : ps[d].pc # "none" => dir[d] # Dir
    BY <1>1, <2>2 DEF DirInv
  <2> QED BY <1>1, <2>1, <2>3 DEF FinalInv, Dir
<1>10. CASE LinkReceipt
  <2>1. /\ UNCHANGED <<ps, dir, calls>> /\ py = "link" /\ py' = "close"
        /\ \A e \in Calls : e # Dir => file'[e] = file[e]
        /\ file'[Dir].final.call = calls
    BY <1>1, <1>10, LinkHas
  <2>2. calls \in Calls /\ ps[calls].pc = "dead"
    BY <1>1, <2>1, Current DEF FinalInv
  <2>3. \A d \in Calls : ps[d].pc # "none" /\ d # calls => dir[d] # Dir
    BY <1>1, <2>2 DEF DirInv, Dir
  <2> QED BY <1>1, <2>1, <2>2, <2>3 DEF FinalInv
<1>11. CASE Call
  <2>1. /\ UNCHANGED <<ps, file>> /\ \A c \in Calls : c # calls' => dir'[c] = dir[c]
        /\ calls' = calls + 1 /\ calls \in Nat /\ calls' \in Calls /\ py' = "begin"
    BY <1>1, <1>11, CallHas
  <2>2. ps[calls'].pc = "none"
    BY <1>1, <2>1 DEF LaunchInv
  <2> QED BY <1>1, <2>1, <2>2 DEF FinalInv
<1>12. ASSUME NEW p \in Pids, UserStep(p) PROVE FinalInv'
  <2>1. UNCHANGED <<acad, ps, file, python>>
    BY <1>1, <1>12, UserHas
  <2> QED BY <1>2, <2>1
<1> QED BY <1>3, <1>4, <1>5, <1>6, <1>7, <1>8, <1>9, <1>10, <1>11, <1>12, Steps

\* A receipt that is there stays, whoever comes next.
LEMMA ReceiptStays ==
  ASSUME IInv, Next, NEW d \in Calls, file[d].final # NoReceipt
  PROVE  file'[d].final = file[d].final
<1>1. /\ TypeOK /\ BirthInv /\ LaunchInv /\ ClosedInv /\ DirInv /\ FinalInv /\ dir \in [Calls -> Calls]
  BY DEF IInv, TypeOK
<1>2. ASSUME NEW c \in Calls, ScriptStep(c) PROVE file'[d].final = file[d].final
  BY <1>1, <1>2, ScriptHas
<1>3. ASSUME NEW c \in Calls, EndStep(c) \/ LookStep(c) \/ LaunchAcad(c) PROVE file'[d].final = file[d].final
  <2>1. file' = file
    BY <1>1, <1>3, EndHas, LookHas, LaunchHas
  <2> QED BY <2>1
<1>4. ASSUME NEW c \in Calls, JobDone(c) \/ Publish(c) PROVE file'[d].final = file[d].final
  <2>1. /\ \A e \in Calls : e # dir[c] => file'[e] = file[e]
        /\ file'[dir[c]].final = file[dir[c]].final \/ ps[c].pc = "publish"
    BY <1>1, <1>4, WriteHas
  <2>2. ps[c].pc = "publish" => file[dir[c]].final = NoReceipt
    BY <1>1 DEF FinalInv
  <2> QED BY <2>1, <2>2
<1>5. CASE WaitStep \/ Call
  <2>1. file' = file
    BY <1>1, <1>5, WaitHas, CallHas
  <2> QED BY <2>1
<1>6. CASE Launch
  <2>1. file[Dir] = NoFiles /\ \A e \in Calls : e # Dir => file'[e] = file[e]
    BY <1>1, <1>6, StartHas
  <2> QED BY <2>1 DEF NoFiles
<1>7. CASE LinkReceipt
  BY <1>1, <1>7, LinkHas
<1>8. ASSUME NEW p \in Pids, UserStep(p) PROVE file'[d].final = file[d].final
  <2>1. file' = file
    BY <1>1, <1>8, UserHas
  <2> QED BY <2>1
<1> QED BY <1>2, <1>3, <1>4, <1>5, <1>6, <1>7, <1>8, Steps

-----------------------------------------------------------------------------
(* What ok rests on.                                                       *)

\* A launcher that is dead stays dead.
LEMMA DeadStays ==
  ASSUME IInv, Next, NEW d \in Calls, ps[d].pc = "dead"
  PROVE  ps'[d].pc = "dead"
<1>1. TypeOK /\ BirthInv /\ LaunchInv /\ ClosedInv
  BY DEF IInv
<1>2. ASSUME NEW c \in Calls, ScriptStep(c) \/ EndStep(c) PROVE ps'[d].pc = "dead"
  BY <1>1, <1>2, ScriptHas, EndLauncher
<1>3. ASSUME NEW c \in Calls, LookStep(c) \/ LaunchAcad(c) PROVE ps'[d].pc = "dead"
  BY <1>1, <1>3, LookHas, LaunchHas
<1>4. ASSUME NEW c \in Calls, JobDone(c) \/ Publish(c) PROVE ps'[d].pc = "dead"
  BY <1>1, <1>4, WriteHas
<1>5. CASE WaitStep
  BY <1>1, <1>5, WaitLauncher
<1>6. CASE Launch
  <2>1. py = "begin" /\ \A e \in Calls : e # calls => ps'[e] = ps[e]
    BY <1>1, <1>6, StartHas
  <2> QED BY <1>1, <2>1 DEF LaunchInv
<1>7. CASE LinkReceipt \/ Call
  BY <1>1, <1>7, LinkHas, CallHas
<1>8. ASSUME NEW p \in Pids, UserStep(p) PROVE ps'[d].pc = "dead"
  BY <1>1, <1>8, UserHas
<1> QED BY <1>2, <1>3, <1>4, <1>5, <1>6, <1>7, <1>8, Steps

LEMMA SettledStays ==
  ASSUME IInv, Next, NEW d \in Calls, Settled(d)
  PROVE  Settled(d)'
<1>1. /\ TypeOK /\ BirthInv /\ LaunchInv /\ ClosedInv /\ DirInv /\ dir \in [Calls -> Calls]
      /\ acad[d].st = "gone" /\ file[dir[d]].after # "none" /\ ps[d].pc \notin {"none", "gate", "launch"}
  BY DEF IInv, TypeOK, Settled, LaunchInv
<1>2. ASSUME acad'[d].st = "gone", file'[dir[d]].after # "none", dir'[d] = dir[d] PROVE Settled(d)'
  BY <1>2 DEF Settled
<1>3. ASSUME NEW c \in Calls, ScriptStep(c) PROVE Settled(d)'
  <2>1. /\ dir' = dir /\ acad[c].st \notin {"none", "gone"} /\ (d # c => acad'[d] = acad[d])
        /\ \A e \in Calls : e # dir[c] => file'[e] = file[e]
    BY <1>1, <1>3, ScriptHas DEF Alive, python
  <2>2. d # c /\ ps[c].pc # "none"
    BY <1>1, <2>1 DEF LaunchInv
  <2>3. dir[d] # dir[c]
    BY <1>1, <2>2 DEF DirInv
  <2> QED BY <1>1, <1>2, <2>1, <2>2, <2>3
<1>4. ASSUME NEW c \in Calls, EndStep(c) PROVE Settled(d)'
  <2>1. UNCHANGED <<file, python>> /\ acad'[d].st = "gone"
    BY <1>1, <1>4, EndHas, EndKeeps
  <2> QED BY <1>1, <1>2, <2>1 DEF python
<1>5. ASSUME NEW c \in Calls, LaunchAcad(c) PROVE Settled(d)'
  <2>1. UNCHANGED <<file, python>> /\ ps[c].pc = "launch" /\ (d # c => acad'[d] = acad[d])
    BY <1>1, <1>5, LaunchHas
  <2> QED BY <1>1, <1>2, <2>1 DEF python
<1>6. ASSUME NEW c \in Calls, LookStep(c) PROVE Settled(d)'
  <2>1. UNCHANGED <<file, acad, python>>
    BY <1>1, <1>6, LookHas
  <2> QED BY <1>1, <1>2, <2>1 DEF python
<1>7. ASSUME NEW c \in Calls, JobDone(c) \/ Publish(c) PROVE Settled(d)'
  <2>1. /\ UNCHANGED <<acad, python>> /\ \A e \in Calls : e # dir[c] => file'[e] = file[e]
        /\ file'[dir[c]].after = file[dir[c]].after
    BY <1>1, <1>7, WriteHas
  <2> QED BY <1>1, <1>2, <2>1 DEF python
<1>8. CASE WaitStep
  <2>1. UNCHANGED <<file, acad, dir>>
    BY <1>1, <1>8, WaitHas
  <2> QED BY <1>1, <1>2, <2>1
<1>9. CASE Launch
  <2>1. /\ UNCHANGED <<acad, dir>> /\ file[Dir] = NoFiles /\ \A e \in Calls : e # Dir => file'[e] = file[e]
    BY <1>1, <1>9, StartHas
  <2>2. dir[d] # Dir
    BY <1>1, <2>1 DEF NoFiles
  <2> QED BY <1>1, <1>2, <2>1, <2>2
<1>10. CASE LinkReceipt
  <2>1. /\ UNCHANGED <<acad, dir>> /\ file'[Dir].after = file[Dir].after
        /\ \A e \in Calls : e # Dir => file'[e] = file[e]
    BY <1>1, <1>10, LinkHas
  <2> QED BY <1>1, <1>2, <2>1
<1>11. CASE Call
  <2>1. /\ UNCHANGED <<acad, file>> /\ \A c \in Calls : c # calls' => dir'[c] = dir[c]
        /\ calls' = calls + 1 /\ calls \in Nat
    BY <1>1, <1>11, CallHas
  <2>2. d # calls'
    BY <1>1, <2>1 DEF LaunchInv
  <2> QED BY <1>1, <1>2, <2>1, <2>2
<1>12. ASSUME NEW p \in Pids, UserStep(p) PROVE Settled(d)'
  <2>1. UNCHANGED <<file, acad, python>>
    BY <1>1, <1>12, UserHas
  <2> QED BY <1>1, <1>2, <2>1 DEF python
<1> QED BY <1>3, <1>4, <1>5, <1>6, <1>7, <1>8, <1>9, <1>10, <1>11, <1>12, Steps

\* Evidence that a process is gone and the settings are back.
LEMMA Evidence ==
  ASSUME IInv, NEW c \in Calls, acad[c].st # "none", ~Present(c), Restored(file[dir[c]])
  PROVE  Settled(c)
<1>1. acad[c].st = "gone"
  BY DEF IInv, TypeOK, Present, Alive
<1>2. file[dir[c]].after # "none"
  BY DEF Restored
<1> QED BY <1>1, <1>2 DEF Settled

\* The part of ClosedInv that is about Python, and the part about receipts.
ReturnInv ==
  /\ py \in {"confirm", "link"} => Settled(calls)
  /\ py \in {"judge", "inspect"} /\ ~err => ps[calls].pc = "dead"
  /\ py = "inspect" => ~err /\ file[Dir].final.status = "ok"
  /\ outcome = "ok" =>
       py = "ended" /\ ps[calls].pc = "dead" /\ file[Dir].final.status = "ok"

OkInv ==
  /\ \A c \in Calls : ps[c].status = "ok" => Settled(c)
  /\ \A c \in Calls : ps[c].pc # "none" /\ file[dir[c]].final.status = "ok" => Settled(c)

LEMMA ClosedParts == ClosedInv <=> ReturnInv /\ OkInv
BY DEF ClosedInv, ReturnInv, OkInv

LEMMA ReturnStays == ASSUME IInv, Next, UNCHANGED python PROVE ReturnInv'
<1>1. TypeOK /\ LaunchInv /\ ReturnInv
  BY ClosedParts DEF IInv
<1>2. py' = py /\ calls' = calls /\ dir' = dir /\ outcome' = outcome /\ Dir' = Dir
  BY DEF python, Dir
<1>3. err' = err
  BY DEF python
<1>4. py # "idle" => calls \in Calls /\ Dir \in Calls
  BY <1>1, Current
<1>5. py # "idle" /\ Settled(calls) => Settled(calls)'
  <2>1. SUFFICES ASSUME py # "idle", Settled(calls) PROVE Settled(calls)'
    OBVIOUS
  <2>2. PICK d \in Calls : d = calls
    BY <1>4, <2>1
  <2>3. Settled(d)'
    BY <2>1, <2>2, SettledStays
  <2> QED BY <1>2, <2>2, <2>3 DEF Settled
<1>6. py # "idle" /\ ps[calls].pc = "dead" => ps'[calls].pc = "dead"
  BY <1>4, DeadStays
<1>7. py # "idle" /\ file[Dir].final.status = "ok" => file'[Dir].final.status = "ok"
  <2>1. file[Dir].final.status = "ok" => file[Dir].final # NoReceipt
    BY DEF NoReceipt
  <2> QED BY <1>4, <2>1, ReceiptStays
<1>8. py' \in {"confirm", "link"} => Settled(calls)'
  BY <1>1, <1>2, <1>5 DEF ReturnInv
<1>9. py' \in {"judge", "inspect"} /\ ~err' => ps'[calls'].pc = "dead"
  BY <1>1, <1>2, <1>3, <1>6 DEF ReturnInv
<1>10. py' = "inspect" => ~err' /\ file'[Dir'].final.status = "ok"
  BY <1>1, <1>2, <1>3, <1>7 DEF ReturnInv
<1>11. outcome' = "ok" => py' = "ended" /\ ps'[calls'].pc = "dead" /\ file'[Dir'].final.status = "ok"
  BY <1>1, <1>2, <1>6, <1>7 DEF ReturnInv
<1> QED BY <1>8, <1>9, <1>10, <1>11 DEF ReturnInv

\* The launchers and receipts that say ok are those of before.
LEMMA OkStays ==
  ASSUME IInv, Next,
         \A d \in Calls : ps'[d].status = "ok" => ps[d].status = "ok" \/ Settled(d),
         \A d \in Calls : ps'[d].pc # "none" /\ file'[dir'[d]].final.status = "ok" =>
           Settled(d) \/ (ps[d].pc # "none" /\ file[dir[d]].final.status = "ok")
  PROVE  OkInv'
<1>1. OkInv
  BY ClosedParts DEF IInv
<1>2. ASSUME NEW d \in Calls, ps'[d].status = "ok" PROVE Settled(d)'
  <2>1. Settled(d)
    BY <1>1, <1>2 DEF OkInv
  <2> QED BY <2>1, SettledStays
<1>3. ASSUME NEW d \in Calls, ps'[d].pc # "none", file'[dir'[d]].final.status = "ok" PROVE Settled(d)'
  <2>1. Settled(d)
    BY <1>1, <1>3 DEF OkInv
  <2> QED BY <2>1, SettledStays
<1> QED BY <1>2, <1>3 DEF OkInv

LEMMA ClosedNext == ASSUME IInv, Next PROVE ClosedInv'
<1>1. /\ TypeOK /\ BirthInv /\ LaunchInv /\ ClosedInv /\ DirInv /\ FinalInv /\ dir \in [Calls -> Calls]
      /\ OkInv /\ ReturnInv
  BY ClosedParts DEF IInv, TypeOK
<1>2. ASSUME UNCHANGED python, OkInv' PROVE ClosedInv'
  BY <1>2, ReturnStays DEF ClosedInv, OkInv, ReturnInv
<1>3. ASSUME NEW c \in Calls, ScriptStep(c) PROVE ClosedInv'
  <2>1. UNCHANGED <<ps, python>> /\ \A d \in Calls : file'[d].final = file[d].final
    BY <1>1, <1>3, ScriptHas
  <2>2. OkInv'
    BY <1>1, <2>1, OkStays DEF python
  <2> QED BY <1>2, <2>1, <2>2
<1>4. ASSUME NEW c \in Calls, EndStep(c) PROVE ClosedInv'
  <2>1. UNCHANGED <<file, python>> /\ Kept
    BY <1>1, <1>4, EndHas, EndKeeps
  <2>2. \A d \in Calls : ps'[d].status = ps[d].status
    BY <1>1, <1>4, EndLauncher
  <2>3. OkInv'
    BY <1>1, <2>1, <2>2, OkStays DEF python, Kept
  <2> QED BY <1>2, <2>1, <2>3
<1>5. ASSUME NEW c \in Calls, LookStep(c) PROVE ClosedInv'
  <2>1. /\ UNCHANGED <<file, python>> /\ \A d \in Calls : d # c => ps'[d] = ps[d]
        /\ ps[c].pc # "none"
        /\ ps'[c].status = "ok" => \/ ps[c].status = "ok"
                                   \/ ps[c].done /\ ~Present(c) /\ Restored(file[dir[c]])
    BY <1>1, <1>5, LookHas
  <2>2. ps[c].done => acad[c].st # "none"
    BY <1>1 DEF LaunchInv
  <2>3. ps'[c].status = "ok" => ps[c].status = "ok" \/ Settled(c)
    BY <2>1, <2>2, Evidence
  <2>4. OkInv'
    BY <1>1, <2>1, <2>3, OkStays DEF python
  <2> QED BY <1>2, <2>1, <2>4
<1>6. ASSUME NEW c \in Calls, LaunchAcad(c) PROVE ClosedInv'
  <2>1. /\ UNCHANGED <<file, python>> /\ \A d \in Calls : d # c => ps'[d] = ps[d]
        /\ ps[c].pc # "none" /\ ps'[c].status = ps[c].status
    BY <1>1, <1>6, LaunchHas
  <2>2. OkInv'
    BY <1>1, <2>1, OkStays DEF python
  <2> QED BY <1>2, <2>1, <2>2
<1>7. ASSUME NEW c \in Calls, JobDone(c) \/ Publish(c) PROVE ClosedInv'
  <2>1. /\ UNCHANGED python /\ \A d \in Calls : d # c => ps'[d] = ps[d]
        /\ ps[c].pc # "none" /\ ps'[c].status = ps[c].status
        /\ \A e \in Calls : e # dir[c] => file'[e] = file[e]
        /\ \/ file'[dir[c]].final = file[dir[c]].final
           \/ file'[dir[c]].final.status = ps[c].status
    BY <1>1, <1>7, WriteHas
  <2>2. dir' = dir /\ \A d \in Calls : ps[d].pc # "none" /\ d # c => dir[d] # dir[c]
    BY <1>1, <2>1 DEF DirInv, python
  <2>3. file'[dir[c]].final.status = "ok" => file[dir[c]].final.status = "ok" \/ Settled(c)
    BY <1>1, <2>1 DEF OkInv
  <2>4. OkInv'
    BY <1>1, <2>1, <2>2, <2>3, OkStays
  <2> QED BY <1>2, <2>1, <2>4
<1>8. CASE WaitStep
  <2>1. UNCHANGED <<file, acad, dir, calls>> /\ Dir' = Dir
    BY <1>1, <1>8, WaitHas DEF Dir
  <2>2. /\ \A d \in Calls : ps'[d].status = ps[d].status
        /\ \A d \in Calls : ps'[d].pc # "none" => ps[d].pc # "none"
        /\ Shut => ps'[calls].pc = "dead"
    BY <1>1, <1>8, WaitLauncher
  <2>3. OkInv'
    BY <1>1, <2>1, <2>2, OkStays
  <2>4. py' \in {"confirm", "link"} => Settled(calls)
    <3>1. CASE py' = "confirm"
      <4>1. Proven(calls) /\ py \in Busy
        BY <1>1, <1>8, <3>1, WaitHas DEF Busy
      <4>2. calls \in Calls /\ ps[calls].pc # "none"
        BY <1>1, <4>1, Current DEF Busy, LaunchInv
      <4>3. acad[calls].st # "none"
        BY <1>1, <4>1, <4>2 DEF Proven, DirInv
      <4> QED BY <4>1, <4>2, <4>3, Evidence DEF Proven
    <3>2. CASE py' = "link"
      BY <1>1, <1>8, <3>2, WaitHas DEF ReturnInv
    <3> QED BY <3>1, <3>2
  <2>5. py' \in {"confirm", "link"} => Settled(calls)'
    BY <2>1, <2>4 DEF Settled
  <2>6. py' \in {"judge", "inspect"} /\ ~err' => ps'[calls].pc = "dead"
    <3>1. CASE py' = "judge" /\ ~err'
      BY <1>1, <1>8, <2>2, <3>1, WaitHas
    <3>2. CASE py' = "inspect"
      <4>1. py = "judge" /\ UNCHANGED ps /\ Accepted
        BY <1>1, <1>8, <3>2, WaitHas
      <4> QED BY <1>1, <4>1 DEF ReturnInv, Accepted
    <3> QED BY <3>1, <3>2
  <2>7. py' = "inspect" => ~err' /\ file[Dir].final.status = "ok"
    <3>1. SUFFICES ASSUME py' = "inspect" PROVE ~err' /\ file[Dir].final.status = "ok"
      OBVIOUS
    <3>2. err' = err /\ Accepted
      BY <1>1, <1>8, <3>1, WaitHas
    <3> QED BY <3>2 DEF Accepted
  <2>8. outcome' = "ok" => py' = "ended" /\ ps'[calls].pc = "dead" /\ file[Dir].final.status = "ok"
    <3>1. SUFFICES ASSUME outcome' = "ok"
                   PROVE  py' = "ended" /\ ps'[calls].pc = "dead" /\ file[Dir].final.status = "ok"
      OBVIOUS
    <3>2. py' = "ended" /\ UNCHANGED ps /\ ((py = "judge" /\ Accepted) \/ py = "inspect")
      BY <1>1, <1>8, <3>1, WaitHas
    <3> QED BY <1>1, <3>2 DEF ReturnInv, Accepted
  <2> QED BY <2>1, <2>3, <2>5, <2>6, <2>7, <2>8 DEF ClosedInv, OkInv
<1>9. CASE Launch
  <2>1. /\ UNCHANGED <<acad, dir, calls, outcome>> /\ py = "begin" /\ py' = "poll" /\ file[Dir] = NoFiles
        /\ \A e \in Calls : e # Dir => file'[e] = file[e]
        /\ file'[Dir].final = NoReceipt
        /\ \A d \in Calls : d # calls => ps'[d] = ps[d]
        /\ ps'[calls].status = ps[calls].status
    BY <1>1, <1>9, StartHas
  <2>2. \A d \in Calls : ps[d].pc # "none" => dir[d] # Dir
    BY <1>1, <2>1 DEF DirInv, NoFiles
  <2>3. file'[Dir].final.status # "ok"
    BY <2>1 DEF NoReceipt
  <2>4. OkInv'
    BY <1>1, <2>1, <2>2, <2>3, OkStays DEF Dir
  <2>5. outcome' # "ok"
    BY <1>1, <2>1 DEF ReturnInv
  <2> QED BY <2>1, <2>4, <2>5 DEF ClosedInv, OkInv
<1>10. CASE LinkReceipt
  <2>1. /\ UNCHANGED <<acad, ps, dir, calls, outcome>> /\ py = "link" /\ py' = "close"
        /\ \A e \in Calls : e # Dir => file'[e] = file[e]
    BY <1>1, <1>10, LinkHas
  <2>2. calls \in Calls /\ ps[calls].pc = "dead" /\ Settled(calls)
    BY <1>1, <2>1, Current DEF FinalInv, ReturnInv
  <2>3. \A d \in Calls : ps[d].pc # "none" /\ d # calls => dir[d] # Dir
    BY <1>1, <2>2 DEF DirInv, Dir
  <2>4. OkInv'
    BY <1>1, <2>1, <2>2, <2>3, OkStays
  <2>5. outcome' # "ok"
    BY <1>1, <2>1 DEF ReturnInv
  <2> QED BY <2>1, <2>4, <2>5 DEF ClosedInv, OkInv
<1>11. CASE Call
  <2>1. /\ UNCHANGED <<acad, ps, file>> /\ \A c \in Calls : c # calls' => dir'[c] = dir[c]
        /\ calls' = calls + 1 /\ calls \in Nat /\ calls' \in Calls /\ py' = "begin" /\ outcome' = "none"
    BY <1>1, <1>11, CallHas
  <2>2. ps[calls'].pc = "none"
    BY <1>1, <2>1 DEF LaunchInv
  <2>3. OkInv'
    BY <1>1, <2>1, <2>2, OkStays
  <2> QED BY <2>1, <2>3 DEF ClosedInv, OkInv
<1>12. ASSUME NEW p \in Pids, UserStep(p) PROVE ClosedInv'
  <2>1. UNCHANGED <<file, ps, python>>
    BY <1>1, <1>12, UserHas
  <2>2. OkInv'
    BY <1>1, <2>1, OkStays DEF python
  <2> QED BY <1>2, <2>1, <2>2
<1> QED BY <1>3, <1>4, <1>5, <1>6, <1>7, <1>8, <1>9, <1>10, <1>11, <1>12, Steps

-----------------------------------------------------------------------------
(* The security settings.                                                  *)

LEMMA ProfileNext == ASSUME IInv, Next PROVE ProfileInv'
<1>1. /\ TypeOK /\ BirthInv /\ LaunchInv /\ ClosedInv /\ DirInv /\ ProfileInv
      /\ acad \in [Calls -> AcadType] /\ calls \in Nat
  BY DEF IInv, TypeOK
\* Steps of the same call, and with no process left over from earlier ones.
<1>2. ASSUME UNCHANGED python,
             ~orphan => \A d \in Calls : d # calls => Quiet(d)',
             ~orphan => \A d \in Calls : d = calls => Clean(d)'
      PROVE  ProfileInv'
  <2>1. orphan' = orphan /\ calls' = calls
    BY <1>2 DEF python
  <2> QED BY <1>2, <2>1 DEF ProfileInv
<1>3. ASSUME NEW c \in Calls, ScriptStep(c) PROVE ProfileInv'
  <2>1. /\ UNCHANGED <<ps, python>> /\ dir' = dir /\ start' = start /\ Alive(c)
        /\ acad'[c].mem = acad[c].mem
        /\ acad'[c].st \in {"weakened", "ran", "restored", "saved"}
        /\ \A d \in Calls : d # c => acad'[d] = acad[d]
    BY <1>1, <1>3, ScriptHas DEF python
  <2>2. \/ acad[c].st = "opened" /\ file'[dir[c]].after = file[dir[c]].after
        \/ /\ acad[c].st = "weakened" /\ UNCHANGED profile /\ file'[dir[c]].after = file[dir[c]].after
        \/ /\ acad[c].st = "ran" /\ profile' = acad[c].mem /\ file'[dir[c]].after = acad[c].mem
           /\ acad'[c].st = "restored"
        \/ /\ acad[c].st = "restored" /\ UNCHANGED profile /\ file'[dir[c]].after = file[dir[c]].after
           /\ acad'[c].st = "saved"
    BY <1>1, <1>3, ScriptHas
  <2>3. ASSUME ~orphan PROVE c = calls /\ Clean(c)'
    <3>1. c = calls /\ Clean(c)
      BY <1>1, <2>1, <2>3 DEF ProfileInv, Quiet
    <3>2. ps[c].pc # "none"
      BY <1>1, <2>1 DEF LaunchInv, Alive
    <3>3. CASE acad[c].st \in {"opened", "weakened"}
      BY <2>1, <2>2, <3>1, <3>2, <3>3 DEF Clean
    <3>4. CASE acad[c].st \notin {"opened", "weakened"}
      BY <2>1, <2>2, <3>1, <3>2, <3>4 DEF Clean
    <3> QED BY <3>1, <3>3, <3>4
  <2>4. ASSUME ~orphan, NEW d \in Calls, d # calls PROVE Quiet(d)'
    BY <1>1, <2>1, <2>3, <2>4 DEF ProfileInv, Quiet, Alive
  <2> QED BY <1>2, <2>1, <2>3, <2>4
<1>4. ASSUME NEW c \in Calls, EndStep(c) PROVE ProfileInv'
  <2>1. UNCHANGED <<file, profile, python>> /\ dir' = dir /\ start' = start /\ Kept
    BY <1>1, <1>4, EndHas, EndKeeps DEF python
  <2>2. ASSUME NEW d \in Calls
        PROVE  (acad'[d] = acad[d] \/ acad'[d].st = "gone") /\ acad'[d].mem = acad[d].mem
    <3>1. acad'[d] = acad[d] \/ (Alive(d) /\ acad'[d] = [acad[d] EXCEPT !.st = "gone"])
      BY <1>1, <1>4, EndHas
    <3>2. acad[d] \in AcadType
      BY <1>1
    <3> QED BY <3>1, <3>2 DEF AcadType, Alive
  <2>3. \A d \in Calls : ps'[d] = ps[d] \/ ps[d].pc \in {"stop", "taskkill"}
    BY <1>1, <1>4, EndLauncher
  <2>4. \A d \in Calls : /\ (acad'[d].st = "none" => acad[d].st = "none")
                       /\ (acad[d].st = "none" => acad'[d].st = "none")
                       /\ (ps'[d].pc = "none" => ps[d].pc = "none")
                       /\ (ps[d].pc = "none" => ps'[d].pc = "none")
    BY <2>1 DEF Kept
  <2>5. ASSUME ~orphan, NEW d \in Calls, d # calls PROVE Quiet(d)'
    BY <1>1, <2>2, <2>3, <2>5 DEF ProfileInv, Quiet, Alive
  <2>6. ASSUME ~orphan, NEW d \in Calls, d = calls PROVE Clean(d)'
    BY <1>1, <2>1, <2>2, <2>4, <2>6 DEF ProfileInv, Clean
  <2> QED BY <1>2, <2>1, <2>5, <2>6
<1>5. ASSUME NEW c \in Calls, LaunchAcad(c) PROVE ProfileInv'
  <2>1. /\ UNCHANGED <<file, profile, python>> /\ dir' = dir /\ start' = start
        /\ \A d \in Calls : d # c => ps'[d] = ps[d] /\ acad'[d] = acad[d]
        /\ ps[c].pc = "launch" /\ ps'[c].pc \in {"collect", "poll"}
        /\ acad'[c].st = "opened" /\ acad'[c].mem = profile
    BY <1>1, <1>5, LaunchHas DEF python
  <2>2. acad[c].st = "none"
    BY <1>1, <2>1 DEF LaunchInv
  <2>3. ~orphan => c = calls
    BY <1>1, <2>1 DEF ProfileInv, Quiet
  <2>4. ASSUME ~orphan, NEW d \in Calls, d # calls PROVE Quiet(d)'
    BY <1>1, <2>1, <2>3, <2>4 DEF ProfileInv, Quiet, Alive
  <2>5. ASSUME ~orphan, NEW d \in Calls, d = calls PROVE Clean(d)'
    BY <1>1, <2>1, <2>2, <2>3, <2>5 DEF ProfileInv, Clean
  <2> QED BY <1>2, <2>1, <2>4, <2>5
<1>6. ASSUME NEW c \in Calls, LookStep(c) PROVE ProfileInv'
  <2>1. /\ UNCHANGED <<file, acad, profile, python>> /\ dir' = dir /\ start' = start
        /\ \A d \in Calls : d # c => ps'[d] = ps[d]
        /\ ps[c].pc \notin {"none", "dead"}
    BY <1>1, <1>6, LookHas DEF python, machine
  <2>2. ~orphan => c = calls
    BY <1>1, <2>1 DEF ProfileInv, Quiet
  <2>3. ASSUME ~orphan, NEW d \in Calls, d # calls PROVE Quiet(d)'
    BY <1>1, <2>1, <2>2, <2>3 DEF ProfileInv, Quiet, Alive
  <2>4. ASSUME ~orphan, NEW d \in Calls, d = calls PROVE Clean(d)'
    BY <1>1, <2>1, <2>2, <2>4 DEF ProfileInv, Clean
  <2> QED BY <1>2, <2>1, <2>3, <2>4
<1>7. ASSUME NEW c \in Calls, JobDone(c) \/ Publish(c) PROVE ProfileInv'
  <2>1. /\ UNCHANGED <<acad, profile, python>> /\ dir' = dir /\ start' = start
        /\ \A d \in Calls : d # c => ps'[d] = ps[d]
        /\ ps[c].pc \notin {"none", "dead"} /\ file'[dir[c]].after = file[dir[c]].after
    BY <1>1, <1>7, WriteHas DEF python, machine
  <2>2. ~orphan => c = calls
    BY <1>1, <2>1 DEF ProfileInv, Quiet
  <2>3. ASSUME ~orphan, NEW d \in Calls, d # calls PROVE Quiet(d)'
    BY <1>1, <2>1, <2>2, <2>3 DEF ProfileInv, Quiet, Alive
  <2>4. ASSUME ~orphan, NEW d \in Calls, d = calls PROVE Clean(d)'
    BY <1>1, <2>1, <2>2, <2>4 DEF ProfileInv, Clean
  <2> QED BY <1>2, <2>1, <2>3, <2>4
<1>8. CASE WaitStep
  <2>1. UNCHANGED <<file, acad, profile, calls, dir, start>> /\ orphan' = orphan
    BY <1>1, <1>8, WaitHas DEF machine
  <2>2. ASSUME NEW d \in Calls
        PROVE  ps'[d].pc = ps[d].pc \/ (d = calls /\ ps[d].pc # "none" /\ ps'[d].pc = "dead")
    BY <1>1, <1>8, WaitLauncher
  <2>3. ASSUME ~orphan, NEW d \in Calls, d # calls PROVE Quiet(d)'
    BY <1>1, <2>1, <2>2, <2>3 DEF ProfileInv, Quiet, Alive
  <2>4. ASSUME ~orphan, NEW d \in Calls, d = calls PROVE Clean(d)'
    BY <1>1, <2>1, <2>2, <2>4 DEF ProfileInv, Clean
  <2> QED BY <2>1, <2>3, <2>4 DEF ProfileInv
<1>9. CASE Launch
  <2>1. /\ UNCHANGED <<acad, profile, calls, dir, start>> /\ orphan' = orphan /\ py = "begin"
        /\ \A d \in Calls : d # calls => ps'[d] = ps[d]
        /\ file'[Dir].after = "none"
    BY <1>1, <1>9, StartHas DEF machine
  <2>2. calls \in Calls /\ acad[calls].st = "none"
    BY <1>1, <2>1, Current DEF LaunchInv
  <2>3. ASSUME ~orphan, NEW d \in Calls, d # calls PROVE Quiet(d)'
    BY <1>1, <2>1, <2>3 DEF ProfileInv, Quiet, Alive
  <2>4. ASSUME ~orphan, NEW d \in Calls, d = calls PROVE Clean(d)'
    BY <1>1, <2>1, <2>2, <2>4 DEF ProfileInv, Clean, Dir
  <2> QED BY <2>1, <2>3, <2>4 DEF ProfileInv
<1>10. CASE LinkReceipt
  <2>1. /\ UNCHANGED <<acad, ps, profile, calls, dir, start>> /\ orphan' = orphan /\ py = "link"
        /\ file'[Dir].after = file[Dir].after
    BY <1>1, <1>10, LinkHas DEF machine
  <2>2. ASSUME ~orphan, NEW d \in Calls, d # calls PROVE Quiet(d)'
    BY <1>1, <2>1, <2>2 DEF ProfileInv, Quiet, Alive
  <2>3. ASSUME ~orphan, NEW d \in Calls, d = calls PROVE Clean(d)'
    BY <1>1, <2>1, <2>3 DEF ProfileInv, Clean, Dir
  <2> QED BY <2>1, <2>2, <2>3 DEF ProfileInv
<1>11. CASE Call
  <2>1. /\ UNCHANGED <<acad, ps, profile>> /\ start' = profile /\ calls' = calls + 1
        /\ calls' \in Calls
        /\ ~orphan' => \A c \in Calls : ~Alive(c) /\ ps[c].pc \in {"none", "dead"}
    BY <1>1, <1>11, CallHas DEF machine
  <2>2. ps[calls'].pc = "none" /\ acad[calls'].st = "none"
    BY <1>1, <2>1 DEF LaunchInv
  <2> QED BY <2>1, <2>2 DEF ProfileInv, Quiet, Clean, Alive
<1>12. ASSUME NEW p \in Pids, UserStep(p) PROVE ProfileInv'
  <2>1. UNCHANGED <<acad, ps, file, profile, python>> /\ dir' = dir /\ start' = start
    BY <1>1, <1>12, UserHas DEF python
  <2>2. ASSUME ~orphan, NEW d \in Calls, d # calls PROVE Quiet(d)'
    BY <1>1, <2>1, <2>2 DEF ProfileInv, Quiet, Alive
  <2>3. ASSUME ~orphan, NEW d \in Calls, d = calls PROVE Clean(d)'
    BY <1>1, <2>1, <2>3 DEF ProfileInv, Clean
  <2> QED BY <1>2, <2>1, <2>2, <2>3
<1> QED BY <1>3, <1>4, <1>5, <1>6, <1>7, <1>8, <1>9, <1>10, <1>11, <1>12, Steps

-----------------------------------------------------------------------------
LEMMA InitHolds == ASSUME Init PROVE IInv
<1>1. /\ MaxBirths \in Nat /\ MaxBirths # 0 /\ 1 \in 0 .. MaxBirths
      /\ plan \in Plans /\ plan \in Seq(Jobs)
  BY AttendedAssumption DEF Init
<1>2. 0 \in 0 .. Len(plan) /\ 0 \in 0 .. MaxCalls
  BY <1>1, LenProperties, AttendedAssumption
<1>3. NoReceipt \in [by : {"nobody", "launcher", "validator"},
                    status : {"none", "ok", "error", "timeout", "blocked"}, call : 0 .. MaxCalls]
  BY <1>2 DEF NoReceipt
<1>4. NoFiles \in FileType
  BY <1>3 DEF NoFiles, FileType
<1>5. NoAcad \in AcadType /\ NoLauncher \in LauncherType
  BY <1>1 DEF NoAcad, AcadType, NoLauncher, LauncherType
<1>6. /\ \A c \in Calls : acad[c] = NoAcad /\ ps[c] = NoLauncher /\ file[c] = NoFiles /\ dir[c] = c
      /\ acad \in [Calls -> AcadType] /\ ps \in [Calls -> LauncherType] /\ file \in [Calls -> FileType]
      /\ dir \in [Calls -> Calls]
  BY <1>4, <1>5 DEF Init
<1>7. \A c \in Calls : /\ acad[c].st = "none" /\ ps[c].pc = "none" /\ ps[c].done = FALSE
                     /\ ps[c].status = "none" /\ file[dir[c]].final = NoReceipt
                     /\ file[dir[c]].after = "none"
  BY <1>6 DEF NoAcad, NoLauncher, NoFiles
<1>8. py = "idle" /\ calls = 0 /\ outcome = "none" /\ births = 1 /\ users = {1}
  BY DEF Init
<1>9. TypeOK
  <2>1. table \in [Pids -> 0 .. births]
    <3>1. {0, 1} \subseteq 0 .. births
      BY <1>8
    <3>2. table \in [Pids -> {0, 1}]
      BY DEF Init
    <3> QED BY <3>1, <3>2
  <2>2. users \subseteq 1 .. births
    BY <1>8
  <2>3. seen \in BOOLEAN /\ err \in BOOLEAN /\ orphan \in BOOLEAN
    BY DEF Init
  <2>4. output = "none" /\ start = "user" /\ profile = "user"
    BY DEF Init
  <2>5. \A c \in Calls : ~Alive(c)
    BY <1>7 DEF Alive
  <2>6. WorldType
    BY <1>1, <1>6, <1>8, <2>1, <2>2, <2>4 DEF WorldType
  <2>7. PyType
    BY <1>1, <1>2, <1>6, <1>8, <2>3, <2>4 DEF PyType
  <2> QED BY <2>5, <2>6, <2>7, TypeParts DEF Named
<1>10. BirthInv /\ HandleInv /\ LaunchInv
  BY <1>7, <1>8 DEF BirthInv, HandleInv, HandleHeld, LaunchInv
<1>11. DirInv /\ FinalInv
  BY <1>7, <1>8 DEF DirInv, FinalInv
<1>12. ClosedInv
  <2>1. NoReceipt.status # "ok"
    BY DEF NoReceipt
  <2> QED BY <1>7, <1>8, <2>1 DEF ClosedInv
<1>13. ProfileInv
  <2>1. 0 \notin Calls
    BY DEF Calls
  <2> QED BY <1>7, <1>8, <2>1 DEF ProfileInv, Quiet, Alive
<1> QED BY <1>9, <1>10, <1>11, <1>12, <1>13 DEF IInv

LEMMA Stutter == ASSUME IInv, UNCHANGED vars PROVE IInv'
<1>1. /\ table' = table /\ births' = births /\ users' = users /\ profile' = profile
      /\ file' = file /\ acad' = acad /\ ps' = ps
  BY DEF vars, machine
<1>2. UNCHANGED python
  BY DEF vars
<1>3. /\ plan' = plan /\ py' = py /\ calls' = calls /\ dir' = dir
      /\ outcome' = outcome /\ start' = start
  BY <1>2 DEF python
<1>4. err' = err /\ orphan' = orphan
  BY <1>2 DEF python
<1>5. TypeOK'
  <2>1. WorldType /\ PyType /\ Named
    BY TypeParts DEF IInv
  <2>2. PyType'
    BY <1>2, <2>1, PyTypeStays
  <2>3. WorldType'
    BY <1>1, <2>1 DEF WorldType
  <2>4. Named'
    BY <1>1, <2>1 DEF Named, Alive
  <2> QED BY <2>2, <2>3, <2>4 DEF TypeOK, WorldType, PyType, Named
<1>6. BirthInv' /\ HandleInv' /\ LaunchInv'
  BY <1>1, <1>3 DEF IInv, BirthInv, HandleInv, HandleHeld, LaunchInv
<1>7. DirInv' /\ FinalInv'
  BY <1>1, <1>3 DEF IInv, DirInv, FinalInv
<1>8. ClosedInv'
  BY <1>1, <1>3, <1>4 DEF IInv, ClosedInv, Settled, Dir
<1>9. ProfileInv'
  BY <1>1, <1>3, <1>4 DEF IInv, ProfileInv, Quiet, Clean, Alive
<1> QED BY <1>5, <1>6, <1>7, <1>8, <1>9 DEF IInv

\* The parts of IInv hold from the first state on, and no step of the user, of an
\* AutoCAD, of a launcher or of Python breaks them.
THEOREM Inductive == Spec => []IInv
<1>1. Init => IInv
  BY InitHolds
<1>2. IInv /\ [Next]_vars => IInv'
  <2>1. ASSUME IInv, Next PROVE IInv'
    BY <2>1, TypeNext, BirthNext, HandleNext, LaunchNext, DirNext, FinalNext, ClosedNext, ProfileNext
       DEF IInv
  <2> QED BY <2>1, Stutter
<1> QED BY <1>1, <1>2, PTL DEF Spec

\* The variables keep their types, and a PID names the process that has it.
THEOREM TypeCorrect == Spec => []TypeOK
<1>1. IInv => TypeOK
  BY DEF IInv
<1> QED BY <1>1, Inductive, PTL

\* attended_lane.py: a call that returns ok has left neither its AutoCAD nor its launcher
\* running, whichever of the two wrote the receipt and whatever failed on the way.
THEOREM OkClosed == Spec => []OkMeansClosed
<1>1. IInv => OkMeansClosed
  <2>1. SUFFICES ASSUME IInv, outcome = "ok" PROVE acad[calls].st = "gone" /\ ps[calls].pc = "dead"
    BY DEF OkMeansClosed
  <2>2. py = "ended" /\ ps[calls].pc = "dead" /\ file[Dir].final.status = "ok"
    BY <2>1 DEF IInv, ClosedInv
  <2>3. calls \in Calls
    BY <2>1, <2>2, Current DEF IInv
  <2>4. Settled(calls)
    BY <2>1, <2>2, <2>3 DEF IInv, ClosedInv, Dir
  <2> QED BY <2>2, <2>4 DEF Settled
<1> QED BY <1>1, Inductive, PTL

\* Such a call has put the security settings back, unless a process of an earlier call was
\* still about when it began.
THEOREM OkRestored == Spec => []OkRestores
<1>1. IInv => OkRestores
  <2>1. SUFFICES ASSUME IInv, outcome = "ok", ~orphan PROVE profile = start
    BY DEF OkRestores
  <2>2. py = "ended" /\ ps[calls].pc = "dead" /\ file[Dir].final.status = "ok"
    BY <2>1 DEF IInv, ClosedInv
  <2>3. calls \in Calls
    BY <2>1, <2>2, Current DEF IInv
  <2>4. Settled(calls)
    BY <2>1, <2>2, <2>3 DEF IInv, ClosedInv, Dir
  <2>5. Clean(calls)
    BY <2>1, <2>3 DEF IInv, ProfileInv
  <2> QED BY <2>2, <2>4, <2>5 DEF Settled, Clean
<1> QED BY <1>1, Inductive, PTL

\* The receipt it went by was written for it: a run directory with anything in it is refused.
THEOREM OkFresh == Spec => []OkIsFresh
<1>1. IInv => OkIsFresh
  <2>1. SUFFICES ASSUME IInv, outcome = "ok" PROVE file[Dir].final.call = calls
    BY DEF OkIsFresh
  <2>2. py = "ended" /\ ps[calls].pc = "dead" /\ file[Dir].final.status = "ok"
    BY <2>1 DEF IInv, ClosedInv
  <2>3. calls \in Calls
    BY <2>1, <2>2, Current DEF IInv
  <2>4. file[Dir].final # NoReceipt
    BY <2>2 DEF NoReceipt
  <2> QED BY <2>1, <2>2, <2>3, <2>4 DEF IInv, FinalInv, Dir
<1> QED BY <1>1, Inductive, PTL

\* A final receipt stays as it was first published: the launcher publishes with a rename
\* that would replace one, and Python with a link that would not, yet they never meet.
THEOREM ReceiptKept == Spec => ReceiptStands
<1>1. IInv /\ [Next]_vars =>
        [\A d \in Calls : file[d].final # NoReceipt => file'[d].final = file[d].final]_vars
  BY ReceiptStays
<1> QED BY <1>1, Inductive, PTL DEF Spec, ReceiptStands

\* Stop-Process and taskkill /PID reach only what the launcher itself has started: no step
\* but the user's own ends a session of the user.
THEOREM UsersSafe == Spec => OnlyUsersClose
<1>1. ASSUME IInv, Next, NEW p \in Pids, table[p] \in users, ~\E q \in Pids : UserCloses(q)
      PROVE  table'[p] = table[p]
  <2>1. /\ TypeOK /\ BirthInv /\ LaunchInv /\ ClosedInv /\ HandleInv /\ 0 \notin users
    BY <1>1 DEF IInv, TypeOK
  <2>2. ASSUME NEW c \in Calls, ScriptStep(c) \/ LookStep(c) \/ JobDone(c) \/ Publish(c)
        PROVE table'[p] = table[p]
    <3>1. table' = table
      BY <2>1, <2>2, ScriptHas, LookHas, WriteHas DEF machine
    <3> QED BY <3>1
  <2>3. ASSUME NEW c \in Calls, EndStep(c) PROVE table'[p] = table[p]
    <3>1. /\ acad[c].st # "none" /\ acad[c].birth \notin users
          /\ table'[p] = table[p] \/ p = acad[c].pid
      BY <2>1, <2>3, EndHas DEF BirthInv
    <3>2. Alive(c) \/ HandleHeld(c)
      BY <2>3, <3>1 DEF EndStep, Quit, AcadDies, Alive, Stop, TaskKill, HandleHeld
    <3>3. table[acad[c].pid] \in {0, acad[c].birth}
      BY <2>1, <3>2 DEF TypeOK, HandleInv
    <3> QED BY <1>1, <2>1, <3>1, <3>3
  <2>4. ASSUME NEW c \in Calls, LaunchAcad(c) PROVE table'[p] = table[p]
    BY <1>1, <2>1, <2>4, LaunchHas DEF Free
  <2>5. CASE WaitStep \/ Launch \/ LinkReceipt \/ Call
    <3>1. table' = table
      BY <2>1, <2>5, WaitHas, StartHas, LinkHas, CallHas DEF machine
    <3> QED BY <3>1
  <2>6. ASSUME NEW q \in Pids, UserStep(q) PROVE table'[p] = table[p]
    <3>1. Free(q) /\ \A r \in Pids : r # q => table'[r] = table[r]
      BY <1>1, <2>1, <2>6, UserHas DEF UserStep, UserOpens
    <3> QED BY <1>1, <2>1, <3>1 DEF Free
  <2> QED BY <1>1, <2>2, <2>3, <2>4, <2>5, <2>6, Steps
<1>2. IInv /\ [Next]_vars =>
        [\/ \E p \in Pids : UserCloses(p)
         \/ \A p \in Pids : table[p] \in users => table'[p] = table[p]]_vars
  BY <1>1
<1> QED BY <1>2, Inductive, PTL DEF Spec, OnlyUsersClose
-----------------------------------------------------------------------------
\* The steps Python has before it at most, in a call.
PyLeft ==
  CASE py = "begin" -> 8
    [] py = "poll" -> IF seen THEN 6 ELSE 7
    [] py = "confirm" -> 5
    [] py = "link" -> 4
    [] py = "close" -> 3
    [] py = "judge" -> 2
    [] py = "inspect" -> 1
    [] OTHER -> 0

LEMMA ClosedFalls ==
  ASSUME NEW closed, NEW bad, LauncherClosed(closed, bad)
  PROVE  py' \in {closed, bad}
BY DEF LauncherClosed, Python

\* A call runs down: whatever the launcher, AutoCAD and the user do, each step of Python
\* takes from what it has left, and nothing else changes it, so that a call is at most
\* eight steps of Python and CallReturns asks only that Python goes on
\* (attended_apply_staged, run_attended_native_job).
THEOREM PythonRunsDown ==
  Spec => /\ [](PyLeft \in 0 .. 8 /\ (PyLeft = 0 <=> py \in {"idle", "ended"}))
          /\ [][py \notin {"idle", "ended"} => /\ PyStep => PyLeft' < PyLeft
                                               /\ ~PyStep => PyLeft' = PyLeft]_vars
<1>1. TypeOK => PyLeft \in 0 .. 8 /\ (PyLeft = 0 <=> py \in {"idle", "ended"})
  BY DEF TypeOK, PyLeft
<1>2. ASSUME TypeOK, PyStep PROVE PyLeft' < PyLeft
  <2>1. CASE Decline \/ PostInspect
    <3>1. py' = "ended" /\ py \in {"begin", "inspect"}
      BY <2>1 DEF Decline, PostInspect, Return
    <3> QED BY <3>1 DEF PyLeft
  <2>2. CASE Launch
    BY <2>2 DEF Launch, Python, PyLeft
  <2>3. CASE SeeCompletion
    <3>1. py = "poll" /\ py' = "poll" /\ ~seen /\ seen'
      BY <2>3 DEF SeeCompletion, Python
    <3> QED BY <3>1 DEF PyLeft
  <2>4. CASE SeeFinal \/ LauncherGone \/ OuterTimeout \/ YieldToLauncher \/ LinkReceipt
    <3>1. py \in {"poll", "confirm", "link"} /\ py' = "close"
      BY <2>4 DEF SeeFinal, LauncherGone, OuterTimeout, YieldToLauncher, LinkReceipt, Python
    <3> QED BY <3>1 DEF PyLeft
  <2>5. CASE Recover
    <3>1. py = "poll" /\ py' \in {"confirm", "close"}
      BY <2>5 DEF Recover, Python
    <3> QED BY <3>1 DEF PyLeft
  <2>6. CASE CloseHelper
    <3>1. py = "confirm" /\ py' \in {"link", "close"}
      BY <2>6, ClosedFalls DEF CloseHelper, HelperClosed
    <3> QED BY <3>1 DEF PyLeft
  <2>7. CASE Close
    <3>1. py = "close" /\ py' = "judge"
      BY <2>7, ClosedFalls DEF Close
    <3> QED BY <3>1 DEF PyLeft
  <2>8. CASE Judge
    <3>1. py = "judge" /\ py' \in {"ended", "inspect"}
      BY <2>8 DEF Judge, Return
    <3> QED BY <3>1 DEF PyLeft
  <2> QED BY <1>2, <2>1, <2>2, <2>3, <2>4, <2>5, <2>6, <2>7, <2>8 DEF PyStep
<1>3. ASSUME py \notin {"idle", "ended"}, [Next]_vars, ~PyStep PROVE PyLeft' = PyLeft
  <2>1. ~Call
    BY <1>3 DEF Call
  <2>2. UNCHANGED python
    <3>1. ASSUME NEW c \in Calls, LauncherStep(c) PROVE UNCHANGED python
      <4>1. CASE \/ Gate(c) \/ StartFails(c) \/ PollEnds(c) \/ GraceEnds(c) \/ DoNotStop(c)
                 \/ Recheck(c) \/ Collect(c) \/ LauncherExits(c) \/ LauncherDies(c)
        <5>1. \E l : Launcher(c, l)
          BY <4>1 DEF Gate, StartFails, PollEnds, GraceEnds, DoNotStop, Recheck, Collect,
                      LauncherExits, LauncherDies
        <5> QED BY <5>1 DEF Launcher
      <4>2. CASE LaunchAcad(c) \/ JobDone(c) \/ Stop(c) \/ TaskKill(c) \/ Publish(c)
        BY <4>2 DEF LaunchAcad, JobDone, Stop, TaskKill, Publish
      <4> QED BY <3>1, <4>1, <4>2 DEF LauncherStep
    <3>2. ASSUME NEW c \in Calls, AcadStep(c) PROVE UNCHANGED python
      BY <3>2 DEF AcadStep, Weaken, RunJob, Restore, Save, Quit, AcadDies, Script
    <3>3. ASSUME NEW p \in Pids, UserOpens(p) \/ UserCloses(p) PROVE UNCHANGED python
      BY <3>3 DEF UserOpens, UserCloses
    <3>4. CASE UNCHANGED vars
      BY <3>4 DEF vars
    <3> QED BY <1>3, <2>1, <3>1, <3>2, <3>3, <3>4 DEF Next
  <2> QED BY <2>2 DEF python, PyLeft
<1> QED BY <1>1, <1>2, <1>3, TypeCorrect, PTL DEF Spec
=============================================================================
