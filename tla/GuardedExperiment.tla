--------------------------- MODULE GuardedExperiment ---------------------------
(***************************************************************************)
(* tools/e2/run_guarded_experiment.py: run_guarded starts a command only    *)
(* when a probe qualifies the instrument, and authorizes its success only  *)
(* when the source drawing and the probe file were the same, byte for      *)
(* byte, from the preflight to the end of the command.                     *)
(*                                                                         *)
(* Both are reached through a requested path that leads to one of two      *)
(* files; others may write these files, replace them and lead the path     *)
(* elsewhere at any moment, except that a file opened without sharing      *)
(* (CreateFileW with FILE_SHARE_READ) is neither written nor replaced.     *)
(***************************************************************************)
EXTENDS Naturals, FiniteSets

CONSTANTS
  MaxEdits,  \* bound on what others do to the files
  MaxCalls   \* bound on the calls

ASSUME GuardAssumption == MaxEdits \in Nat /\ MaxCalls \in Nat

Names == {"source", "probe"}
Slots == {1, 2}

\* A drawing has one of two contents, and a probe qualifies one of them.
Contents == {1, 2}

VARIABLES
  link,     \* per name: the file its requested path leads to
  slot,     \* per name and file: its content and its identity (file index, size, times)
  locked,   \* files open without sharing
  edits,    \* what others have done
  disk,     \* the receipt at receipt_path
  pc,       \* the call
  calls,    \* calls made
  bound,    \* source_binding_required
  name,     \* whose snapshot is being taken
  handle,   \* what the snapshot has opened
  bind,     \* evidence binding: per name, what the preflight saw
  valid,    \* no reason against it so far
  exit,     \* what came of the command
  outcome,  \* what the call returned: success, and whether it was persisted
  earned    \* history: calls whose command succeeded on valid evidence

world == <<link, slot, locked, edits>>
call == <<calls, bound, bind>>
vars == <<world, disk, pc, call, name, handle, valid, exit, outcome, earned>>

NoFile == [slot |-> 0, ident |-> 0, content |-> 0]

Receipt(phase, success) == [call |-> calls, phase |-> phase, success |-> success]

Outcome(success, persisted) == [success |-> success, persisted |-> persisted]

Init ==
  /\ link = [n \in Names |-> 1]
  /\ slot \in [Names \X Slots -> [ident : {0}, content : Contents]]
  /\ locked = {} /\ edits = 0
  /\ disk = [call |-> 0, phase |-> "none", success |-> FALSE]
  /\ pc = "ended" /\ calls = 0 /\ bound = FALSE
  /\ name = "source" /\ handle = NoFile /\ bind = [n \in Names |-> NoFile]
  /\ valid = TRUE /\ exit = "none" /\ outcome = Outcome(FALSE, FALSE) /\ earned = {}

-----------------------------------------------------------------------------
(* Others.                                                                 *)

\* Written or replaced; what is written may be what was there, and times may be set back.
Edit(n, s) ==
  /\ edits < MaxEdits /\ <<n, s>> \notin locked
  /\ \E c \in Contents, i \in {slot[<<n, s>>].ident, edits + 1} :
       slot' = [slot EXCEPT ![<<n, s>>] = [ident |-> i, content |-> c]]
  /\ edits' = edits + 1
  /\ UNCHANGED <<link, locked, disk, pc, call, name, handle, valid, exit, outcome, earned>>

Retarget(n) ==
  /\ edits < MaxEdits
  /\ link' = [link EXCEPT ![n] = 3 - @]
  /\ edits' = edits + 1
  /\ UNCHANGED <<slot, locked, disk, pc, call, name, handle, valid, exit, outcome, earned>>

-----------------------------------------------------------------------------
(* run_guarded.                                                            *)

\* The call goes on at p; nothing else of it changes.
Go(p) ==
  /\ pc' = p
  /\ UNCHANGED <<world, disk, call, name, handle, valid, exit, outcome, earned>>

Start ==
  /\ pc = "ended" /\ calls < MaxCalls
  /\ calls' = calls + 1 /\ bound' \in BOOLEAN
  /\ pc' = "preflight" /\ name' = "source" /\ handle' = NoFile
  /\ bind' = [n \in Names |-> NoFile] /\ valid' = TRUE /\ exit' = "none"
  /\ outcome' = Outcome(FALSE, FALSE)
  /\ UNCHANGED <<world, disk, earned>>

\* _snapshot_file: where the path leads, then one open handle for identity and bytes ...
SnapshotOpens ==
  /\ pc \in {"preflight", "revalidate"} /\ handle = NoFile
  /\ handle' = [slot |-> link[name],
                ident |-> slot[<<name, link[name]>>].ident,
                content |-> slot[<<name, link[name]>>].content]
  /\ UNCHANGED <<world, disk, pc, call, name, valid, exit, outcome, earned>>

\* What the handle reads now: the file may have been written since, or replaced.
Reads ==
  {handle.content, slot[<<name, handle.slot>>].content}

\* The snapshot of name is taken; the one of the probe follows that of the source.
Taken(after) ==
  /\ handle' = NoFile
  /\ IF name = "source" THEN name' = "probe" /\ pc' = pc
     ELSE name' = "source" /\ pc' = after

\* ... whose bytes are bound.  That the path has moved on meanwhile is noted, no more.
PreflightSees ==
  /\ pc = "preflight" /\ handle # NoFile
  /\ \E c \in Reads : bind' = [bind EXCEPT ![name] = [handle EXCEPT !.content = c]]
  /\ Taken("decide")
  /\ UNCHANGED <<world, disk, calls, bound, valid, exit, outcome, earned>>

\* qualify and verify_probe: a bound call needs a probe of the hashed drawing.
Ready == bound => bind["probe"].content = bind["source"].content

\* Not ready, no command, a command that is not allowed, or downstream learning, which
\* is never started: a terminal receipt.
Refuse ==
  /\ pc = "decide"
  /\ pc' = "persist" /\ valid' = FALSE
  /\ UNCHANGED <<world, disk, call, name, handle, exit, outcome, earned>>

\* The receipt path aliases evidence: nothing is written.
Conflict ==
  /\ pc = "decide"
  /\ Go("ended")

Decide ==
  /\ pc = "decide" /\ Ready
  /\ Go("marker")

\* Variant: the marker does not take the place of a receipt.
MarkerIfNone == IF disk.phase = "none" THEN Receipt("PREFLIGHT", FALSE) ELSE disk

\* The preflight marker replaces the receipt of an earlier call.
MarkerWritten == Receipt("PREFLIGHT", FALSE)

WriteMarker ==
  /\ pc = "marker"
  /\ disk' = MarkerWritten
  /\ pc' = IF bound THEN "revalidate" ELSE "run"
  /\ UNCHANGED <<world, call, name, handle, valid, exit, outcome, earned>>

\* os.replace or a write before it fails: the earlier receipt stays, the command is not run.
MarkerFails ==
  /\ pc = "marker"
  /\ Go("ended")

\* _revalidate_one: every facet of the binding.
Revalidate ==
  /\ pc = "revalidate" /\ handle # NoFile
  /\ \E c \in Reads :
       valid' = (/\ valid
                 /\ bind[name] = [handle EXCEPT !.content = c]
                 /\ link[name] = handle.slot)
  /\ Taken(IF valid' THEN "lock" ELSE "persist")
  /\ UNCHANGED <<world, disk, call, exit, outcome, earned>>

Canonical(n) == <<n, bind[n].slot>>

\* _lock_bound_evidence opens the two canonical files, one after the other ...
Lock ==
  /\ pc = "lock" /\ ~(\A n \in Names : Canonical(n) \in locked)
  /\ \E n \in Names :
       /\ Canonical(n) \notin locked /\ (n = "probe" => Canonical("source") \in locked)
       /\ locked' = locked \cup {Canonical(n)}
  /\ UNCHANGED <<link, slot, edits, disk, pc, call, name, handle, valid, exit, outcome,
                 earned>>

\* Variant: the file index and the times are compared, the bytes are not read again.
SameIdentity(n) ==
  link[n] = bind[n].slot /\ slot[Canonical(n)].ident = bind[n].ident

\* ... and compares path, bytes and identity.
StillBound(n) ==
  /\ link[n] = bind[n].slot
  /\ slot[Canonical(n)].content = bind[n].content
  /\ slot[Canonical(n)].ident = bind[n].ident

LockHolds ==
  /\ pc = "lock" /\ \A n \in Names : Canonical(n) \in locked /\ StillBound(n)
  /\ Go("run")

\* Variant: the files are not closed when the lock fails.
LockFailsOpen ==
  /\ pc = "lock"
  /\ valid' = FALSE /\ pc' = "persist"
  /\ UNCHANGED <<world, disk, call, name, handle, exit, outcome, earned>>

\* A file that someone writes cannot be opened; what has changed is let go.
LockFails ==
  /\ pc = "lock"
  /\ locked' = {} /\ valid' = FALSE /\ pc' = "persist"
  /\ UNCHANGED <<link, slot, edits, disk, call, name, handle, exit, outcome, earned>>

\* The command returns, or the runner raises.
CommandEnds ==
  /\ pc = "run"
  /\ exit' \in {"success", "failure", "raised"}
  /\ pc' = "recheck"
  /\ UNCHANGED <<world, disk, call, name, handle, valid, outcome, earned>>

\* _revalidate_locked_evidence: the same handles; times are left out of the identity.
Recheck ==
  /\ pc = "recheck"
  /\ valid' = (bound => \A n \in Names :
                 link[n] = bind[n].slot /\ slot[Canonical(n)].content = bind[n].content)
  /\ locked' = {} /\ pc' = "persist"
  /\ earned' = IF exit = "success" /\ valid' THEN earned \cup {calls} ELSE earned
  /\ UNCHANGED <<link, slot, edits, disk, call, name, handle, exit, outcome>>

\* AUTHORIZED_SUCCESS.
Authorized == valid /\ exit = "success"

\* _persist_terminal.
Persist ==
  /\ pc = "persist"
  /\ disk' = Receipt("TERMINAL", Authorized) /\ outcome' = Outcome(Authorized, TRUE)
  /\ pc' = "ended"
  /\ UNCHANGED <<world, call, name, handle, valid, exit, earned>>

\* RECEIPT_WRITE_FAILED takes the success back.
PersistFails ==
  /\ pc = "persist"
  /\ Go("ended")

Crash ==
  /\ pc # "ended"
  /\ pc' = "ended" /\ locked' = {}
  /\ UNCHANGED <<link, slot, edits, disk, call, name, handle, valid, exit, outcome, earned>>

Guard ==
  \/ Start \/ SnapshotOpens \/ PreflightSees \/ Refuse \/ Conflict \/ Decide
  \/ WriteMarker \/ MarkerFails \/ Revalidate \/ Lock \/ LockHolds \/ LockFails
  \/ CommandEnds \/ Recheck \/ Persist \/ PersistFails \/ Crash

Next ==
  \/ Guard
  \/ \E n \in Names : Retarget(n) \/ \E s \in Slots : Edit(n, s)

Spec == Init /\ [][Next]_vars

-----------------------------------------------------------------------------
Seen == [slot : {0, 1, 2}, ident : 0 .. MaxEdits, content : {0, 1, 2}]

\* The type of every variable; files are held only between the lock and the recheck.
TypeOK ==
  /\ link \in [Names -> Slots]
  /\ slot \in [Names \X Slots -> [ident : 0 .. MaxEdits, content : Contents]]
  /\ locked \subseteq Names \X Slots /\ edits \in 0 .. MaxEdits
  /\ disk \in [call : 0 .. MaxCalls, phase : {"none", "PREFLIGHT", "TERMINAL"},
               success : BOOLEAN]
  /\ pc \in {"preflight", "decide", "marker", "revalidate", "lock", "run", "recheck",
             "persist", "ended"}
  /\ calls \in 0 .. MaxCalls /\ bound \in BOOLEAN /\ name \in Names
  /\ handle \in Seen /\ bind \in [Names -> Seen] /\ valid \in BOOLEAN
  /\ exit \in {"none", "success", "failure", "raised"}
  /\ outcome \in [success : BOOLEAN, persisted : BOOLEAN]
  /\ earned \subseteq 1 .. calls
  /\ locked # {} => pc \in {"lock", "run", "recheck"}

\* While the command of a bound call runs, the drawing and the probe are what the
\* preflight hashed, and the probe is one of this drawing, whatever others did between
\* the preflight and the lock (locked open handles held through the runner).
EvidenceHeld ==
  pc \in {"run", "recheck"} /\ bound =>
    /\ \A n \in Names : slot[Canonical(n)].content = bind[n].content
    /\ slot[Canonical("probe")].content = slot[Canonical("source")].content

\* A receipt that says success is that of a call that earned it; while a command runs
\* there is none, so that a crash leaves none (a preflight marker must never look like a
\* terminal result); and what a call says it persisted is there.
ReceiptIsTrue ==
  /\ disk.success => disk.call \in earned
  /\ pc \in {"revalidate", "lock", "run", "recheck"} =>
       disk.call = calls /\ disk.phase = "PREFLIGHT" /\ ~disk.success
  /\ pc = "ended" /\ outcome.persisted =>
       disk.call = calls /\ disk.success = outcome.success
=============================================================================
