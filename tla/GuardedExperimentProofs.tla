------------------------ MODULE GuardedExperimentProofs ------------------------
(* Theorems about GuardedExperiment, for any number of calls and of changes *)
(* by others.                                                              *)
EXTENDS GuardedExperiment, TLAPS

\* A handle is of one of the two files of its name, and a call that has seen the drawing,
\* or both, has bound one of them.
SlotInv ==
  /\ handle # NoFile => handle.slot \in Slots
  /\ pc = "preflight" /\ name = "probe" => bind["source"].slot \in Slots
  /\ pc \notin {"preflight", "ended"} => \A n \in Names : bind[n].slot \in Slots
  /\ pc # "ended" => calls # 0

\* Once a bound call has qualified its probe, what it saw stays qualified, and while its
\* command runs both files are held and are what it saw.
HeldInv ==
  /\ pc \in {"revalidate", "lock"} => bound
  /\ pc \in {"marker", "revalidate", "lock", "run", "recheck"} /\ bound
       => bind["probe"].content = bind["source"].content
  /\ pc \in {"run", "recheck"} /\ bound =>
       \A n \in Names : Canonical(n) \in locked /\ slot[Canonical(n)].content = bind[n].content

\* What is about to be persisted as a success is one, and a call that goes on has
\* persisted nothing.
EarnedInv ==
  /\ pc = "persist" /\ Authorized => calls \in earned
  /\ pc # "ended" => ~outcome.persisted

IInv == TypeOK /\ SlotInv /\ HeldInv /\ EarnedInv /\ ReceiptIsTrue

-----------------------------------------------------------------------------
LEMMA InitInv == Init => IInv
<1> SUFFICES ASSUME Init PROVE IInv
  OBVIOUS
<1>1. 0 \in 0 .. MaxEdits /\ 0 \in 0 .. MaxCalls
  BY GuardAssumption
<1>2. /\ slot \in [Names \X Slots -> [ident : 0 .. MaxEdits, content : Contents]]
      /\ NoFile \in Seen
      /\ disk \in [call : 0 .. MaxCalls, phase : {"none", "PREFLIGHT", "TERMINAL"},
                   success : BOOLEAN]
      /\ outcome \in [success : BOOLEAN, persisted : BOOLEAN]
  BY <1>1 DEF Init, NoFile, Seen, Outcome
<1>3. TypeOK
  BY <1>1, <1>2 DEF Init, TypeOK, Slots, Names
<1>4. SlotInv /\ HeldInv /\ EarnedInv /\ ReceiptIsTrue
  BY DEF Init, SlotInv, HeldInv, EarnedInv, ReceiptIsTrue, Outcome
<1> QED BY <1>3, <1>4 DEF IInv

\* Where a path leads and what a handle reads.
LEMMA SeenTyped ==
  ASSUME TypeOK
  PROVE  /\ \A n \in Names, s \in Slots : /\ slot[<<n, s>>].ident \in 0 .. MaxEdits
                                          /\ slot[<<n, s>>].content \in Contents
         /\ handle # NoFile /\ handle.slot \in Slots => \A c \in Reads : c \in {0, 1, 2}
<1>1. \A n \in Names, s \in Slots : slot[<<n, s>>] \in [ident : 0 .. MaxEdits, content : Contents]
  BY DEF TypeOK
<1>2. handle \in Seen /\ name \in Names
  BY DEF TypeOK
<1> QED BY <1>1, <1>2 DEF Reads, Seen, Contents

LEMMA NextType ==
  ASSUME TypeOK, SlotInv, [Next]_vars
  PROVE  TypeOK'
<1> USE DEF world, call
<1>0. MaxEdits \in Nat /\ MaxCalls \in Nat
  BY GuardAssumption
<1>1. ASSUME NEW n \in Names, NEW s \in Slots, Edit(n, s) PROVE TypeOK'
  <2>1. PICK c \in Contents, i \in {slot[<<n, s>>].ident, edits + 1} :
          slot' = [slot EXCEPT ![<<n, s>>] = [ident |-> i, content |-> c]]
    BY <1>1 DEF Edit
  <2>2. edits + 1 \in 0 .. MaxEdits
    BY <1>0, <1>1 DEF Edit, TypeOK
  <2>3. i \in 0 .. MaxEdits
    BY <2>1, <2>2, SeenTyped
  <2>4. [ident |-> i, content |-> c] \in [ident : 0 .. MaxEdits, content : Contents]
    BY <2>3
  <2>5. slot' \in [Names \X Slots -> [ident : 0 .. MaxEdits, content : Contents]]
    BY <2>1, <2>4 DEF TypeOK
  <2> QED BY <1>1, <2>2, <2>5 DEF Edit, TypeOK
<1>2. ASSUME NEW n \in Names, Retarget(n) PROVE TypeOK'
  <2>1. edits' \in 0 .. MaxEdits
    BY <1>0, <1>2 DEF Retarget, TypeOK
  <2>2. link' \in [Names -> Slots]
    BY <1>2 DEF Retarget, TypeOK, Slots
  <2> QED BY <1>2, <2>1, <2>2 DEF Retarget, TypeOK
<1>3. CASE Start
  <2>1. calls' \in 0 .. MaxCalls /\ calls < calls'
    BY <1>0, <1>3 DEF Start, TypeOK
  <2>2. earned' \subseteq 1 .. calls'
    BY <1>0, <1>3, <2>1 DEF Start, TypeOK
  <2>3. NoFile \in Seen
    BY <1>0 DEF NoFile, Seen
  <2> QED BY <1>3, <2>1, <2>2, <2>3 DEF Start, TypeOK, Names, Outcome
<1>4. CASE SnapshotOpens
  <2>1. link[name] \in Slots /\ name \in Names
    BY DEF TypeOK
  <2>2. handle' \in Seen
    BY <1>4, <2>1, SeenTyped DEF SnapshotOpens, Seen, Slots, Contents
  <2> QED BY <1>4, <2>2 DEF SnapshotOpens, TypeOK
<1>5. CASE PreflightSees
  <2>1. PICK c \in Reads : bind' = [bind EXCEPT ![name] = [handle EXCEPT !.content = c]]
    BY <1>5 DEF PreflightSees
  <2>2. c \in {0, 1, 2}
    BY <1>5, <2>1, SeenTyped DEF PreflightSees, SlotInv
  <2>3. [handle EXCEPT !.content = c] \in Seen
    BY <2>2 DEF TypeOK, Seen
  <2>4. bind' \in [Names -> Seen]
    BY <2>1, <2>3 DEF TypeOK
  <2>5. NoFile \in Seen
    BY <1>0 DEF NoFile, Seen
  <2> QED BY <1>5, <2>4, <2>5 DEF PreflightSees, Taken, TypeOK, Names
<1>6. CASE Refuse
  BY <1>6 DEF Refuse, TypeOK
<1>7. CASE Conflict \/ Decide \/ MarkerFails \/ PersistFails
  BY <1>7 DEF Conflict, Decide, MarkerFails, PersistFails, Go, TypeOK
<1>8. CASE WriteMarker
  <2>1. disk' \in [call : 0 .. MaxCalls, phase : {"none", "PREFLIGHT", "TERMINAL"},
                   success : BOOLEAN]
    BY <1>8 DEF WriteMarker, MarkerWritten, Receipt, TypeOK
  <2> QED BY <1>8, <2>1 DEF WriteMarker, TypeOK
<1>9. CASE Revalidate
  <2>1. NoFile \in Seen
    BY <1>0 DEF NoFile, Seen
  <2>2. valid' \in BOOLEAN
    BY <1>9 DEF Revalidate
  <2>3. /\ pc' \in {"revalidate", "lock", "persist"} /\ name' \in Names /\ handle' = NoFile
        /\ UNCHANGED <<world, disk, call, exit, outcome, earned>>
    BY <1>9 DEF Revalidate, Taken, Names
  <2>4. locked = {}
    BY <1>9 DEF Revalidate, TypeOK
  <2> QED BY <2>1, <2>2, <2>3, <2>4 DEF TypeOK
<1>10. CASE Lock
  <2>1. pc = "lock" /\ bind \in [Names -> Seen]
    BY <1>10 DEF Lock, TypeOK
  <2>2. PICK n \in Names : locked' = locked \cup {Canonical(n)}
    BY <1>10 DEF Lock
  <2>3. locked' \subseteq Names \X Slots
    BY <1>10, <2>1, <2>2 DEF TypeOK, SlotInv, Canonical
  <2> QED BY <1>10, <2>3 DEF Lock, TypeOK
<1>11. CASE LockHolds
  BY <1>11 DEF LockHolds, Go, TypeOK
<1>12. CASE LockFails
  BY <1>12 DEF LockFails, TypeOK
<1>13. CASE CommandEnds
  BY <1>13 DEF CommandEnds, TypeOK
<1>14. CASE Recheck
  <2>1. calls \in 1 .. calls /\ earned' \subseteq earned \cup {calls}
    BY <1>0, <1>14 DEF Recheck, TypeOK, SlotInv
  <2> QED BY <1>14, <2>1 DEF Recheck, TypeOK
<1>15. CASE Persist
  BY <1>15 DEF Persist, Receipt, Outcome, Authorized, TypeOK
<1>16. CASE Crash
  BY <1>16 DEF Crash, TypeOK
<1>17. CASE UNCHANGED vars
  BY <1>17 DEF vars, TypeOK
<1> QED BY <1>1, <1>2, <1>3, <1>4, <1>5, <1>6, <1>7, <1>8, <1>9, <1>10, <1>11, <1>12, <1>13,
           <1>14, <1>15, <1>16, <1>17 DEF Next, Guard

-----------------------------------------------------------------------------
(* One lemma for each part of the invariant.                                *)

\* What others do reaches neither the call nor the files it holds.
LEMMA OthersSteps ==
  ASSUME TypeOK, NEW n \in Names, Retarget(n) \/ \E s \in Slots : Edit(n, s)
  PROVE  /\ UNCHANGED <<locked, disk, pc, call, name, handle, valid, exit, outcome, earned>>
         /\ \A f \in locked : slot'[f].content = slot[f].content
<1>1. CASE Retarget(n)
  BY <1>1 DEF Retarget
<1>2. ASSUME NEW s \in Slots, Edit(n, s)
      PROVE  /\ UNCHANGED <<locked, disk, pc, call, name, handle, valid, exit, outcome, earned>>
             /\ \A f \in locked : slot'[f].content = slot[f].content
  <2>1. \A f \in locked : f # <<n, s>> /\ f \in Names \X Slots
    BY <1>2 DEF Edit, TypeOK
  <2>2. PICK e : slot' = [slot EXCEPT ![<<n, s>>] = e]
    BY <1>2 DEF Edit
  <2>3. \A f \in locked : slot'[f] = slot[f]
    BY <2>1, <2>2 DEF TypeOK
  <2> QED BY <1>2, <2>3 DEF Edit
<1> QED BY <1>1, <1>2

LEMMA SlotNext ==
  ASSUME TypeOK, SlotInv, [Next]_vars
  PROVE  SlotInv'
<1> USE DEF world, call
<1>1. ASSUME NEW n \in Names, Retarget(n) \/ \E s \in Slots : Edit(n, s) PROVE SlotInv'
  BY <1>1, OthersSteps DEF SlotInv
<1>2. CASE Start
  <2>1. calls' # 0
    BY <1>2 DEF Start, TypeOK
  <2> QED BY <1>2, <2>1 DEF Start, SlotInv
<1>3. CASE SnapshotOpens
  <2>1. link[name] \in Slots
    BY DEF TypeOK
  <2> QED BY <1>3, <2>1 DEF SnapshotOpens, SlotInv
<1>4. CASE PreflightSees
  <2>1. PICK c \in Reads : bind' = [bind EXCEPT ![name] = [handle EXCEPT !.content = c]]
    BY <1>4 DEF PreflightSees
  <2>2. handle.slot \in Slots /\ handle \in Seen /\ name \in Names
    BY <1>4 DEF PreflightSees, SlotInv, TypeOK
  <2>3. bind'[name].slot \in Slots /\ \A n \in Names : n # name => bind'[n] = bind[n]
    BY <2>1, <2>2 DEF TypeOK, Seen
  <2>4. CASE name = "source"
    BY <1>4, <2>3, <2>4 DEF PreflightSees, Taken, SlotInv
  <2>5. CASE name = "probe"
    BY <1>4, <2>3, <2>5 DEF PreflightSees, Taken, SlotInv, Names
  <2> QED BY <2>2, <2>4, <2>5 DEF Names
<1>5. CASE Revalidate
  BY <1>5 DEF Revalidate, Taken, SlotInv
<1>6. CASE Refuse \/ Conflict \/ Decide \/ WriteMarker \/ MarkerFails \/ Lock \/ LockHolds \/ LockFails
           \/ CommandEnds \/ Recheck \/ Persist \/ PersistFails \/ Crash \/ UNCHANGED vars
  <2>1. /\ UNCHANGED <<handle, name, bind, calls>>
        /\ pc' = "preflight" => pc = "preflight"
        /\ pc' \notin {"preflight", "ended"} => pc \notin {"preflight", "ended"}
    BY <1>6 DEF Refuse, Conflict, Decide, WriteMarker, MarkerFails, Lock, LockHolds, LockFails,
                CommandEnds, Recheck, Persist, PersistFails, Crash, Go, vars
  <2> QED BY <2>1 DEF SlotInv
<1> QED BY <1>1, <1>2, <1>3, <1>4, <1>5, <1>6 DEF Next, Guard

LEMMA HeldNext ==
  ASSUME TypeOK, SlotInv, HeldInv, [Next]_vars
  PROVE  HeldInv'
<1> USE DEF world, call
<1>1. ASSUME NEW n \in Names, Retarget(n) \/ \E s \in Slots : Edit(n, s) PROVE HeldInv'
  BY <1>1, OthersSteps DEF HeldInv, Canonical
<1>2. CASE Start \/ PreflightSees \/ Crash
  BY <1>2 DEF Start, PreflightSees, Taken, Crash, HeldInv
<1>3. CASE Decide
  BY <1>3 DEF Decide, Ready, Go, HeldInv
<1>4. CASE WriteMarker
  BY <1>4 DEF WriteMarker, HeldInv
<1>5. CASE Revalidate
  BY <1>5 DEF Revalidate, Taken, HeldInv
<1>6. CASE Lock
  BY <1>6 DEF Lock, HeldInv
<1>7. CASE LockHolds
  BY <1>7 DEF LockHolds, StillBound, Go, Canonical, HeldInv
<1>8. CASE SnapshotOpens
  BY <1>8 DEF SnapshotOpens, HeldInv, Canonical
<1>9. CASE CommandEnds
  BY <1>9 DEF CommandEnds, HeldInv, Canonical
<1>10. CASE Refuse \/ Conflict \/ MarkerFails \/ LockFails \/ Recheck \/ Persist \/ PersistFails
  BY <1>10 DEF Refuse, Conflict, MarkerFails, LockFails, Recheck, Persist, PersistFails, Go, HeldInv
<1>11. CASE UNCHANGED vars
  BY <1>11 DEF vars, HeldInv, Canonical
<1> QED BY <1>1, <1>2, <1>3, <1>4, <1>5, <1>6, <1>7, <1>8, <1>9, <1>10, <1>11 DEF Next, Guard

LEMMA EarnedNext ==
  ASSUME TypeOK, EarnedInv, [Next]_vars
  PROVE  EarnedInv'
<1> USE DEF world, call
<1>1. ASSUME NEW n \in Names, Retarget(n) \/ \E s \in Slots : Edit(n, s) PROVE EarnedInv'
  BY <1>1, OthersSteps DEF EarnedInv, Authorized
<1>2. CASE Start \/ Refuse \/ LockFails
  BY <1>2 DEF Start, Refuse, LockFails, EarnedInv, Authorized, Outcome
<1>3. CASE PreflightSees \/ SnapshotOpens \/ Conflict \/ Decide \/ WriteMarker \/ MarkerFails \/ Lock
           \/ LockHolds \/ PersistFails \/ Crash
  BY <1>3 DEF PreflightSees, Taken, SnapshotOpens, Conflict, Decide, WriteMarker, MarkerFails, Lock,
              LockHolds, PersistFails, Crash, Go, EarnedInv
<1>4. CASE Revalidate
  <2>1. pc' = "persist" => valid' = FALSE
    BY <1>4 DEF Revalidate, Taken
  <2> QED BY <1>4, <2>1 DEF Revalidate, EarnedInv, Authorized
<1>5. CASE CommandEnds
  BY <1>5 DEF CommandEnds, EarnedInv
<1>6. CASE Recheck
  BY <1>6 DEF Recheck, EarnedInv, Authorized
<1>7. CASE Persist
  BY <1>7 DEF Persist, EarnedInv
<1>8. CASE UNCHANGED vars
  BY <1>8 DEF vars, EarnedInv, Authorized
<1> QED BY <1>1, <1>2, <1>3, <1>4, <1>5, <1>6, <1>7, <1>8 DEF Next, Guard

LEMMA TrueNext ==
  ASSUME TypeOK, EarnedInv, ReceiptIsTrue, [Next]_vars
  PROVE  ReceiptIsTrue'
<1> USE DEF world, call
<1>1. ASSUME NEW n \in Names, Retarget(n) \/ \E s \in Slots : Edit(n, s) PROVE ReceiptIsTrue'
  BY <1>1, OthersSteps DEF ReceiptIsTrue
<1>2. CASE WriteMarker
  <2>1. disk'.call = calls /\ disk'.phase = "PREFLIGHT" /\ disk'.success = FALSE /\ calls' = calls
    BY <1>2 DEF WriteMarker, MarkerWritten, Receipt
  <2> QED BY <1>2, <2>1 DEF WriteMarker, ReceiptIsTrue
<1>3. CASE Persist
  <2>1. /\ disk'.call = calls /\ disk'.success = Authorized
        /\ outcome'.success = Authorized /\ outcome'.persisted = TRUE /\ pc' = "ended"
        /\ UNCHANGED <<calls, earned>>
    BY <1>3 DEF Persist, Receipt, Outcome
  <2>2. Authorized => calls \in earned
    BY <1>3 DEF Persist, EarnedInv
  <2> QED BY <2>1, <2>2 DEF ReceiptIsTrue
<1>4. CASE Recheck
  <2>1. earned \subseteq earned' /\ UNCHANGED <<disk, calls, outcome>> /\ pc' = "persist"
    BY <1>4 DEF Recheck
  <2> QED BY <2>1 DEF ReceiptIsTrue
<1>5. CASE Start
  BY <1>5 DEF Start, Outcome, ReceiptIsTrue
<1>6. CASE Revalidate \/ Lock \/ LockHolds \/ CommandEnds \/ SnapshotOpens
  <2>1. UNCHANGED <<disk, calls, outcome, earned>> /\ pc' # "ended"
        /\ (pc' \in {"revalidate", "lock", "run", "recheck"} => pc \in {"revalidate", "lock", "run", "recheck"})
    BY <1>6 DEF Revalidate, Taken, Lock, LockHolds, CommandEnds, SnapshotOpens, Go
  <2> QED BY <2>1 DEF ReceiptIsTrue
<1>7. CASE PreflightSees \/ Refuse \/ Conflict \/ Decide \/ MarkerFails \/ LockFails \/ PersistFails \/ Crash
  <2>1. UNCHANGED <<disk, calls, outcome, earned>> /\ ~outcome.persisted
        /\ pc' \notin {"revalidate", "lock", "run", "recheck"}
    BY <1>7 DEF PreflightSees, Taken, Refuse, Conflict, Decide, MarkerFails, LockFails, PersistFails,
                Crash, Go, EarnedInv
  <2> QED BY <2>1 DEF ReceiptIsTrue
<1>8. CASE UNCHANGED vars
  BY <1>8 DEF vars, ReceiptIsTrue
<1> QED BY <1>1, <1>2, <1>3, <1>4, <1>5, <1>6, <1>7, <1>8 DEF Next, Guard

-----------------------------------------------------------------------------
THEOREM Inductive == Spec => []IInv
<1>1. IInv /\ [Next]_vars => IInv'
  BY NextType, SlotNext, HeldNext, EarnedNext, TrueNext DEF IInv
<1> QED BY <1>1, InitInv, PTL DEF Spec

(* Every variable keeps its type, and files are held only from the lock to  *)
(* the recheck (run_guarded).                                               *)
THEOREM TypeCorrect == Spec => []TypeOK
<1>1. IInv => TypeOK
  BY DEF IInv
<1> QED BY <1>1, Inductive, PTL

(* While the command of a bound call runs, the drawing and the probe are    *)
(* what the preflight hashed, whatever others do (_lock_bound_evidence).    *)
THEOREM Held == Spec => []EvidenceHeld
<1>1. IInv => EvidenceHeld
  BY DEF IInv, HeldInv, EvidenceHeld, Names
<1> QED BY <1>1, Inductive, PTL

(* A receipt of success was earned by its call, none is there while a       *)
(* command runs, and what is said to be persisted is (_persist_terminal).   *)
THEOREM ReceiptTrue == Spec => []ReceiptIsTrue
<1>1. IInv => ReceiptIsTrue
  BY DEF IInv
<1> QED BY <1>1, Inductive, PTL
=============================================================================
