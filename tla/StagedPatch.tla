----------------------------- MODULE StagedPatch ----------------------------
(***************************************************************************)
(* What the patch engine promises of a staged drawing, whatever processes  *)
(* carry it out: operations are persisted batch by batch, in patch order   *)
(* and each at most once; a batch is begun only on a drawing that holds    *)
(* all the earlier ones; "accepted" means that nothing is missing, and an  *)
(* accepted drawing does not change under its report.                      *)
(***************************************************************************)
EXTENDS Naturals, Sequences

CONSTANTS N, NB, Last

VARIABLES
  drawing,  \* the operations in the staged drawing
  verdict   \* "open" while the patch is being applied, "accepted" or "stopped"

vars == <<drawing, verdict>>

Whole(k) == [i \in 1 .. k |-> i]

Init == drawing = << >> /\ verdict = "open"

\* Some operations of batch b reach the disk together, the earlier batches being
\* there already.  A lane that stopped may still be followed by a late save.
Persist(b) ==
  /\ verdict # "accepted"
  /\ drawing = Whole(Last[b - 1])
  /\ Len(drawing') >= Len(drawing)
  /\ \A i \in 1 .. Len(drawing) : drawing'[i] = drawing[i]
  /\ \A i \in Len(drawing) + 1 .. Len(drawing') : drawing'[i] \in Last[b - 1] + 1 .. Last[b]
  /\ \A i, j \in 1 .. Len(drawing') : i < j => drawing'[i] < drawing'[j]
  /\ UNCHANGED verdict

Accept ==
  /\ verdict = "open"
  /\ drawing = Whole(N)
  /\ verdict' = "accepted"
  /\ UNCHANGED drawing

Stop ==
  /\ verdict = "open"
  /\ verdict' = "stopped"
  /\ UNCHANGED drawing

\* The caller tries again, on the drawing as it is or on a new copy.
Reopen ==
  /\ drawing' \in {drawing, << >>}
  /\ verdict' = "open"

Next == Accept \/ Stop \/ Reopen \/ \E b \in 1 .. NB : Persist(b)

Spec == Init /\ [][Next]_vars
=============================================================================
