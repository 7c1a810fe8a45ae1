----------------------------- MODULE PatchedCopy ----------------------------
(***************************************************************************)
(* What apply_staged promises about staged_output.dwg, whatever the lane   *)
(* and however many calls it takes.  Other programs may edit the original  *)
(* at any time.  An output, once it is there, always holds the whole patch *)
(* over some version of the original; "ok" is said only at a moment when   *)
(* that version is the original as it is now.                              *)
(***************************************************************************)
EXTENDS Naturals

CONSTANT N

VARIABLES
  original,  \* the version of the original drawing
  output,    \* staged_output.dwg: the version it was made from and its operations
  verdict    \* "open", "ok" or "stopped"

vars == <<original, output, verdict>>

\* Version v with operations 1 .. N, each once and in order.
Patched(v) == [base |-> v, ops |-> [i \in 1 .. N |-> i]]

Init == original = 1 /\ verdict = "open" /\ output = [base |-> 0, ops |-> << >>]

Edit == original' = original + 1 /\ UNCHANGED <<output, verdict>>

Publish ==
  /\ verdict = "open"
  /\ output' \in {Patched(v) : v \in 1 .. original}
  /\ UNCHANGED <<original, verdict>>

Accept ==
  /\ verdict = "open"
  /\ output = Patched(original)
  /\ verdict' = "ok"
  /\ UNCHANGED <<original, output>>

Stop == verdict = "open" /\ verdict' = "stopped" /\ UNCHANGED <<original, output>>

Retry == verdict # "open" /\ verdict' = "open" /\ UNCHANGED <<original, output>>

Next == Edit \/ Publish \/ Accept \/ Stop \/ Retry

Spec == Init /\ [][Next]_vars
=============================================================================
