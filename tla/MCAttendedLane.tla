--------------------------- MODULE MCAttendedLane ---------------------------
(* The attended lane for TLC: which calls are made, and what they meet.     *)
EXTENDS AttendedLane, TLC

Job(k, f) == [kind |-> k, faults |-> f]

\* One call of either kind that may meet everything; two calls, the first of which may
\* leave processes behind.
LanePlans ==
  {<<Job("write", FaultKinds)>>, <<Job("read", FaultKinds)>>,
   <<Job("write", {"launcher_dies"}), Job("write", {})>>}

\* One undisturbed call that writes.
PlainPlans == {<<Job("write", {})>>}
=============================================================================
