------------------------------ MODULE MCLivePump ------------------------------
(***************************************************************************)
(* Instances of LivePump: clients that send up to three requests.          *)
(***************************************************************************)
EXTENDS LivePump

ClientPlans ==
  { <<"read">>, <<"stop">>, <<"read", "stop">>, <<"read", "read", "stop">>,
    <<"stop", "read">>, <<"read", "bad", "read">> }
=============================================================================
