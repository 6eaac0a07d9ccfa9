---------------------------- MODULE MCAuthQueue ----------------------------
(* More inputs than the channel holds. *)
EXTENDS AuthQueue

MCLinks == {"l1", "l2", "l3"}

MCResponses == {"m1", "m2"}
=============================================================================
