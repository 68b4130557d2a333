---------------------------- MODULE MCMomDaemon ----------------------------
(* Every configuration, with guests that all answer and with one that does *)
(* not, in one state space.                                                *)
EXTENDS MomDaemon

Either == {TRUE, FALSE}
=============================================================================
