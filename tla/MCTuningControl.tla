-------------------------- MODULE MCTuningControl ---------------------------
(* TLC instance of TuningControl.                                          *)
EXTENDS TuningControl, TLC

CONSTANT half

RoundedDown == half :> 0

(* A period and a KSM setting the policy only switches on, I/O and a quota *)
(* it changes at will.                                                     *)
SomeWishes ==
  [t \in Tunables |-> CASE t = "quota" -> {1, half} [] t = "io" -> {0, 1} [] OTHER -> {1}]
=============================================================================
