-------------------------- MODULE MCBalloonControl --------------------------
(***************************************************************************)
(* Small instances of BalloonControl.  One memory unit stands for about    *)
(* 50 MB in the step instances.                                            *)
(***************************************************************************)
EXTENDS BalloonControl

CONSTANT MaxHostFree  \* bound: a stale sample can credit host_free.txt for
                      \* ever, a stale average can overdraw it

OneStepPolicy ==
  {[grow_threshold |-> 8, shrink_threshold |-> 6, grow_step |-> 2, shrink_step |-> 1]}

OneRefPolicy ==
  {[grow_threshold |-> 9, shrink_threshold |-> 3, grow_ref |-> 9, shrink_ref |-> 3]}

GuestSymmetry == Permutations(Guests)

HostFreeBound == hostFree \in -MaxHostFree .. MaxHostFree
=============================================================================
