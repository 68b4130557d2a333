---------------------------- MODULE MCDdControl -----------------------------
(* Small instances of DdControl. *)
EXTENDS DdControl

CONSTANTS MaxHostFree,  \* bound of what stale samples credit
          Busy          \* the guest that needs most of the memory

OneStepPolicy ==
  {[grow_threshold |-> 8, shrink_threshold |-> 6, grow_step |-> 2, shrink_step |-> 1]}

(* change_policy.sh: growth to 60 % use, shrinking to 30 % use.             *)
WideRefPolicy ==
  {[grow_threshold |-> 6, shrink_threshold |-> 3, grow_ref |-> 6, shrink_ref |-> 3]}

AllRuleFiles == Bounded \cup
  {"ovirt-balloon-qos", "kvm_autoballoon", "Hyper-V-dynamic-memory", "opt_select"}

OneBusyGuest == [g \in Guests |-> IF g = Busy THEN 28 ELSE 14]

(* Three of the files leave balloon_min .. balloon_max, this far here.      *)
SizeBound == \A g \in Guests : qtarget[g] \in BalloonMin - 1 .. BalloonMax + 1

(* Only opt_select.rules reads parameters.txt.                              *)
ParamsMatter == rules # "opt_select" => params.type = "step"

HostFreeBound == hostFree \in -1 .. MaxHostFree
=============================================================================
