--------------------------- MODULE BalloonPolicy ---------------------------
(***************************************************************************)
(* The arithmetic of the opt_* balloon policies (mom/Entity.py): how the   *)
(* statistics history of one guest, the amount in host_free.txt and the    *)
(* parameters of rules_command/parameters.txt give the guest's next        *)
(* balloon target.                                                         *)
(*                                                                         *)
(* Memory is counted in one unit for every quantity (the code: bytes).     *)
(* Thresholds and references are fractions; a threshold t stands for       *)
(* t / Den, so 0.8 is 8 when Den = 10.                                     *)
(***************************************************************************)
EXTENDS Integers, Sequences, SequencesExt

CONSTANTS BalloonMin,   \* balloon_min of getVmBalloonInfo: 50 MB
          BalloonMax,   \* balloon_max of getVmBalloonInfo: 256 MB
          Chunk,        \* 5242880: the granularity of a reduced grow step
          MB,           \* 1048576: the granularity of a ref target
          Den,          \* denominator of the fractions of parameters.txt
          NoTarget      \* GetControl('balloon_target') is None

ASSUME MemoryAssumption ==
  /\ BalloonMin \in Nat \ {0}
  /\ BalloonMax \in Nat
  /\ BalloonMin =< BalloonMax
  /\ Chunk \in Nat \ {0}
  /\ MB \in Nat \ {0}
  /\ Den \in Nat \ {0}

ASSUME NoTargetAssumption == NoTarget \notin Int

(***************************************************************************)
(* The sizes a guest's balloon may have: what TargetsInBounds promises.    *)
(***************************************************************************)
Sizes == BalloonMin .. BalloonMax

(***************************************************************************)
(* Entity.StatAvg: integer (floor) average over the recorded samples.      *)
(* A sample holds balloon_cur as "cur" and mem_unused as "unused".         *)
(***************************************************************************)
StatAvg(history, field) ==
  SumFunction([i \in DOMAIN history |-> history[i][field]]) \div Len(history)

UsedMem(history) == StatAvg(history, "cur") - StatAvg(history, "unused")

(***************************************************************************)
(* used_percent < threshold and used_percent > threshold, multiplied out.  *)
(***************************************************************************)
UsedBelow(history, threshold) ==
  UsedMem(history) * Den < threshold * StatAvg(history, "cur")

UsedAbove(history, threshold) ==
  UsedMem(history) * Den > threshold * StatAvg(history, "cur")

(* Faulty variants: the check is missing; a step that cannot be paid in    *)
(* full is not reduced but given up.                                       *)
AffordableUnchecked(cur, hostFree, target) == target

AffordableAllOrNothing(cur, hostFree, target) ==
  IF hostFree - (target - cur) < 0 THEN cur ELSE target

(***************************************************************************)
(* The ledger check shared by the two grow functions: a target the host's  *)
(* free memory cannot pay for is replaced by the current size plus as many *)
(* whole chunks as host_free.txt still holds.                              *)
(***************************************************************************)
Affordable(cur, hostFree, target) ==
  IF hostFree - (target - cur) < 0
  THEN cur + Chunk * (hostFree \div Chunk)
  ELSE target

(* Faulty variant: balloon_max is not looked at.                           *)
opt_policy_grow_step_uncapped(cur, hostFree, step) ==
  Affordable(cur, hostFree, cur + step)

opt_policy_grow_step(cur, hostFree, step) ==
  LET target == IF cur + step > BalloonMax THEN BalloonMax ELSE cur + step
  IN  Affordable(cur, hostFree, target)

(* Faulty variant: balloon_min is not looked at.                           *)
opt_policy_shrink_step_unclamped(cur, step) == cur - step

opt_policy_shrink_step(cur, step) ==
  IF cur - step < BalloonMin THEN BalloonMin ELSE cur - step

(***************************************************************************)
(* used_mem / ref rounded down to MB.  A negative quotient (more unused    *)
(* than assigned memory reported) is truncated by the code and floored     *)
(* here: both round to a target below balloon_min, which is then raised.   *)
(***************************************************************************)
RefTarget(used, ref) == MB * (((used * Den) \div ref) \div MB)

opt_policy_grow_ref(cur, hostFree, used, ref) ==
  LET target == IF RefTarget(used, ref) > BalloonMax
                THEN BalloonMax ELSE RefTarget(used, ref)
  IN  Affordable(cur, hostFree, target)

opt_policy_shrink_ref(used, ref) ==
  IF RefTarget(used, ref) < BalloonMin THEN BalloonMin ELSE RefTarget(used, ref)

(***************************************************************************)
(* opt_policy_step and opt_policy_ref: the trigger and the control.  The   *)
(* result is the new balloon_target, or NoTarget when neither trigger      *)
(* fires.  cur is the last sample's balloon_cur (Entity._finalize).        *)
(***************************************************************************)
opt_policy_step(history, hostFree, p) ==
  LET cur == Last(history).cur
  IN  IF UsedBelow(history, p.shrink_threshold)
      THEN opt_policy_shrink_step(cur, p.shrink_step)
      ELSE IF UsedAbove(history, p.grow_threshold)
      THEN opt_policy_grow_step(cur, hostFree, p.grow_step)
      ELSE NoTarget

opt_policy_ref(history, hostFree, p) ==
  LET cur  == Last(history).cur
      used == UsedMem(history)
  IN  IF UsedBelow(history, p.shrink_threshold)
      THEN opt_policy_shrink_ref(used, p.shrink_ref)
      ELSE IF UsedAbove(history, p.grow_threshold)
      THEN opt_policy_grow_ref(cur, hostFree, used, p.grow_ref)
      ELSE NoTarget

(***************************************************************************)
(* opt_policy_select: params is what parameters.txt holds.                 *)
(***************************************************************************)
opt_policy_select(history, hostFree, params) ==
  IF params.type = "step"
  THEN opt_policy_step(history, hostFree, params.step)
  ELSE opt_policy_ref(history, hostFree, params.ref)
=============================================================================
