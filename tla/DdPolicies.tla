----------------------------- MODULE DdPolicies -----------------------------
(***************************************************************************)
(* The arithmetic of Dd_policy1 ... Dd_policy8 (mom/Entity.py), the        *)
(* ballooning algorithms of other systems the test scripts compare with.   *)
(* Each function gives the guest's next target, or NoTarget; the caller    *)
(* books target - cur in host_free.txt.                                    *)
(*                                                                         *)
(* h is the guest's history, free what host_free.txt holds now, pressure   *)
(* what it held when the evaluation began.  Fractions of a memory unit     *)
(* (the code: of a byte) are dropped, here as by the Balloon controller.   *)
(***************************************************************************)
EXTENDS BalloonPolicy

CONSTANTS Pages,   \* 4096*1000: the fixed step of the KVM and Hyper-V rules
          Scarce   \* 100: less than this in host_free.txt is pressure

ASSUME DdAssumption == Pages \in Nat \ {0} /\ Scarce \in Nat \ {0}

Cur(h) == Last(h).cur
Hi(a, b) == IF a < b THEN b ELSE a
Lo(a, b) == IF a < b THEN a ELSE b
Clamped(size) == Lo(Hi(size, BalloonMin), BalloonMax)

(* guest_used_mem / ref for ref = tenths / 10                              *)
UsedOver(h, tenths) == (UsedMem(h) * 10) \div tenths

(* used_percent compared with tenths / 10                                  *)
Below(h, tenths) == UsedMem(h) * 10 < tenths * StatAvg(h, "cur")
Above(h, tenths) == UsedMem(h) * 10 > tenths * StatAvg(h, "cur")

(* new_hostpressure > 0, the condition of every grow branch                *)
IfPaid(h, free, size) == IF free - (size - Cur(h)) > 0 THEN size ELSE NoTarget

IfSmaller(h, size) == IF size < Cur(h) THEN size ELSE NoTarget

-----------------------------------------------------------------------------
(* Policy 1, oVirt: five percent down under pressure, up otherwise, but    *)
(* never closer to the used memory than a fifth of the balloon.            *)
Dd_policy1_grow(h, free) ==
  IF Cur(h) < BalloonMax
  THEN IfPaid(h, free, Lo(Hi((Cur(h) * 105) \div 100, UsedMem(h) + Cur(h) \div 5),
                          BalloonMax))
  ELSE NoTarget

Dd_policy1_shrink(h) ==
  IfSmaller(h, Hi((Cur(h) * 95) \div 100, UsedMem(h) + Cur(h) \div 5))

Dd_policy1(h, free, pressure) ==
  IF pressure < Scarce THEN Dd_policy1_shrink(h) ELSE Dd_policy1_grow(h, free)

(* Policy 2, KVM auto-ballooning: a fixed number of pages.                 *)
Dd_policy2_grow(h, free) ==
  IF Cur(h) < BalloonMax
  THEN IfPaid(h, free, Lo(Cur(h) + Pages, UsedOver(h, 5)))
  ELSE NoTarget

Dd_policy2_shrink(h) ==
  IfSmaller(h, Hi(Cur(h) - Pages, UsedMem(h) + Cur(h) \div 5))

Dd_policy2(h, free, pressure) ==
  IF pressure < Scarce THEN Dd_policy2_shrink(h) ELSE Dd_policy2_grow(h, free)

(* Faulty variant: balloon_min is forgotten, as in policy 1.               *)
Dd_policy3_shrink_unclamped(h) == IfSmaller(h, (Cur(h) * 95) \div 100)

(* Policy 3, XenServer: five percent, within the bounds.                   *)
Dd_policy3_grow(h, free) ==
  IfPaid(h, free, Lo((Cur(h) * 105) \div 100, BalloonMax))

Dd_policy3_shrink(h) == IfSmaller(h, Hi((Cur(h) * 95) \div 100, BalloonMin))

Dd_policy3(h, free, pressure) ==
  IF pressure < Scarce THEN Dd_policy3_shrink(h) ELSE Dd_policy3_grow(h, free)

(* Policies 4 and 5 compute a size from the use; growth must be paid for.  *)
ShrinkOrPay(h, free, size) ==
  IF size < Cur(h) THEN size ELSE IfPaid(h, free, size)

(* cur - used * (0.8 - used/avg) / 0.8, over a common denominator          *)
Dd_policy4(h, free) ==
  ShrinkOrPay(h, free,
    Clamped(Cur(h) - UsedMem(h) + (10 * UsedMem(h) * UsedMem(h)) \div (8 * StatAvg(h, "cur"))))

(* Faulty variant: growth by pages, as in policy 6.                        *)
Dd_policy5_pages(h, free) ==
  LET size == Clamped(UsedOver(h, 7))
  IN  IF size < Cur(h) THEN size
      ELSE IfPaid(h, free, Lo(Cur(h) + Pages, BalloonMax))

Dd_policy5(h, free) == ShrinkOrPay(h, free, Clamped(UsedOver(h, 7)))

(* Policy 6, Hyper-V: a fixed number of pages up, down only under pressure *)
(* (host_pressure, read by the policy itself).                             *)
Dd_policy6(h, free) ==
  LET size == Clamped(UsedOver(h, 7))
  IN  IF size < Cur(h)
      THEN IF free < Scarce THEN size ELSE NoTarget
      ELSE IfPaid(h, free, Cur(h) + Pages)

(* Policy 7, U-tube: up only above 90 percent, down only under pressure.   *)
Dd_policy7(h, free) ==
  LET size == Clamped(UsedOver(h, 8))
  IN  IF size < Cur(h)
      THEN IF free < Scarce THEN size ELSE NoTarget
      ELSE IF Above(h, 9) THEN IfPaid(h, free, size) ELSE NoTarget

(* Policy 8, iBalloon, is four functions, each applied to every guest.     *)
Dd_policy8_shrink_normal(h, free) ==
  IF Above(h, 3) THEN NoTarget ELSE IfPaid(h, free, Clamped(UsedOver(h, 5)))

Dd_policy8_grow_critical(h, free) ==
  IF Below(h, 9) THEN NoTarget ELSE IfPaid(h, free, Clamped(UsedOver(h, 7)))

(* Faulty variant: the upper limit of the warning range is forgotten.      *)
Dd_policy8_grow_warn_unlimited(h, free) ==
  LET size == Lo(Hi(UsedOver(h, 7), Cur(h)), BalloonMax)
  IN  IF Below(h, 3) \/ free < 0 \/ size =< Cur(h) THEN NoTarget
      ELSE IfPaid(h, free, size)

Dd_policy8_grow_warn(h, free) ==
  LET size == Lo(Hi(UsedOver(h, 7), Cur(h)), BalloonMax)
  IN  IF Above(h, 9) \/ Below(h, 3) \/ free < 0 \/ size =< Cur(h) THEN NoTarget
      ELSE IfPaid(h, free, size)

Dd_policy8_shrink_warn(h, free) ==
  IF Above(h, 9) \/ Below(h, 3) \/ free > 0 THEN NoTarget
  ELSE IfSmaller(h, Lo(Hi((UsedMem(h) * 100) \div 85, Cur(h)), BalloonMax))

-----------------------------------------------------------------------------
(* The rule files: the functions they apply to all guests, pass by pass.   *)
Passes(rules) == IF rules = "iballoon" THEN 4 ELSE 1

DdTarget(rules, pass, h, free, pressure) ==
  CASE rules = "ovirt-balloon-qos" -> Dd_policy1(h, free, pressure)
    [] rules = "kvm_autoballoon" -> Dd_policy2(h, free, pressure)
    [] rules = "xenserver-dynamic-memory-control" -> Dd_policy3(h, free, pressure)
    [] rules = "dynamic_memory_allocation_controller" -> Dd_policy4(h, free)
    [] rules = "Wei-Zhe_Zhang" -> Dd_policy5(h, free)
    [] rules = "Hyper-V-dynamic-memory" -> Dd_policy6(h, free)
    [] rules = "U-tube" -> Dd_policy7(h, free)
    [] rules = "iballoon" /\ pass = 1 -> Dd_policy8_shrink_normal(h, free)
    [] rules = "iballoon" /\ pass = 2 -> Dd_policy8_grow_critical(h, free)
    [] rules = "iballoon" /\ pass = 3 -> Dd_policy8_grow_warn(h, free)
    [] rules = "iballoon" /\ pass = 4 -> Dd_policy8_shrink_warn(h, free)
=============================================================================
