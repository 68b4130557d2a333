-------------------------- MODULE DdControl_proofs --------------------------
(***************************************************************************)
(* Proofs about the control loop under the rule files of the compared      *)
(* algorithms, for every number of guests, every memory size and every     *)
(* interleaving of DdControl!DdNext, failures and restarts included.       *)
(***************************************************************************)
EXTENDS DdControl, BalloonControl_proofs

-----------------------------------------------------------------------------
(* Averages and decisions.                                                 *)

(***************************************************************************)
(* The average size over a window of sizes within bounds is within bounds. *)
(***************************************************************************)
LEMMA AverageInBounds ==
  ASSUME NEW h \in Seq(BoundedSamples), h # << >>
  PROVE  StatAvg(h, "cur") \in Sizes
<1>1. h \in Seq(Samples) /\ \A i \in DOMAIN h : h[i].cur \in Sizes
  <2>1. BoundedSamples \subseteq Samples
    BY DEF BoundedSamples, Samples, Sizes
  <2>2. \A i \in DOMAIN h : h[i] \in BoundedSamples
    OBVIOUS
  <2> QED
    BY <2>1, <2>2 DEF BoundedSamples
<1>2. StatAvg(h, "cur") \in Int
  BY <1>1, AverageIsInt
<1>3. BalloonMin =< StatAvg(h, "cur") /\ StatAvg(h, "cur") =< BalloonMax
  <2>1. BalloonMin \in Int /\ BalloonMax \in Int
    BY MemoryAssumption
  <2>2. \A i \in DOMAIN h : BalloonMin =< h[i]["cur"] /\ h[i]["cur"] =< BalloonMax
    BY <1>1, <2>1 DEF Sizes
  <2> QED
    BY <1>1, <2>1, <2>2, AverageBetween
<1> QED
  BY <1>2, <1>3, MemoryAssumption DEF Sizes

(***************************************************************************)
(* Clamping yields a size within bounds.                                   *)
(***************************************************************************)
LEMMA ClampedInBounds ==
  ASSUME NEW size \in Int
  PROVE  Clamped(size) \in Sizes
  BY MemoryAssumption DEF Clamped, Hi, Lo, Sizes

(* What a decision must be: nothing, less than the guest has, or paid for. *)
PaidFor(h, free, target) ==
  \/ target = NoTarget
  \/ target \in Int /\ target < Cur(h)
  \/ target \in Int /\ free - (target - Cur(h)) > 0

(***************************************************************************)
(* Each rule file's decision is a number, and growth is paid for by what   *)
(* host_free.txt holds at the moment of the charge.                        *)
(***************************************************************************)
LEMMA DdDecisionIsPaidFor ==
  ASSUME NEW h \in Seq(Samples), h # << >>, NEW free \in Int, NEW before \in Int,
         NEW file \in RuleFiles, file # "opt_select",
         NEW p \in 1 .. Passes(file),
         file \in Bounded => StatAvg(h, "cur") > 0
  PROVE  PaidFor(h, free, DdTarget(file, p, h, free, before))
<1> DEFINE cur == Cur(h)
           used == UsedMem(h)
<1>1. cur \in Int
  BY LastIsElement DEF Cur, Samples
<1>2. used \in Int
  BY AverageIsInt DEF UsedMem
<1>3. ASSUME NEW size \in Int
      PROVE  /\ PaidFor(h, free, IfPaid(h, free, size))
             /\ PaidFor(h, free, IfSmaller(h, size))
             /\ PaidFor(h, free, ShrinkOrPay(h, free, size))
  BY DEF PaidFor, IfPaid, IfSmaller, ShrinkOrPay
<1>4. ASSUME NEW a \in Int, NEW b \in Int
      PROVE  Hi(a, b) \in Int /\ Lo(a, b) \in Int
  BY DEF Hi, Lo
<1>5. ASSUME NEW a \in Int
      PROVE  Clamped(a) \in Int
  BY ClampedInBounds DEF Sizes
<1>6. /\ UsedOver(h, 5) \in Int /\ UsedOver(h, 7) \in Int /\ UsedOver(h, 8) \in Int
  BY <1>2 DEF UsedOver
<1>7. /\ (cur * 105) \div 100 \in Int /\ (cur * 95) \div 100 \in Int
      /\ used + cur \div 5 \in Int
      /\ cur + Pages \in Int /\ cur - Pages \in Int
      /\ (used * 100) \div 85 \in Int
      /\ BalloonMin \in Int /\ BalloonMax \in Int
  <2> HIDE DEF cur, used
  <2> QED
    BY <1>1, <1>2, MemoryAssumption, DdAssumption
<1>8. PaidFor(h, free, NoTarget)
  BY DEF PaidFor
<1>9. CASE file = "ovirt-balloon-qos"
  <2>1. PaidFor(h, free, Dd_policy1(h, free, before))
    BY <1>3, <1>4, <1>7, <1>8 DEF Dd_policy1, Dd_policy1_grow, Dd_policy1_shrink
  <2> QED
    BY <1>9, <2>1 DEF DdTarget
<1>10. CASE file = "kvm_autoballoon"
  <2>1. PaidFor(h, free, Dd_policy2(h, free, before))
    BY <1>3, <1>4, <1>6, <1>7, <1>8 DEF Dd_policy2, Dd_policy2_grow, Dd_policy2_shrink
  <2> QED
    BY <1>10, <2>1 DEF DdTarget
<1>11. CASE file = "xenserver-dynamic-memory-control"
  <2>1. PaidFor(h, free, Dd_policy3(h, free, before))
    BY <1>3, <1>4, <1>7, <1>8 DEF Dd_policy3, Dd_policy3_grow, Dd_policy3_shrink
  <2> QED
    BY <1>11, <2>1 DEF DdTarget
<1>12. CASE file = "dynamic_memory_allocation_controller"
  <2>1. StatAvg(h, "cur") \in Int /\ StatAvg(h, "cur") > 0
    BY <1>12, AverageIsInt DEF Bounded
  <2>2. 8 * StatAvg(h, "cur") \in Nat \ {0}
    BY <2>1
  <2>3. cur - used + (10 * used * used) \div (8 * StatAvg(h, "cur")) \in Int
    BY <1>1, <1>2, <2>2
  <2>4. PaidFor(h, free, Dd_policy4(h, free))
    BY <1>3, <1>5, <2>3 DEF Dd_policy4
  <2> QED
    BY <1>12, <2>4 DEF DdTarget
<1>13. CASE file = "Wei-Zhe_Zhang"
  <2>1. PaidFor(h, free, Dd_policy5(h, free))
    BY <1>3, <1>5, <1>6 DEF Dd_policy5
  <2> QED
    BY <1>13, <2>1 DEF DdTarget
<1>14. CASE file = "Hyper-V-dynamic-memory"
  <2>1. PaidFor(h, free, Dd_policy6(h, free))
    BY <1>3, <1>5, <1>6, <1>7, <1>8 DEF Dd_policy6, PaidFor
  <2> QED
    BY <1>14, <2>1 DEF DdTarget
<1>15. CASE file = "U-tube"
  <2>1. PaidFor(h, free, Dd_policy7(h, free))
    BY <1>3, <1>5, <1>6, <1>8 DEF Dd_policy7, PaidFor
  <2> QED
    BY <1>15, <2>1 DEF DdTarget
<1>16. CASE file = "iballoon"
  <2>1. PaidFor(h, free, Dd_policy8_shrink_normal(h, free))
    BY <1>3, <1>5, <1>6, <1>8 DEF Dd_policy8_shrink_normal
  <2>2. PaidFor(h, free, Dd_policy8_grow_critical(h, free))
    BY <1>3, <1>5, <1>6, <1>8 DEF Dd_policy8_grow_critical
  <2>3. PaidFor(h, free, Dd_policy8_grow_warn(h, free))
    BY <1>1, <1>3, <1>4, <1>6, <1>7, <1>8 DEF Dd_policy8_grow_warn
  <2>4. PaidFor(h, free, Dd_policy8_shrink_warn(h, free))
    BY <1>1, <1>3, <1>4, <1>7, <1>8 DEF Dd_policy8_shrink_warn
  <2>5. p \in 1 .. 4
    BY <1>16 DEF Passes
  <2> QED
    BY <1>16, <2>1, <2>2, <2>3, <2>4, <2>5 DEF DdTarget
<1> QED
  BY <1>9, <1>10, <1>11, <1>12, <1>13, <1>14, <1>15, <1>16, RuleFilesAssumption

(***************************************************************************)
(* The five bounded rule files decide for sizes within bounds.             *)
(***************************************************************************)
LEMMA DdDecisionInBounds ==
  ASSUME NEW h \in Seq(BoundedSamples), h # << >>, NEW free \in Int, NEW before \in Int,
         NEW file \in Bounded, NEW p \in 1 .. Passes(file)
  PROVE  DdTarget(file, p, h, free, before) \in Sizes \cup {NoTarget}
<1> DEFINE cur == Cur(h)
           used == UsedMem(h)
<1>1. h \in Seq(Samples)
  <2>1. BoundedSamples \subseteq Samples
    BY DEF BoundedSamples, Samples, Sizes
  <2> QED
    BY <2>1, SeqMonotonic
<1>2. cur \in Sizes
  BY LastIsElement DEF Cur, BoundedSamples
<1>3. cur \in Int /\ used \in Int
  BY <1>1, <1>2, AverageIsInt DEF UsedMem, Sizes
<1>4. StatAvg(h, "cur") \in Int /\ StatAvg(h, "cur") > 0
  BY AverageInBounds, MemoryAssumption DEF Sizes
<1>5. ASSUME NEW size \in Sizes
      PROVE  /\ IfPaid(h, free, size) \in Sizes \cup {NoTarget}
             /\ IfSmaller(h, size) \in Sizes \cup {NoTarget}
             /\ ShrinkOrPay(h, free, size) \in Sizes \cup {NoTarget}
  BY DEF IfPaid, IfSmaller, ShrinkOrPay
<1>6. UsedOver(h, 5) \in Int /\ UsedOver(h, 7) \in Int /\ UsedOver(h, 8) \in Int
  BY <1>3 DEF UsedOver
<1>7. CASE file = "xenserver-dynamic-memory-control"
  <2>1. Lo((cur * 105) \div 100, BalloonMax) \in Sizes
    BY <1>2, MemoryAssumption DEF Lo, Sizes
  <2>2. Hi((cur * 95) \div 100, BalloonMin) \in Sizes
    BY <1>2, MemoryAssumption DEF Hi, Sizes
  <2>3. Dd_policy3(h, free, before) \in Sizes \cup {NoTarget}
    BY <1>5, <2>1, <2>2 DEF Dd_policy3, Dd_policy3_grow, Dd_policy3_shrink
  <2> QED
    BY <1>7, <2>3 DEF DdTarget
<1>8. CASE file = "dynamic_memory_allocation_controller"
  <2>1. 8 * StatAvg(h, "cur") \in Nat \ {0}
    BY <1>4
  <2>2. cur - used + (10 * used * used) \div (8 * StatAvg(h, "cur")) \in Int
    BY <1>3, <2>1
  <2>3. Dd_policy4(h, free) \in Sizes \cup {NoTarget}
    BY <1>5, <2>2, ClampedInBounds DEF Dd_policy4
  <2> QED
    BY <1>8, <2>3 DEF DdTarget
<1>9. CASE file = "Wei-Zhe_Zhang"
  <2>1. Dd_policy5(h, free) \in Sizes \cup {NoTarget}
    BY <1>5, <1>6, ClampedInBounds DEF Dd_policy5
  <2> QED
    BY <1>9, <2>1 DEF DdTarget
<1>10. CASE file = "U-tube"
  <2>1. Dd_policy7(h, free) \in Sizes \cup {NoTarget}
    BY <1>5, <1>6, ClampedInBounds DEF Dd_policy7
  <2> QED
    BY <1>10, <2>1 DEF DdTarget
<1>11. CASE file = "iballoon"
  <2>1. Dd_policy8_shrink_normal(h, free) \in Sizes \cup {NoTarget}
    BY <1>5, <1>6, ClampedInBounds DEF Dd_policy8_shrink_normal
  <2>2. Dd_policy8_grow_critical(h, free) \in Sizes \cup {NoTarget}
    BY <1>5, <1>6, ClampedInBounds DEF Dd_policy8_grow_critical
  <2>3. ASSUME NEW size \in Int
        PROVE  Lo(Hi(size, cur), BalloonMax) \in Sizes
    BY <1>2, MemoryAssumption DEF Lo, Hi, Sizes
  <2>4. Dd_policy8_grow_warn(h, free) \in Sizes \cup {NoTarget}
    BY <1>5, <1>6, <2>3 DEF Dd_policy8_grow_warn
  <2>5. (used * 100) \div 85 \in Int
    BY <1>3
  <2>6. Dd_policy8_shrink_warn(h, free) \in Sizes \cup {NoTarget}
    BY <1>5, <2>3, <2>5 DEF Dd_policy8_shrink_warn
  <2>7. p \in 1 .. 4
    BY <1>11 DEF Passes
  <2> QED
    BY <1>11, <2>1, <2>2, <2>4, <2>6, <2>7 DEF DdTarget
<1> QED
  BY <1>7, <1>8, <1>9, <1>10, <1>11 DEF Bounded

-----------------------------------------------------------------------------
(* The inductive invariant.                                                *)

DdBoundsInv == rules \in Bounded => SizesInv

(***************************************************************************)
(* What a control tells about the guest that has it: next is the pass that *)
(* evaluates the guest next.  The first pass of iballoon.rules only sets   *)
(* controls up to a use of 30 percent, the second from 90 percent on.      *)
(***************************************************************************)
PassInv ==
  pc = "evaluating" =>
    \A g \in Guests : control[g] # NoTarget =>
      LET next == IF g \in todo THEN pass ELSE pass + 1
      IN  /\ next > 1
          /\ rules = "iballoon" /\ next = 2 => ~Above(snap[g], 3)
          /\ rules = "iballoon" /\ next = 3 => ~Above(snap[g], 3) \/ ~Below(snap[g], 9)

DdIndInv == DdTypeOK /\ TickInv /\ DdBoundsInv /\ PassInv /\ DdLedgerNonNegative

LEMMA DdIndInit == DdInit => DdIndInv
<1> SUFFICES ASSUME DdInit PROVE DdIndInv
  OBVIOUS
<1>1. TypeOK /\ TickInv /\ SizesInv /\ pc = "idle"
  BY TypesInit, SizesInit DEF DdInit, Init
<1>2. hostFree >= 0
  BY ControlAssumption DEF DdInit, Init
<1> QED
  BY <1>1, <1>2 DEF DdIndInv, DdTypeOK, DdBoundsInv, DdInit, PassInv, DdLedgerNonNegative

(***************************************************************************)
(* The steps around the evaluation: they leave it alone or end it.         *)
(***************************************************************************)
Beside ==
  \/ Sampling \/ ApplyDone \/ Failure \/ Process \/ Operator \/ MoveBalloons
  \/ \E g \in Guests : Apply(g)

LEMMA BesideEvaluation ==
  ASSUME [Beside]_vars, pc' = "evaluating"
  PROVE  UNCHANGED <<pc, snap, todo, control>>
<1> USE DEF files, monitors, engine, qemu
<1>1. CASE \/ Sampling \/ Operator \/ MoveBalloons \/ UNCHANGED vars
           \/ \E g \in Guests : CollectFail(g)
  BY <1>1 DEF Sampling, StartRound, Collect, CollectFail, Operator, SetStepPolicy,
    SetRefType, SetRefParams, MoveBalloons, MoveBalloon, vars
<1>2. CASE \/ EvalFail \/ ApplyDone \/ Stop \/ Restart
           \/ \E g \in Guests : Apply(g) \/ ApplyFail(g)
  BY <1>2 DEF EvalFail, ApplyDone, Stop, Restart, Apply, ApplyFail, EndTick
<1> QED
  BY <1>1, <1>2 DEF Beside, Failure, Process, MainLoopStop, Kill

LEMMA DdNextSplits ==
  ASSUME [DdNext]_ddVars
  PROVE  \/ DdDoControls
         \/ NextPass
         \/ \E g \in Guests : DdEvalGuest(g)
         \/ \E g \in Guests : rules = "opt_select" /\ EvalGuest(g) /\ UNCHANGED dd
         \/ DdEvalDone
         \/ [Beside]_vars /\ UNCHANGED dd
  BY DEF DdNext, DdTick, ddVars, Beside

LEMMA BesideIsNext ==
  ASSUME [Beside]_vars
  PROVE  [NextButEval]_vars /\ [Next]_vars
  BY DEF Beside, NextButEval, Next, Tick

(***************************************************************************)
(* The decision of a rule file for a guest it evaluates.                   *)
(***************************************************************************)
LEMMA DdEvaluation ==
  ASSUME DdIndInv, NEW g \in Guests, DdEvalGuest(g)
  PROVE  LET target == DdTarget(rules, pass, snap[g], hostFree, pressure)
         IN  /\ target \in Int \cup {NoTarget}
             /\ PaidFor(snap[g], hostFree, target)
             /\ rules \in Bounded => target \in Sizes \cup {NoTarget}
             /\ control' = IF target = NoTarget THEN control
                           ELSE [control EXCEPT ![g] = target]
             /\ hostFree' = IF target = NoTarget THEN hostFree
                            ELSE hostFree - (target - Cur(snap[g]))
             /\ todo' = todo \ {g} /\ g \in todo
             /\ UNCHANGED <<params, monitors, pc, snap, qemu, dd>>
             /\ pc = "evaluating" /\ rules # "opt_select" /\ rules \in RuleFiles
             /\ pass \in 1 .. Passes(rules)
             /\ snap[g] \in Seq(Samples) /\ snap[g] # << >>
             /\ Cur(snap[g]) \in Int /\ hostFree \in Nat
<1> DEFINE target == DdTarget(rules, pass, snap[g], hostFree, pressure)
<1>1. /\ todo' = todo \ {g} /\ g \in todo
      /\ UNCHANGED <<params, monitors, pc, snap, qemu, dd>>
      /\ pc = "evaluating" /\ rules # "opt_select"
      /\ control' = IF target = NoTarget THEN control
                    ELSE [control EXCEPT ![g] = target]
      /\ hostFree' = IF target = NoTarget THEN hostFree
                     ELSE hostFree - (target - Cur(snap[g]))
  BY DEF DdEvalGuest
<1>2. /\ rules \in RuleFiles /\ pass \in 1 .. Passes(rules)
      /\ hostFree \in Int /\ hostFree >= 0 /\ pressure \in Int
      /\ snap[g] \in Seq(Samples) /\ snap[g] # << >>
  BY <1>1 DEF DdIndInv, DdTypeOK, TypeOK, TickInv, DdLedgerNonNegative
<1>3. Cur(snap[g]) \in Int
  BY <1>2, LastIsElement DEF Cur, Samples
<1>4. rules \in Bounded => snap[g] \in Seq(BoundedSamples)
  BY DEF DdIndInv, DdBoundsInv, SizesInv
<1>5. rules \in Bounded => StatAvg(snap[g], "cur") > 0
  BY <1>2, <1>4, AverageInBounds, MemoryAssumption DEF Sizes
<1>6. PaidFor(snap[g], hostFree, target)
  BY <1>1, <1>2, <1>5, DdDecisionIsPaidFor
<1>7. rules \in Bounded => target \in Sizes \cup {NoTarget}
  BY <1>2, <1>4, DdDecisionInBounds
<1> HIDE DEF target
<1>8. target \in Int \cup {NoTarget}
  BY <1>6 DEF PaidFor
<1> QED
  BY <1>1, <1>2, <1>3, <1>6, <1>7, <1>8 DEF target

LEMMA DdTypesNext == DdIndInv /\ [DdNext]_ddVars => DdTypeOK' /\ TickInv'
<1> SUFFICES ASSUME DdIndInv, [DdNext]_ddVars
             PROVE  DdTypeOK' /\ TickInv'
  OBVIOUS
<1>1. /\ TypeOK /\ TickInv /\ rules \in RuleFiles /\ pressure \in Int
      /\ pass \in 0 .. 4 /\ (pc = "evaluating" => pass \in 1 .. Passes(rules))
      /\ Passes(rules) \in 1 .. 4
  BY DEF DdIndInv, DdTypeOK, Passes
<1>2. CASE DdDoControls \/ DdEvalDone \/ ([Beside]_vars /\ UNCHANGED dd)
  <2>1. [Next]_vars
    BY <1>2, BesideIsNext DEF DdDoControls, DdEvalDone, Next, Tick
  <2>2. TypeOK' /\ TickInv'
    BY <1>1, <2>1, TypesNext, TickInvNext
  <2>3. CASE DdDoControls
    BY <1>1, <2>2, <2>3 DEF DdDoControls, DdTypeOK, TypeOK
  <2>4. CASE DdEvalDone
    BY <1>1, <2>2, <2>4 DEF DdEvalDone, EvalDone, DdTypeOK, dd
  <2>5. CASE [Beside]_vars /\ UNCHANGED dd
    BY <1>1, <2>2, <2>5, BesideEvaluation DEF DdTypeOK, dd
  <2> QED
    BY <1>2, <2>3, <2>4, <2>5
<1>3. ASSUME NEW g \in Guests, EvalGuest(g), UNCHANGED dd
      PROVE  DdTypeOK' /\ TickInv'
  <2>1. TypeOK' /\ TickInv'
    BY <1>1, <1>3, TypesNext, TickInvNext DEF Next, Tick
  <2> QED
    BY <1>1, <1>3, <2>1 DEF EvalGuest, DdTypeOK, dd
<1>4. CASE NextPass
  <2>1. /\ \A g \in todo' : snap'[g] # << >>
        /\ todo' \subseteq Guests
    BY <1>4 DEF NextPass
  <2>2. TypeOK' /\ TickInv'
    BY <1>1, <1>4, <2>1 DEF NextPass, TypeOK, TickInv, NothingCharged, files, monitors, qemu
  <2>3. pass' \in 1 .. Passes(rules) /\ pass' \in 0 .. 4
    BY <1>1, <1>4 DEF NextPass
  <2> QED
    BY <1>1, <1>4, <2>2, <2>3 DEF NextPass, DdTypeOK
<1>5. ASSUME NEW g \in Guests, DdEvalGuest(g)
      PROVE  DdTypeOK' /\ TickInv'
  <2> DEFINE target == DdTarget(rules, pass, snap[g], hostFree, pressure)
  <2>1. /\ target \in Int \cup {NoTarget}
        /\ control' = IF target = NoTarget THEN control
                      ELSE [control EXCEPT ![g] = target]
        /\ hostFree' = IF target = NoTarget THEN hostFree
                       ELSE hostFree - (target - Cur(snap[g]))
        /\ todo' = todo \ {g}
        /\ UNCHANGED <<params, monitors, pc, snap, qemu, dd>>
        /\ pc = "evaluating" /\ Cur(snap[g]) \in Int /\ hostFree \in Nat
    BY <1>5, DdEvaluation
  <2> HIDE DEF target
  <2>2. hostFree' \in Int /\ control' \in [Guests -> Int \cup {NoTarget}]
    BY <1>1, <2>1 DEF TypeOK
  <2>3. TypeOK' /\ TickInv'
    BY <1>1, <2>1, <2>2 DEF TypeOK, TickInv, NothingCharged, monitors, qemu
  <2> QED
    BY <1>1, <2>1, <2>3 DEF DdTypeOK, dd
<1> QED
  BY <1>2, <1>3, <1>4, <1>5, DdNextSplits

LEMMA DdBoundsNext == DdIndInv /\ [DdNext]_ddVars => DdBoundsInv'
<1> SUFFICES ASSUME DdIndInv, [DdNext]_ddVars, rules' \in Bounded
             PROVE  SizesInv'
  BY DEF DdBoundsInv
<1>1. rules' = rules /\ rules # "opt_select"
  BY DdNextSplits DEF DdDoControls, NextPass, DdEvalGuest, DdEvalDone, dd, Bounded
<1>2. TypeOK /\ TickInv /\ SizesInv
  BY <1>1 DEF DdIndInv, DdTypeOK, DdBoundsInv
<1>3. CASE DdDoControls \/ DdEvalDone \/ ([Beside]_vars /\ UNCHANGED dd)
  <2>1. [NextButEval]_vars
    BY <1>3, BesideIsNext DEF DdDoControls, DdEvalDone, NextButEval
  <2> QED
    BY <1>2, <2>1, SizesWithoutEval
<1>4. CASE NextPass
  BY <1>2, <1>4 DEF NextPass, SizesInv, monitors, qemu
<1>5. ASSUME NEW g \in Guests, DdEvalGuest(g)
      PROVE  SizesInv'
  <2> DEFINE target == DdTarget(rules, pass, snap[g], hostFree, pressure)
  <2>1. /\ target \in Sizes \cup {NoTarget}
        /\ control' = IF target = NoTarget THEN control
                      ELSE [control EXCEPT ![g] = target]
        /\ UNCHANGED <<monitors, snap, qemu>>
    BY <1>1, <1>5, DdEvaluation
  <2> HIDE DEF target
  <2>2. control' \in [Guests -> Sizes \cup {NoTarget}]
    BY <1>2, <2>1 DEF SizesInv
  <2> QED
    BY <1>2, <2>1, <2>2 DEF SizesInv, monitors, qemu
<1> QED
  BY <1>1, <1>3, <1>4, <1>5, DdNextSplits

LEMMA DdLedgerNext == DdIndInv /\ [DdNext]_ddVars => DdLedgerNonNegative'
<1> SUFFICES ASSUME DdIndInv, [DdNext]_ddVars, rules' # "opt_select"
             PROVE  hostFree' >= 0
  BY DEF DdLedgerNonNegative
<1>1. rules' = rules
  BY DdNextSplits DEF DdDoControls, NextPass, DdEvalGuest, DdEvalDone, dd
<1>2. hostFree \in Int /\ hostFree >= 0
  BY <1>1 DEF DdIndInv, DdTypeOK, TypeOK, DdLedgerNonNegative
<1>3. CASE DdDoControls \/ DdEvalDone \/ ([Beside]_vars /\ UNCHANGED dd)
  <2>1. [NextButEval]_vars
    BY <1>3, BesideIsNext DEF DdDoControls, DdEvalDone, NextButEval
  <2> QED
    BY <1>2, <2>1, LedgerWithoutEval
<1>4. CASE NextPass
  BY <1>2, <1>4 DEF NextPass, files
<1>5. ASSUME NEW g \in Guests, DdEvalGuest(g)
      PROVE  hostFree' >= 0
  <2> DEFINE target == DdTarget(rules, pass, snap[g], hostFree, pressure)
  <2>1. /\ PaidFor(snap[g], hostFree, target)
        /\ hostFree' = IF target = NoTarget THEN hostFree
                       ELSE hostFree - (target - Cur(snap[g]))
        /\ Cur(snap[g]) \in Int /\ hostFree \in Nat
    BY <1>5, DdEvaluation
  <2> HIDE DEF target
  <2> QED
    BY <2>1 DEF PaidFor
<1> QED
  BY <1>1, <1>3, <1>4, <1>5, DdNextSplits

LEMMA PassNext == DdIndInv /\ [DdNext]_ddVars => PassInv'
<1> SUFFICES ASSUME DdIndInv, [DdNext]_ddVars, pc' = "evaluating",
                    NEW g \in Guests, control'[g] # NoTarget
             PROVE  LET next == IF g \in todo' THEN pass' ELSE pass' + 1
                    IN  /\ next > 1
                        /\ rules' = "iballoon" /\ next = 2 => ~Above(snap'[g], 3)
                        /\ rules' = "iballoon" /\ next = 3
                             => ~Above(snap'[g], 3) \/ ~Below(snap'[g], 9)
  BY DEF PassInv
<1>1. /\ TypeOK /\ TickInv /\ PassInv
      /\ pass \in 0 .. 4 /\ (pc = "evaluating" => pass \in 1 .. Passes(rules))
  BY DEF DdIndInv, DdTypeOK
<1>2. CASE DdDoControls
  BY <1>1, <1>2 DEF DdDoControls, DoControls, TickInv, NothingCharged, NoControls
<1>3. CASE NextPass
  BY <1>1, <1>3 DEF NextPass, PassInv
<1>4. ASSUME NEW h \in Guests, DdEvalGuest(h)
      PROVE  LET next == IF g \in todo' THEN pass' ELSE pass' + 1
             IN  /\ next > 1
                 /\ rules' = "iballoon" /\ next = 2 => ~Above(snap'[g], 3)
                 /\ rules' = "iballoon" /\ next = 3
                      => ~Above(snap'[g], 3) \/ ~Below(snap'[g], 9)
  <2> DEFINE target == DdTarget(rules, pass, snap[h], hostFree, pressure)
  <2>1. /\ control' = IF target = NoTarget THEN control
                      ELSE [control EXCEPT ![h] = target]
        /\ todo' = todo \ {h} /\ h \in todo
        /\ UNCHANGED <<snap, dd>>
        /\ pc = "evaluating" /\ pass \in 1 .. Passes(rules)
    BY <1>4, DdEvaluation
  <2>2. CASE g # h \/ target = NoTarget
    <3>1. control[g] # NoTarget
      BY <1>1, <2>1, <2>2 DEF TypeOK
    <3> QED
      BY <1>1, <2>1, <2>2, <3>1 DEF PassInv, dd
  <2>3. CASE g = h /\ target # NoTarget
    <3>1. g \notin todo' /\ pass' + 1 > 1
      BY <2>1, <2>3 DEF dd
    <3>2. ASSUME rules = "iballoon", pass = 1
          PROVE  ~Above(snap[g], 3)
      BY <2>3, <3>2 DEF DdTarget, Dd_policy8_shrink_normal
    <3>3. ASSUME rules = "iballoon", pass = 2
          PROVE  ~Below(snap[g], 9)
      BY <2>3, <3>3 DEF DdTarget, Dd_policy8_grow_critical
    <3> QED
      BY <2>1, <3>1, <3>2, <3>3 DEF dd
  <2> QED
    BY <2>2, <2>3
<1>5. ASSUME NEW h \in Guests, rules = "opt_select", EvalGuest(h), UNCHANGED dd
      PROVE  LET next == IF g \in todo' THEN pass' ELSE pass' + 1
             IN  /\ next > 1
                 /\ rules' = "iballoon" /\ next = 2 => ~Above(snap'[g], 3)
                 /\ rules' = "iballoon" /\ next = 3
                      => ~Above(snap'[g], 3) \/ ~Below(snap'[g], 9)
  <2>1. /\ todo' = todo \ {h} /\ rules' # "iballoon" /\ pass' = pass
        /\ pc = "evaluating" /\ pass \in 1 .. 4
        /\ (g # h => control[g] # NoTarget)
    BY <1>1, <1>5 DEF EvalGuest, TypeOK, dd, Passes
  <2> QED
    BY <1>1, <2>1 DEF PassInv
<1>6. CASE DdEvalDone
  BY <1>6 DEF DdEvalDone, EvalDone
<1>7. CASE [Beside]_vars /\ UNCHANGED dd
  BY <1>1, <1>7, BesideEvaluation DEF PassInv, dd
<1> QED
  BY <1>2, <1>3, <1>4, <1>5, <1>6, <1>7, DdNextSplits

(***************************************************************************)
(* The invariant holds in every reachable state.                           *)
(***************************************************************************)
THEOREM DdInvariant == DdSpec => []DdIndInv
<1>1. DdIndInv /\ [DdNext]_ddVars => DdIndInv'
  BY DdTypesNext, DdBoundsNext, PassNext, DdLedgerNext DEF DdIndInv
<1> QED
  BY DdIndInit, <1>1, PTL DEF DdSpec

(***************************************************************************)
(* Every variable keeps its type, and the five bounded rule files keep     *)
(* every control, target and balloon between balloon_min and balloon_max.  *)
(***************************************************************************)
THEOREM DdTargetsBounded == DdSpec => []DdInv
<1>1. DdIndInv => DdInv
  BY DEF DdIndInv, DdInv, DdTargetsInBounds, DdBoundsInv, SizesInv, TargetsInBounds
<1> QED
  BY <1>1, DdInvariant, PTL

(***************************************************************************)
(* No rule file of the compared algorithms overdraws host_free.txt.        *)
(***************************************************************************)
THEOREM DdNeverOverdraws == DdSpec => []DdLedgerNonNegative
<1>1. DdIndInv => DdLedgerNonNegative
  BY DEF DdIndInv
<1> QED
  BY <1>1, DdInvariant, PTL

-----------------------------------------------------------------------------
(* What the guests and host_free.txt own together.                         *)

(***************************************************************************)
(* A guest charged while it has a control: it was evaluated in the pass    *)
(* for 30 to 90 percent after the pass for up to 30 or from 90 percent on. *)
(***************************************************************************)
LEMMA RechargeIsAtThreshold ==
  ASSUME DdIndInv, NEW g \in Guests, DdEvalGuest(g), control[g] # NoTarget,
         DdTarget(rules, pass, snap[g], hostFree, pressure) # NoTarget
  PROVE  ChargedTwice(g)
<1> DEFINE target == DdTarget(rules, pass, snap[g], hostFree, pressure)
           h == snap[g]
<1>1. /\ g \in todo /\ pc = "evaluating" /\ rules \in RuleFiles
      /\ rules # "opt_select" /\ pass \in 1 .. Passes(rules)
      /\ hostFree' = hostFree - (target - Cur(h))
      /\ target \in Int /\ Cur(h) \in Int /\ hostFree \in Nat
      /\ h \in Seq(Samples) /\ h # << >>
  BY DdEvaluation
<1>2. PassInv
  BY DEF DdIndInv
<1>3. pass > 1
  BY <1>1, <1>2 DEF PassInv
<1>4. rules = "iballoon" /\ pass \in 2 .. 4
  BY <1>1, <1>3 DEF Passes
<1>5. h \in Seq(BoundedSamples) /\ rules \in Bounded
  BY <1>4 DEF DdIndInv, DdBoundsInv, SizesInv, Bounded
<1>6. StatAvg(h, "cur") \in Int /\ StatAvg(h, "cur") > 0 /\ UsedMem(h) \in Int
  BY <1>1, <1>5, AverageInBounds, AverageIsInt, MemoryAssumption DEF Sizes, UsedMem
<1>7. Cur(h) \in Sizes
  BY <1>1, <1>5, LastIsElement DEF Cur, BoundedSamples
<1>8. CASE pass = 2
  <2>1. ~Above(h, 3)
    BY <1>1, <1>2, <1>4, <1>8 DEF PassInv
  <2>2. ~Below(h, 9)
    BY <1>4, <1>8 DEF DdTarget, Dd_policy8_grow_critical
  <2> QED
    BY <1>6, <2>1, <2>2 DEF Above, Below
<1>9. CASE pass = 3
  <2>1. ~Above(h, 3) \/ ~Below(h, 9)
    BY <1>1, <1>2, <1>4, <1>9 DEF PassInv
  <2>2. /\ target = Dd_policy8_grow_warn(h, hostFree)
        /\ target # NoTarget
    BY <1>4, <1>9 DEF DdTarget
  <2>3. ~Above(h, 9) /\ ~Below(h, 3) /\ target > Cur(h)
    BY <1>1, <1>7, <2>2 DEF Dd_policy8_grow_warn, IfPaid
  <2>4. AtThreshold(h)
    BY <2>1, <2>3 DEF AtThreshold
  <2> QED
    BY <1>1, <1>3, <2>3, <2>4 DEF ChargedTwice
<1>10. CASE pass = 4
  <2>1. target = Dd_policy8_shrink_warn(h, hostFree)
    BY <1>4, <1>10 DEF DdTarget
  <2>2. (UsedMem(h) * 100) \div 85 \in Int
    BY <1>6
  <2>3. Lo(Hi((UsedMem(h) * 100) \div 85, Cur(h)), BalloonMax) >= Cur(h)
    BY <1>7, <2>2, MemoryAssumption DEF Lo, Hi, Sizes
  <2>4. target = NoTarget
    BY <1>7, <2>1, <2>3, MemoryAssumption DEF Dd_policy8_shrink_warn, IfSmaller, Lo, Hi, Sizes
  <2> QED
    BY <2>4
<1> QED
  BY <1>4, <1>8, <1>9, <1>10

LEMMA DdDriftStep ==
  DdIndInv /\ [DdNext]_ddVars
    => (LedgerTotal' # LedgerTotal =>
          \E g \in Guests : StaleCharge(g) \/ DroppedCharge(g) \/ ChargedTwice(g))
<1> DEFINE Exempt == \E g \in Guests : StaleCharge(g) \/ DroppedCharge(g) \/ ChargedTwice(g)
<1> SUFFICES ASSUME DdIndInv, [DdNext]_ddVars
             PROVE  LedgerTotal' = LedgerTotal \/ Exempt
  OBVIOUS
<1>1. TypeOK /\ TickInv
  BY DEF DdIndInv, DdTypeOK
<1>2. CASE DdDoControls \/ DdEvalDone \/ ([Beside]_vars /\ UNCHANGED dd)
  <2>1. [NextButEval]_vars
    BY <1>2, BesideIsNext DEF DdDoControls, DdEvalDone, NextButEval
  <2> QED
    BY <1>1, <2>1, DriftWithoutEval
<1>3. CASE NextPass
  BY <1>3, SameShares DEF NextPass, files, qemu, Held
<1>4. ASSUME NEW g \in Guests, rules = "opt_select", EvalGuest(g)
      PROVE  LedgerTotal' = LedgerTotal \/ Exempt
  <2>1. pass = 1 /\ g \in todo
    BY <1>4 DEF DdIndInv, DdTypeOK, EvalGuest, Passes
  <2>2. ChargedOnce
    BY <1>4 DEF ChargedOnce, DdIndInv, DdTypeOK, TypeOK, PassInv, Passes
  <2>3. [Next]_vars
    BY <1>4 DEF Next, Tick
  <2> QED
    BY <1>1, <2>2, <2>3, DriftStep
<1>5. ASSUME NEW g \in Guests, DdEvalGuest(g)
      PROVE  LedgerTotal' = LedgerTotal \/ Exempt
  <2> DEFINE target == DdTarget(rules, pass, snap[g], hostFree, pressure)
  <2>1. /\ target \in Int \cup {NoTarget}
        /\ control' = IF target = NoTarget THEN control
                      ELSE [control EXCEPT ![g] = target]
        /\ hostFree' = IF target = NoTarget THEN hostFree
                       ELSE hostFree - (target - Cur(snap[g]))
        /\ qtarget' = qtarget
    BY <1>5, DdEvaluation DEF qemu
  <2>2. CASE target = NoTarget
    <3> HIDE DEF target
    <3> QED
      BY <2>1, <2>2, SameShares DEF Held
  <2>3. CASE target # NoTarget /\ control[g] = NoTarget
    <3> HIDE DEF target
    <3> QED
      BY <1>1, <2>1, <2>3, BookingStep DEF Cur
  <2>4. CASE target # NoTarget /\ control[g] # NoTarget
    BY <1>5, <2>4, RechargeIsAtThreshold
  <2> QED
    BY <2>2, <2>3, <2>4
<1> QED
  BY <1>2, <1>3, <1>4, <1>5, DdNextSplits

(***************************************************************************)
(* Under every rule file, memory is only made or lost by a stale snapshot, *)
(* a dropped control, or a guest at exactly 30 or 90 percent that two      *)
(* passes of iballoon.rules charge.                                        *)
(***************************************************************************)
THEOREM DdDriftSources == DdSpec => DdLedgerDrift
<1>1. DdIndInv /\ [DdNext]_ddVars
        => [LedgerTotal' # LedgerTotal =>
              \E g \in Guests : StaleCharge(g) \/ DroppedCharge(g) \/ ChargedTwice(g)]_ddVars
  BY DdDriftStep
<1> QED
  BY DdInvariant, <1>1, PTL DEF DdSpec, DdLedgerDrift
-----------------------------------------------------------------------------
(* When the ticks find the guests settled.                                 *)

(***************************************************************************)
(* The settled conditions of BalloonControl, under every rule file: each   *)
(* tick finds the guests at their targets and sampled since, and is not    *)
(* broken off once it has charged something.                               *)
(***************************************************************************)
WholeTicksBeside ==
  \/ Sampling \/ Restart \/ Operator \/ MoveBalloons
  \/ (EvalFail \/ Kill) /\ NothingCharged
  \/ \E g \in Guests : CollectFail(g)

DdSettledNext == SettledTick \/ DdTick \/ (WholeTicksBeside /\ UNCHANGED dd)

DdSettledSpec == DdInit /\ [][DdSettledNext]_ddVars

(***************************************************************************)
(* What these conditions preserve: each evaluated guest is at the size its *)
(* snapshot shows, through all passes, and a control no longer to be       *)
(* applied is QEMU's target.                                               *)
(***************************************************************************)
DdSettledInv ==
  /\ pc = "evaluating" =>
       \A g \in Guests : snap[g] # << >> => Last(snap[g]).cur = qtarget[g]
  /\ pc = "applying" =>
       \A g \in Guests \ todo : control[g] # NoTarget => qtarget[g] = control[g]

LEMMA DdSettledNextIsNext == DdSettledNext => DdNext
  BY DEF DdSettledNext, SettledTick, WholeTicksBeside, DdNext, Failure, Process

(***************************************************************************)
(* Guests in steady use are a case of it.                                  *)
(***************************************************************************)
LEMMA SteadyIsSettled == SteadySpec => DdSettledSpec
<1>1. SteadyNext => DdSettledNext
  BY DEF SteadyNext, SteadySampling, SteadyCollect, DdSettledNext, WholeTicksBeside,
    Sampling
<1> QED
  BY <1>1, PTL DEF SteadySpec, DdSettledSpec

LEMMA DdSettledSplits ==
  ASSUME [DdSettledNext]_ddVars
  PROVE  \/ DdDoControls /\ Settled
         \/ NextPass
         \/ \E g \in Guests : DdEvalGuest(g)
         \/ \E g \in Guests : rules = "opt_select" /\ EvalGuest(g) /\ UNCHANGED dd
         \/ DdEvalDone
         \/ ApplyDone /\ UNCHANGED dd
         \/ \E g \in Guests : Apply(g) /\ UNCHANGED dd
         \/ (WholeTicksBeside \/ UNCHANGED vars) /\ UNCHANGED dd
  BY DEF DdSettledNext, SettledTick, DdTick, ddVars

(***************************************************************************)
(* Sampling and failed ticks that charged nothing leave the controls and   *)
(* the commands alone, and they start no evaluation.                       *)
(***************************************************************************)
LEMMA WholeTicksKeep ==
  ASSUME TickInv, WholeTicksBeside \/ UNCHANGED vars
  PROVE  /\ UNCHANGED <<hostFree, control, qtarget>>
         /\ pc' \in {"evaluating", "applying"} => UNCHANGED <<pc, snap, todo>>
<1> USE DEF files, monitors, engine, qemu
<1>1. CASE \/ Sampling \/ Operator \/ MoveBalloons \/ UNCHANGED vars
           \/ \E g \in Guests : CollectFail(g)
  BY <1>1 DEF Sampling, StartRound, Collect, CollectFail, Operator, SetStepPolicy,
    SetRefType, SetRefParams, MoveBalloons, MoveBalloon, vars
<1>2. CASE Restart
  BY <1>2 DEF Restart
<1>3. CASE (EvalFail \/ Kill) /\ NothingCharged
  BY <1>3 DEF EvalFail, Kill, Stop, EndTick, NothingCharged
<1> QED
  BY <1>1, <1>2, <1>3 DEF WholeTicksBeside

LEMMA DdSettledInvNext ==
  DdIndInv /\ DdSettledInv /\ [DdSettledNext]_ddVars => DdSettledInv'
<1> SUFFICES ASSUME DdIndInv, DdSettledInv, [DdSettledNext]_ddVars
             PROVE  DdSettledInv'
  OBVIOUS
<1>0. TypeOK /\ TickInv
  BY DEF DdIndInv, DdTypeOK
<1> USE DEF DdSettledInv
<1>1. CASE DdDoControls /\ Settled
  BY <1>0, <1>1 DEF DdDoControls, DoControls, Settled, TypeOK, qemu
<1>2. CASE NextPass
  BY <1>2 DEF NextPass, qemu
<1>3. ASSUME NEW g \in Guests, DdEvalGuest(g)
      PROVE  DdSettledInv'
  BY <1>3 DEF DdEvalGuest, qemu
<1>4. ASSUME NEW g \in Guests, EvalGuest(g)
      PROVE  DdSettledInv'
  BY <1>4 DEF EvalGuest, qemu
<1>5. CASE DdEvalDone
  BY <1>5 DEF DdEvalDone, EvalDone
<1>6. CASE ApplyDone
  BY <1>6 DEF ApplyDone, EndTick
<1>7. ASSUME NEW g \in Guests, Apply(g)
      PROVE  DdSettledInv'
  BY <1>0, <1>7 DEF Apply, TypeOK
<1>8. CASE WholeTicksBeside \/ UNCHANGED vars
  BY <1>0, <1>8, WholeTicksKeep
<1> QED
  BY <1>1, <1>2, <1>3, <1>4, <1>5, <1>6, <1>7, <1>8, DdSettledSplits

(***************************************************************************)
(* Under every rule file, settled ticks that are not broken off charge no  *)
(* stale size and drop no control.                                         *)
(***************************************************************************)
THEOREM DdSettledInvariant == DdSettledSpec => [](DdIndInv /\ DdSettledInv)
<1>1. DdInit => DdIndInv /\ DdSettledInv
  <2>1. DdInit => DdSettledInv
    BY DEF DdInit, Init, DdSettledInv
  <2> QED
    BY <2>1, DdIndInit
<1>2. DdSettledSpec => DdSpec
  BY DdSettledNextIsNext, PTL DEF DdSettledSpec, DdSpec
<1>3. DdIndInv /\ DdSettledInv /\ [DdSettledNext]_ddVars => DdSettledInv'
  BY DdSettledInvNext
<1> QED
  BY <1>1, <1>2, <1>3, DdInvariant, PTL DEF DdSettledSpec

(***************************************************************************)
(* The opt_select rules have one pass: a guest is charged at most once.    *)
(***************************************************************************)
LEMMA OptSelectChargesOnce ==
  ASSUME DdIndInv, rules = "opt_select"
  PROVE  ChargedOnce
  BY DEF ChargedOnce, DdIndInv, DdTypeOK, TypeOK, PassInv, Passes

(***************************************************************************)
(* Only the passes of iballoon.rules are left to make or lose memory.      *)
(***************************************************************************)
LEMMA DdSettledDrift ==
  DdIndInv /\ DdSettledInv /\ [DdSettledNext]_ddVars
    => (LedgerTotal' # LedgerTotal => \E g \in Guests : ChargedTwice(g))
<1> SUFFICES ASSUME DdIndInv, DdSettledInv, [DdSettledNext]_ddVars,
                    NEW g \in Guests, StaleCharge(g) \/ DroppedCharge(g)
             PROVE  FALSE
  BY DdDriftStep, DdSettledNextIsNext
<1>0. TypeOK /\ TickInv
  BY DEF DdIndInv, DdTypeOK
<1>1. control'[g] # control[g]
  BY DEF StaleCharge, DroppedCharge
<1>2. ASSUME NEW h \in Guests, DdEvalGuest(h)
      PROVE  FALSE
  <2> DEFINE target == DdTarget(rules, pass, snap[h], hostFree, pressure)
  <2>1. /\ control' = IF target = NoTarget THEN control
                      ELSE [control EXCEPT ![h] = target]
        /\ pc = "evaluating" /\ snap[h] # << >>
    BY <1>2, DdEvaluation
  <2> HIDE DEF target
  <2>2. h = g /\ control'[g] # NoTarget
    BY <1>0, <1>1, <2>1 DEF TypeOK
  <2>3. Last(snap[g]).cur = qtarget[g]
    BY <2>1, <2>2 DEF DdSettledInv
  <2> QED
    BY <2>2, <2>3 DEF StaleCharge, DroppedCharge
<1>3. ASSUME NEW h \in Guests, rules = "opt_select", EvalGuest(h)
      PROVE  FALSE
  <2>1. pc = "evaluating" /\ h \in todo /\ control[h] = NoTarget /\ snap[h] # << >>
    BY <1>0, <1>3, OptSelectChargesOnce DEF EvalGuest, ChargedOnce, TickInv
  <2>2. h = g
    BY <1>0, <1>1, <1>3 DEF EvalGuest, TypeOK
  <2>3. Last(snap[g]).cur = qtarget[g]
    BY <2>1, <2>2 DEF DdSettledInv
  <2> QED
    BY <2>1, <2>2, <2>3 DEF StaleCharge, DroppedCharge
<1>4. CASE ApplyDone
  <2>1. control[g] # NoTarget => qtarget[g] = control[g]
    BY <1>4 DEF ApplyDone, DdSettledInv
  <2> QED
    BY <1>4, <2>1 DEF ApplyDone, EndTick, NoControls, StaleCharge, DroppedCharge, qemu
<1>5. CASE \/ DdDoControls \/ NextPass \/ DdEvalDone
           \/ \E h \in Guests : Apply(h)
  BY <1>1, <1>5 DEF DdDoControls, DoControls, NextPass, DdEvalDone, EvalDone, Apply
<1>6. CASE WholeTicksBeside \/ UNCHANGED vars
  BY <1>0, <1>1, <1>6, WholeTicksKeep
<1> QED
  BY <1>2, <1>3, <1>4, <1>5, <1>6, DdSettledSplits

(***************************************************************************)
(* Under the settled conditions a guest that two passes of iballoon.rules  *)
(* charge is the only source of drift.                                     *)
(***************************************************************************)
THEOREM DdSettledDriftIsTwofold ==
  DdSettledSpec
    => [][LedgerTotal' # LedgerTotal => \E g \in Guests : ChargedTwice(g)]_ddVars
<1>1. DdIndInv /\ DdSettledInv /\ [DdSettledNext]_ddVars
        => [LedgerTotal' # LedgerTotal => \E g \in Guests : ChargedTwice(g)]_ddVars
  BY DdSettledDrift
<1> QED
  BY <1>1, DdSettledInvariant, PTL DEF DdSettledSpec

(***************************************************************************)
(* Rule files with one pass make no memory under these conditions.         *)
(***************************************************************************)
OnePass == rules # "iballoon"

THEOREM DdSettledConserves == DdSettledSpec => [](OnePass => LedgerTotal =< HostMemory)
<1> DEFINE Inv == OnePass => LedgerTotal =< HostMemory
<1>1. DdInit => Inv
  BY InitialTotal DEF DdInit
<1>2. ASSUME DdIndInv, DdSettledInv, [DdSettledNext]_ddVars, Inv
      PROVE  Inv'
  <2>1. rules' = rules
    BY <1>2, DdSettledSplits DEF DdDoControls, NextPass, DdEvalGuest, DdEvalDone, dd
  <2>2. OnePass => \A g \in Guests : ~ChargedTwice(g)
    <3>1. hostFree' # hostFree => pc = "evaluating"
      BY <1>2, DdSettledSplits, WholeTicksKeep
      DEF DdDoControls, DoControls, NextPass, DdEvalGuest, EvalGuest, DdEvalDone, EvalDone,
        ApplyDone, Apply, files, DdIndInv
    <3>2. pc = "evaluating" /\ OnePass => pass = 1
      BY <1>2 DEF OnePass, DdIndInv, DdTypeOK, Passes
    <3> QED
      BY <3>1, <3>2 DEF ChargedTwice
  <2>3. OnePass => LedgerTotal' = LedgerTotal
    BY <1>2, <2>2, DdSettledDrift
  <2> QED
    BY <1>2, <2>1, <2>3 DEF OnePass, HostMemory
<1> QED
  BY <1>1, <1>2, DdSettledInvariant, PTL DEF DdSettledSpec
(***************************************************************************)
(* Under the settled conditions no rule file of the compared algorithms    *)
(* but iballoon.rules lets the guests hold more memory at rest than they   *)
(* and host_free.txt owned at the start.                                   *)
(***************************************************************************)
THEOREM DdSettledNoOvercommit ==
  DdSettledSpec => [](rules \notin {"iballoon", "opt_select"} => NoOvercommitAtRest)
<1>1. ASSUME DdIndInv, OnePass => LedgerTotal =< HostMemory,
             rules \notin {"iballoon", "opt_select"}, AtRest
      PROVE  InUse =< HostMemory
  <2>1. control = NoControls
    BY <1>1 DEF AtRest, DdIndInv, TickInv, NothingCharged
  <2>2. [g \in Guests |-> Held(g)] = actual
    BY <1>1, <2>1 DEF NoControls, Held, AtRest, DdIndInv, DdTypeOK, TypeOK
  <2>3. TotalHeld = InUse
    BY <2>2 DEF TotalHeld, InUse
  <2>4. InUse \in Int
    <3>1. actual \in [Guests -> Int]
      BY <1>1 DEF DdIndInv, DdTypeOK, TypeOK
    <3> QED
      BY <3>1, SumType, ControlAssumption DEF InUse
  <2>5. hostFree \in Int /\ hostFree >= 0
    BY <1>1 DEF DdIndInv, DdTypeOK, TypeOK, DdLedgerNonNegative
  <2>6. hostFree + InUse =< HostMemory
    BY <1>1, <2>3 DEF OnePass, LedgerTotal
  <2> QED
    BY <2>4, <2>5, <2>6, GreatestInitial
<1>2. DdIndInv /\ (OnePass => LedgerTotal =< HostMemory)
        => (rules \notin {"iballoon", "opt_select"} => NoOvercommitAtRest)
  BY <1>1 DEF NoOvercommitAtRest
<1> QED
  BY <1>2, DdSettledInvariant, DdSettledConserves, PTL

-----------------------------------------------------------------------------
(* Refinement: the settled ticks of four algorithms are transfers.         *)

(***************************************************************************)
(* The rule files whose decisions stay within bounds and are made in one   *)
(* pass.                                                                   *)
(***************************************************************************)
LedgerKept == RuleFiles \subseteq Bounded \ {"iballoon"}

LEMMA DdSettledStepIsTransfer ==
  ASSUME LedgerKept
  PROVE  DdIndInv /\ DdSettledInv /\ [DdSettledNext]_ddVars
           => [Ledger!Next]_<<hostFree, [g \in Guests |-> Held(g)]>>
<1> DEFINE held == [g \in Guests |-> Held(g)]
<1> SUFFICES ASSUME DdIndInv, DdSettledInv, [DdSettledNext]_ddVars
             PROVE  Ledger!Next \/ (hostFree' = hostFree /\ held' = held)
  OBVIOUS
<1>0. /\ TypeOK /\ TickInv /\ SizesInv /\ PassInv
      /\ rules \in Bounded /\ rules # "iballoon" /\ rules # "opt_select"
  BY DEF DdIndInv, DdTypeOK, DdBoundsInv, LedgerKept, Bounded
<1>1. CASE UNCHANGED <<hostFree, control, qtarget>>
  BY <1>1 DEF Held
<1>2. ASSUME NEW g \in Guests, DdEvalGuest(g)
      PROVE  Ledger!Next \/ (hostFree' = hostFree /\ held' = held)
  <2> DEFINE target == DdTarget(rules, pass, snap[g], hostFree, pressure)
             cur == Cur(snap[g])
  <2>1. /\ target \in Sizes \cup {NoTarget}
        /\ PaidFor(snap[g], hostFree, target)
        /\ control' = IF target = NoTarget THEN control
                      ELSE [control EXCEPT ![g] = target]
        /\ hostFree' = IF target = NoTarget THEN hostFree
                       ELSE hostFree - (target - cur)
        /\ qtarget' = qtarget /\ g \in todo /\ pc = "evaluating"
        /\ pass = 1 /\ snap[g] # << >>
        /\ cur \in Int /\ hostFree \in Nat
    BY <1>0, <1>2, DdEvaluation DEF qemu, Passes
  <2>2. control[g] = NoTarget
    BY <1>0, <2>1 DEF PassInv
  <2>3. cur = qtarget[g]
    BY <2>1 DEF DdSettledInv, Cur
  <2>4. CASE target = NoTarget
    <3> HIDE DEF target
    <3> QED
      BY <2>1, <2>4 DEF Held
  <2>5. CASE target # NoTarget
    <3>1. target \in Sizes /\ target \in Int
      BY <2>1, <2>5 DEF Sizes
    <3>2. hostFree' = hostFree - (target - cur) /\ hostFree' >= 0
      <4>1. target < cur \/ hostFree - (target - cur) > 0
        BY <2>1, <2>5 DEF PaidFor
      <4> HIDE DEF target, cur
      <4> QED
        BY <2>1, <2>5, <3>1, <4>1
    <3>3. control' = [control EXCEPT ![g] = target]
      BY <2>1, <2>5
    <3>4. held' = [held EXCEPT ![g] = target]
      <4> HIDE DEF target
      <4> QED
        BY <1>0, <2>1, <2>5, <3>3 DEF Held, TypeOK
    <3>5. held[g] = cur
      BY <2>2, <2>3 DEF Held
    <3>6. Ledger!Transfer(g, target)
      BY <3>2, <3>4, <3>5 DEF Ledger!Transfer
    <3> QED
      BY <3>1, <3>6 DEF Ledger!Next, Sizes
  <2> QED
    BY <2>4, <2>5
<1>3. ASSUME NEW g \in Guests, Apply(g)
      PROVE  hostFree' = hostFree /\ held' = held
  BY <1>0, <1>3 DEF Apply, TypeOK, TickInv, Held, files
<1>4. CASE ApplyDone
  <2>1. \A g \in Guests : control[g] # NoTarget => qtarget[g] = control[g]
    BY <1>4 DEF ApplyDone, DdSettledInv
  <2> QED
    BY <1>4, <2>1 DEF ApplyDone, EndTick, NoControls, Held, files, qemu
<1>5. CASE DdDoControls \/ NextPass \/ DdEvalDone
  <2>1. UNCHANGED <<hostFree, control, qtarget>>
    BY <1>5 DEF DdDoControls, DoControls, NextPass, DdEvalDone, EvalDone, files, qemu
  <2> QED
    BY <1>1, <2>1
<1>6. CASE WholeTicksBeside \/ UNCHANGED vars
  BY <1>0, <1>1, <1>6, WholeTicksKeep
<1> QED
  BY <1>0, <1>2, <1>3, <1>4, <1>5, <1>6, DdSettledSplits

(***************************************************************************)
(* Under the settled conditions the rules of XenServer, of the dynamic     *)
(* memory allocation controller, of Wei-Zhe Zhang and of U-tube implement  *)
(* the abstract ledger, as the opt policies do.                            *)
(***************************************************************************)
THEOREM DdSettledImplementsLedger ==
  ASSUME LedgerKept
  PROVE  DdSettledSpec => LedgerSpec
<1>1. DdInit => Ledger!Init
  <2> SUFFICES ASSUME DdInit PROVE Ledger!Init
    OBVIOUS
  <2>1. \A g \in Guests : Held(g) \in Sizes
    BY ControlAssumption DEF DdInit, Init, NoControls, Held
  <2> QED
    BY <2>1, ControlAssumption DEF DdInit, Init, Ledger!Init, Sizes
<1> QED
  BY <1>1, DdSettledInvariant, DdSettledStepIsTransfer, PTL
  DEF DdSettledSpec, LedgerSpec, Ledger!Spec

(***************************************************************************)
(* Guests in steady use, the case TargetsSettle is checked for: no memory  *)
(* is made on the way to the sizes they settle at.                         *)
(***************************************************************************)
THEOREM SteadyNoOvercommit ==
  SteadySpec => [](rules \notin {"iballoon", "opt_select"} => NoOvercommitAtRest)
  BY SteadyIsSettled, DdSettledNoOvercommit, PTL
=============================================================================
