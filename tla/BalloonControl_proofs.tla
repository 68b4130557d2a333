----------------------- MODULE BalloonControl_proofs -----------------------
(***************************************************************************)
(* Proofs about the control loop, for every number of guests, every memory *)
(* size, every set of policy parameters and every interleaving of          *)
(* BalloonControl!Next, failures and restarts included: what holds under   *)
(* all policies, then what the step policy adds, then what holds when the  *)
(* ticks find the guests settled.                                          *)
(***************************************************************************)
EXTENDS BalloonControl, SumTheorems, SequenceTheorems, TLAPS

-----------------------------------------------------------------------------
(* Arithmetic of the policy.                                               *)

(***************************************************************************)
(* Rounding an amount down to whole chunks yields at most that amount.     *)
(***************************************************************************)
LEMMA WholeChunks ==
  ASSUME NEW c \in Nat \ {0}, NEW n \in Nat
  PROVE  /\ c * (n \div c) \in Nat
         /\ c * (n \div c) =< n
<1>1. /\ n \div c \in Int
      /\ n = c * (n \div c) + (n % c)
      /\ n % c \in 0 .. c - 1
  OBVIOUS
<1>2. n \div c >= 0
  OBVIOUS
<1>3. c * (n \div c) \in Nat
  BY <1>1, <1>2
<1> QED
  BY <1>1, <1>3

(***************************************************************************)
(* Rounding down: the greatest quotient that is not too large.             *)
(***************************************************************************)
LEMMA FloorIsGreatest ==
  ASSUME NEW n \in Int, NEW d \in Nat \ {0}
  PROVE  /\ n \div d \in Int
         /\ \A c \in Int : d * c =< n => c =< n \div d
         /\ \A c \in Int : n < d * c => n \div d < c
<1> DEFINE q == n \div d
           r == n % d
<1>1. q \in Int /\ r \in 0 .. d - 1 /\ n = d * q + r
  OBVIOUS
<1> HIDE DEF q, r
<1>2. ASSUME NEW c \in Int, d * c =< n
      PROVE  c =< q
  <2> SUFFICES ASSUME c > q PROVE FALSE
    BY <1>1
  <2>1. c - 1 - q \in Nat
    BY <1>1
  <2>2. d * (c - 1 - q) >= 0
    BY <2>1
  <2>3. d * (c - 1 - q) = d * c - d - d * q
    BY <1>1
  <2> QED
    BY <1>1, <1>2, <2>2, <2>3
<1>3. ASSUME NEW c \in Int, n < d * c
      PROVE  q < c
  <2> SUFFICES ASSUME q >= c PROVE FALSE
    BY <1>1
  <2>1. q - c \in Nat
    BY <1>1
  <2>2. d * (q - c) >= 0
    BY <2>1
  <2>3. d * (q - c) = d * q - d * c
    BY <1>1
  <2> QED
    BY <1>1, <1>3, <2>2, <2>3
<1> QED
  BY <1>1, <1>2, <1>3 DEF q

(***************************************************************************)
(* The ledger check of the grow functions: what becomes of a target within *)
(* bounds is within bounds, and host_free.txt pays for it.                 *)
(***************************************************************************)
LEMMA AffordableIsPaid ==
  ASSUME NEW cur \in Sizes, NEW free \in Nat, NEW want \in Sizes
  PROVE  /\ Affordable(cur, free, want) \in Sizes
         /\ free - (Affordable(cur, free, want) - cur) \in Nat
<1> DEFINE chunks == Chunk * (free \div Chunk)
<1>1. /\ chunks \in Nat
      /\ chunks =< free
  BY WholeChunks, MemoryAssumption
<1>2. Affordable(cur, free, want) =
        IF free - (want - cur) < 0 THEN cur + chunks ELSE want
  BY DEF Affordable
<1> HIDE DEF chunks
<1>3. CASE free - (want - cur) < 0
  <2>1. cur + chunks \in Sizes
    BY <1>1, <1>3, MemoryAssumption DEF Sizes
  <2> QED
    BY <2>1, <1>1, <1>2, <1>3, MemoryAssumption DEF Sizes
<1>4. CASE ~(free - (want - cur) < 0)
  BY <1>2, <1>4, MemoryAssumption DEF Sizes
<1> QED
  BY <1>3, <1>4

(***************************************************************************)
(* opt_policy_grow_step: the target is in bounds, and host_free.txt pays   *)
(* for it.                                                                 *)
(***************************************************************************)
LEMMA GrowStepIsAffordable ==
  ASSUME NEW cur \in Sizes, NEW free \in Nat, NEW step \in Nat
  PROVE  LET target == opt_policy_grow_step(cur, free, step)
         IN  /\ target \in Sizes
             /\ free - (target - cur) \in Nat
<1> DEFINE want == IF cur + step > BalloonMax THEN BalloonMax ELSE cur + step
<1>1. want \in Sizes
  BY MemoryAssumption DEF Sizes
<1>2. opt_policy_grow_step(cur, free, step) = Affordable(cur, free, want)
  BY DEF opt_policy_grow_step
<1> HIDE DEF want
<1> QED
  BY <1>1, <1>2, AffordableIsPaid

(***************************************************************************)
(* opt_policy_shrink_step: the target is in bounds and not above the       *)
(* current size, so it pays into host_free.txt.                            *)
(***************************************************************************)
LEMMA ShrinkStepCredits ==
  ASSUME NEW cur \in Sizes, NEW free \in Nat, NEW step \in Nat
  PROVE  LET target == opt_policy_shrink_step(cur, step)
         IN  /\ target \in Sizes
             /\ target =< cur
             /\ free - (target - cur) \in Nat
  BY MemoryAssumption DEF opt_policy_shrink_step, Sizes

(***************************************************************************)
(* What the reference policy needs of its parameters: it aims at a use     *)
(* beyond the threshold that triggered it (parameters.txt: ref_grow_ref is *)
(* ref_grow_threshold, ref_shrink_ref is ref_shrink_threshold), and        *)
(* balloon_min is a whole number of MB.                                    *)
(***************************************************************************)
RefAtThreshold ==
  /\ BalloonMin % MB = 0
  /\ \A p \in RefParams : /\ p.grow_ref =< p.grow_threshold
                          /\ p.shrink_threshold =< p.shrink_ref

(***************************************************************************)
(* opt_policy_grow_ref, triggered by the use of the size it grows: the     *)
(* target is in bounds, and host_free.txt pays for it.                     *)
(***************************************************************************)
LEMMA GrowRefIsAffordable ==
  ASSUME NEW cur \in Sizes, NEW free \in Nat, NEW used \in Int,
         NEW ref \in Nat \ {0}, NEW threshold \in Nat, ref =< threshold,
         used * Den > threshold * cur, BalloonMin % MB = 0
  PROVE  LET target == opt_policy_grow_ref(cur, free, used, ref)
         IN  /\ target \in Sizes
             /\ free - (target - cur) \in Nat
<1> DEFINE n == used * Den
           q == n \div ref
           want == IF RefTarget(used, ref) > BalloonMax
                   THEN BalloonMax ELSE RefTarget(used, ref)
<1>1. cur \in Nat /\ BalloonMin \in Nat /\ BalloonMin =< cur /\ n \in Int
  BY MemoryAssumption DEF Sizes
<1>2. ref * cur =< n
  <2>1. (threshold - ref) * cur >= 0
    <3>1. threshold - ref \in Nat
      OBVIOUS
    <3> QED
      BY <3>1, <1>1
  <2>2. (threshold - ref) * cur = threshold * cur - ref * cur
    BY <1>1
  <2>3. ref * cur \in Int /\ threshold * cur \in Int
    BY <1>1
  <2> QED
    BY <1>1, <2>1, <2>2, <2>3
<1>3. q \in Int /\ cur =< q
  BY <1>1, <1>2, FloorIsGreatest
<1>4. RefTarget(used, ref) = MB * (q \div MB)
  BY DEF RefTarget
<1> HIDE DEF n, q
<1>5. RefTarget(used, ref) \in Int /\ BalloonMin =< RefTarget(used, ref)
  <2> DEFINE least == BalloonMin \div MB
  <2>1. least \in Int /\ BalloonMin = MB * least
    BY <1>1, MemoryAssumption
  <2> HIDE DEF least
  <2>2. MB * least =< q
    BY <1>1, <1>3, <2>1
  <2>3. q \div MB \in Int /\ least =< q \div MB
    BY <1>3, <2>1, <2>2, FloorIsGreatest, MemoryAssumption
  <2> DEFINE floor == q \div MB
  <2>4. floor \in Int /\ floor - least \in Nat
    BY <2>1, <2>3
  <2> HIDE DEF floor
  <2>5. MB * (floor - least) >= 0 /\ MB * (floor - least) = MB * floor - MB * least
    BY <2>1, <2>4, MemoryAssumption
  <2>6. MB * floor \in Int
    BY <2>4, MemoryAssumption
  <2>7. RefTarget(used, ref) = MB * floor
    BY <1>4 DEF floor
  <2> QED
    BY <1>1, <2>1, <2>5, <2>6, <2>7
<1>6. want \in Sizes
  BY <1>5, MemoryAssumption DEF Sizes
<1>7. opt_policy_grow_ref(cur, free, used, ref) = Affordable(cur, free, want)
  BY DEF opt_policy_grow_ref
<1> HIDE DEF want
<1> QED
  BY <1>6, <1>7, AffordableIsPaid

(***************************************************************************)
(* opt_policy_shrink_ref, triggered by the use of the size it shrinks: the *)
(* target is in bounds and not above the size, so it pays into             *)
(* host_free.txt.                                                          *)
(***************************************************************************)
LEMMA ShrinkRefCredits ==
  ASSUME NEW cur \in Sizes, NEW free \in Nat, NEW used \in Int,
         NEW ref \in Nat \ {0}, NEW threshold \in Nat, threshold =< ref,
         used * Den < threshold * cur
  PROVE  LET target == opt_policy_shrink_ref(used, ref)
         IN  /\ target \in Sizes
             /\ free - (target - cur) \in Nat
<1> DEFINE n == used * Den
           q == n \div ref
<1>1. cur \in Nat /\ BalloonMin \in Nat /\ n \in Int
  BY MemoryAssumption DEF Sizes
<1>2. n < ref * cur
  <2>1. (ref - threshold) * cur >= 0
    <3>1. ref - threshold \in Nat
      OBVIOUS
    <3> QED
      BY <3>1, <1>1
  <2>2. (ref - threshold) * cur = ref * cur - threshold * cur
    BY <1>1
  <2>3. ref * cur \in Int /\ threshold * cur \in Int
    BY <1>1
  <2> QED
    BY <1>1, <2>1, <2>2, <2>3
<1>3. q \in Int /\ q < cur
  BY <1>1, <1>2, FloorIsGreatest
<1>4. RefTarget(used, ref) = MB * (q \div MB)
  BY DEF RefTarget
<1> HIDE DEF n, q
<1>5. RefTarget(used, ref) \in Int /\ RefTarget(used, ref) =< cur
  <2> DEFINE floor == q \div MB
             rem == q % MB
  <2>1. floor \in Int /\ rem \in 0 .. MB - 1 /\ q = MB * floor + rem
    BY <1>3, MemoryAssumption
  <2>2. RefTarget(used, ref) = MB * floor
    BY <1>4
  <2> HIDE DEF floor, rem
  <2>3. MB * floor \in Int
    BY <2>1, MemoryAssumption
  <2> QED
    BY <1>1, <1>3, <2>1, <2>2, <2>3
<1> QED
  BY <1>5, MemoryAssumption DEF opt_policy_shrink_ref, Sizes

-----------------------------------------------------------------------------
(* The samples.                                                            *)

LEMMA LastIsElement ==
  ASSUME NEW S, NEW s \in Seq(S), s # << >>
  PROVE  Last(s) \in S
  BY DEF Last

LEMMA RecordedIsHistory ==
  ASSUME NEW S, NEW h \in Seq(S), NEW row \in S
  PROVE  /\ Recorded(h, row) \in Seq(S)
         /\ Recorded(h, row) # << >>
<1> DEFINE longer == Append(h, row)
<1>1. /\ longer \in Seq(S)
      /\ Len(longer) = Len(h) + 1
  OBVIOUS
<1>2. Recorded(h, row) =
        IF Len(longer) > HistoryLength THEN Tail(longer) ELSE longer
  BY DEF Recorded
<1> HIDE DEF longer
<1>3. longer # << >>
  BY <1>1, EmptySeq
<1>4. CASE Len(longer) > HistoryLength
  <2>1. Len(longer) >= 2
    BY <1>1, <1>4, ControlAssumption
  <2>2. /\ Tail(longer) \in Seq(S)
        /\ Len(Tail(longer)) = Len(longer) - 1
    BY <1>1, <1>3
  <2>3. Len(Tail(longer)) # 0
    BY <2>1, <2>2
  <2>4. Tail(longer) # << >>
    BY <2>3, EmptySeq, Zenon
  <2> QED
    BY <1>2, <1>4, <2>2, <2>4
<1>5. CASE ~(Len(longer) > HistoryLength)
  BY <1>1, <1>2, <1>3, <1>5
<1> QED
  BY <1>4, <1>5

(***************************************************************************)
(* The average over a window that is not empty is a number.                *)
(***************************************************************************)
LEMMA AverageIsInt ==
  ASSUME NEW h \in Seq(Samples), h # << >>, NEW field \in {"cur", "unused"}
  PROVE  StatAvg(h, field) \in Int
<1> DEFINE f == [i \in DOMAIN h |-> h[i][field]]
<1>1. IsFiniteSet(DOMAIN h)
  <2>1. DOMAIN h = 1 .. Len(h) /\ Len(h) \in Nat
    OBVIOUS
  <2> QED
    BY <2>1, FS_Interval
<1>2. f \in [DOMAIN h -> Int]
  <2>1. \A i \in DOMAIN h : h[i] \in Samples
    OBVIOUS
  <2>2. \A i \in DOMAIN h : h[i].cur \in Int /\ h[i].unused \in Int
    BY <2>1 DEF Samples
  <2>3. \A i \in DOMAIN h : h[i][field] \in Int
    BY <2>2
  <2> QED
    BY <2>3
<1> HIDE DEF f
<1>3. SumFunction(f) \in Int
  BY <1>1, <1>2, SumType
<1>4. Len(h) \in Nat \ {0}
  BY EmptySeq
<1> QED
  BY <1>3, <1>4 DEF StatAvg, f

(***************************************************************************)
(* The average of a field lies between the bounds of its values.           *)
(***************************************************************************)
LEMMA AverageBetween ==
  ASSUME NEW h \in Seq(Samples), h # << >>, NEW field \in {"cur", "unused"},
         NEW lo \in Int, NEW hi \in Int,
         \A i \in DOMAIN h : lo =< h[i][field] /\ h[i][field] =< hi
  PROVE  lo =< StatAvg(h, field) /\ StatAvg(h, field) =< hi
<1> DEFINE f == [i \in DOMAIN h |-> h[i][field]]
<1>1. Len(h) \in Nat \ {0} /\ DOMAIN h = 1 .. Len(h)
  BY EmptySeq
<1>2. IsFiniteSet(DOMAIN h) /\ Cardinality(DOMAIN h) = Len(h)
  BY <1>1, FS_Interval
<1>3. f \in [DOMAIN h -> Int] /\ \A i \in DOMAIN h : lo =< f[i] /\ f[i] =< hi
  <2>1. \A i \in DOMAIN h : h[i] \in Samples
    OBVIOUS
  <2>2. \A i \in DOMAIN h : h[i].cur \in Int /\ h[i].unused \in Int
    BY <2>1 DEF Samples
  <2> QED
    BY <2>2
<1> HIDE DEF f
<1>4. /\ SumFunction(f) \in Int
      /\ Len(h) * lo =< SumFunction(f)
      /\ SumFunction(f) =< Len(h) * hi
  BY <1>2, <1>3, SumType, SumBounds
<1> DEFINE sum == SumFunction(f)
           n == Len(h)
<1>5. /\ sum \in Int /\ n \in Nat \ {0}
      /\ n * lo =< sum /\ sum =< n * hi
  BY <1>1, <1>4
<1>6. StatAvg(h, field) = sum \div n
  BY DEF StatAvg, f
<1> HIDE DEF sum, n
<1>7. sum \div n \in Int /\ lo =< sum \div n
  BY <1>5, FloorIsGreatest
<1>8. sum \div n < hi + 1
  <2>1. n * (hi + 1) = n * hi + n /\ n * hi \in Int
    BY <1>5
  <2>2. hi + 1 \in Int /\ sum < n * (hi + 1)
    BY <1>5, <2>1
  <2> DEFINE top == hi + 1
  <2> HIDE DEF top
  <2>3. top \in Int /\ sum < n * top
    BY <2>2 DEF top
  <2>4. sum \div n < top
    BY <1>5, <2>3, FloorIsGreatest
  <2> QED
    BY <2>4 DEF top
<1> QED
  BY <1>6, <1>7, <1>8

(***************************************************************************)
(* Over a window that shows one size the average is that size.             *)
(***************************************************************************)
LEMMA AverageOfOneSize ==
  ASSUME NEW h \in Seq(Samples), h # << >>, OneSize(h)
  PROVE  StatAvg(h, "cur") = Last(h).cur
<1>1. Last(h).cur \in Int
  BY LastIsElement DEF Samples
<1>2. \A i \in DOMAIN h : Last(h).cur =< h[i]["cur"] /\ h[i]["cur"] =< Last(h).cur
  BY <1>1 DEF OneSize
<1>3. StatAvg(h, "cur") \in Int
  BY AverageIsInt
<1>4. Last(h).cur =< StatAvg(h, "cur") /\ StatAvg(h, "cur") =< Last(h).cur
  BY <1>1, <1>2, AverageBetween
<1> QED
  BY <1>1, <1>3, <1>4

-----------------------------------------------------------------------------
(* Decisions.                                                              *)

(***************************************************************************)
(* When the policy's decisions can be relied on: it is the step policy, or *)
(* a reference policy whose average is the size it resizes.                *)
(***************************************************************************)
Sound(h, ps) ==
  \/ ps.type = "step"
  \/ RefAtThreshold /\ ps.ref \in RefParams /\ OneSize(h)

(***************************************************************************)
(* Such a decision, on samples within bounds, is either no target or one   *)
(* within bounds that leaves host_free.txt non-negative.                   *)
(***************************************************************************)
LEMMA SoundDecision ==
  ASSUME NEW h \in Seq(Samples), h # << >>, Last(h).cur \in Sizes, NEW free \in Nat,
         NEW ps \in [type : PolicyTypes, step : StepParams, ref : RefParams],
         Sound(h, ps)
  PROVE  LET target == opt_policy_select(h, free, ps)
         IN  \/ target = NoTarget
             \/ /\ target \in Sizes
                /\ free - (target - Last(h).cur) \in Nat
<1> DEFINE cur == Last(h).cur
           target == opt_policy_select(h, free, ps)
<1>1. CASE ps.type = "step"
  <2> DEFINE p == ps.step
  <2>1. target = opt_policy_step(h, free, p)
    BY <1>1 DEF opt_policy_select
  <2>2. p.grow_step \in Nat /\ p.shrink_step \in Nat
    BY ControlAssumption
  <2>3. CASE UsedBelow(h, p.shrink_threshold)
    <3>1. target = opt_policy_shrink_step(cur, p.shrink_step)
      BY <2>1, <2>3 DEF opt_policy_step
    <3> QED
      BY <2>2, <3>1, ShrinkStepCredits
  <2>4. CASE ~UsedBelow(h, p.shrink_threshold) /\ UsedAbove(h, p.grow_threshold)
    <3>1. target = opt_policy_grow_step(cur, free, p.grow_step)
      BY <2>1, <2>4 DEF opt_policy_step
    <3> QED
      BY <2>2, <3>1, GrowStepIsAffordable
  <2>5. CASE ~UsedBelow(h, p.shrink_threshold) /\ ~UsedAbove(h, p.grow_threshold)
    <3>1. target = NoTarget
      BY <2>1, <2>5 DEF opt_policy_step
    <3> QED
      BY <3>1
  <2> QED
    BY <2>3, <2>4, <2>5
<1>2. CASE ps.type # "step"
  <2> DEFINE p == ps.ref
             used == UsedMem(h)
  <2>1. target = opt_policy_ref(h, free, p)
    BY <1>2 DEF opt_policy_select
  <2>2. /\ p.grow_ref \in Nat \ {0} /\ p.shrink_ref \in Nat \ {0}
        /\ p.grow_threshold \in Nat /\ p.shrink_threshold \in Nat
    BY ControlAssumption
  <2>3. /\ BalloonMin % MB = 0
        /\ p.grow_ref =< p.grow_threshold /\ p.shrink_threshold =< p.shrink_ref
        /\ StatAvg(h, "cur") = cur
    BY <1>2, AverageOfOneSize DEF Sound, RefAtThreshold
  <2>4. used \in Int /\ cur \in Sizes
    BY AverageIsInt DEF UsedMem
  <2>5. CASE UsedBelow(h, p.shrink_threshold)
    <3>1. target = opt_policy_shrink_ref(used, p.shrink_ref)
      BY <2>1, <2>5 DEF opt_policy_ref
    <3>2. used * Den < p.shrink_threshold * cur
      BY <2>3, <2>5 DEF UsedBelow
    <3>3. target \in Sizes /\ free - (target - cur) \in Nat
      <4> HIDE DEF used, target, cur, p
      <4> QED
        BY <2>2, <2>3, <2>4, <3>1, <3>2, ShrinkRefCredits
    <3> QED
      BY <3>3
  <2>6. CASE ~UsedBelow(h, p.shrink_threshold) /\ UsedAbove(h, p.grow_threshold)
    <3>1. target = opt_policy_grow_ref(cur, free, used, p.grow_ref)
      BY <2>1, <2>6 DEF opt_policy_ref
    <3>2. used * Den > p.grow_threshold * cur
      BY <2>3, <2>6 DEF UsedAbove
    <3>3. target \in Sizes /\ free - (target - cur) \in Nat
      <4> HIDE DEF used, target, cur, p
      <4> QED
        BY <2>2, <2>3, <2>4, <3>1, <3>2, GrowRefIsAffordable
    <3> QED
      BY <3>3
  <2>7. CASE ~UsedBelow(h, p.shrink_threshold) /\ ~UsedAbove(h, p.grow_threshold)
    <3>1. target = NoTarget
      BY <2>1, <2>7 DEF opt_policy_ref
    <3> QED
      BY <3>1
  <2> QED
    BY <2>5, <2>6, <2>7
<1> QED
  BY <1>1, <1>2

-----------------------------------------------------------------------------
(* Types, under every policy.                                              *)

(***************************************************************************)
(* Both policies answer a number or nothing.                               *)
(***************************************************************************)
LEMMA DecisionIsTyped ==
  ASSUME NEW h \in Seq(Samples), h # << >>, NEW free \in Int,
         NEW ps \in [type : PolicyTypes, step : StepParams, ref : RefParams]
  PROVE  opt_policy_select(h, free, ps) \in Int \cup {NoTarget}
<1>1. Last(h).cur \in Int
  BY LastIsElement DEF Samples
<1>2. UsedMem(h) \in Int
  BY AverageIsInt DEF UsedMem
<1>3. /\ ps.step.grow_step \in Nat /\ ps.step.shrink_step \in Nat
      /\ ps.ref.grow_ref \in Nat \ {0} /\ ps.ref.shrink_ref \in Nat \ {0}
  BY ControlAssumption
<1>4. ASSUME NEW ref \in Nat \ {0}
      PROVE  RefTarget(UsedMem(h), ref) \in Int
  BY <1>2, MemoryAssumption DEF RefTarget
<1>5. ASSUME NEW target \in Int
      PROVE  Affordable(Last(h).cur, free, target) \in Int
  BY <1>1, MemoryAssumption DEF Affordable
<1>6. /\ opt_policy_shrink_step(Last(h).cur, ps.step.shrink_step) \in Int
      /\ opt_policy_shrink_ref(UsedMem(h), ps.ref.shrink_ref) \in Int
  BY <1>1, <1>3, <1>4, MemoryAssumption
  DEF opt_policy_shrink_step, opt_policy_shrink_ref
<1> DEFINE Capped(size) == IF size > BalloonMax THEN BalloonMax ELSE size
<1>7. ASSUME NEW size \in Int
      PROVE  Affordable(Last(h).cur, free, Capped(size)) \in Int
  <2>1. Capped(size) \in Int
    BY MemoryAssumption
  <2> HIDE DEF Capped
  <2> QED
    BY <2>1, <1>5
<1>8. opt_policy_grow_step(Last(h).cur, free, ps.step.grow_step) \in Int
  <2>1. Last(h).cur + ps.step.grow_step \in Int
    BY <1>1, <1>3
  <2> QED
    BY <2>1, <1>7 DEF opt_policy_grow_step
<1>9. opt_policy_grow_ref(Last(h).cur, free, UsedMem(h), ps.ref.grow_ref) \in Int
  <2>1. RefTarget(UsedMem(h), ps.ref.grow_ref) \in Int
    BY <1>3, <1>4
  <2> QED
    BY <2>1, <1>7 DEF opt_policy_grow_ref
<1> QED
  BY <1>6, <1>8, <1>9 DEF opt_policy_select, opt_policy_step, opt_policy_ref

LEMMA TypesInit == Init => TypeOK /\ TickInv /\ ChargedOnce
<1> SUFFICES ASSUME Init PROVE TypeOK /\ TickInv /\ ChargedOnce
  OBVIOUS
<1> USE DEF Init, NoSamples, NoControls
<1>1. /\ qtarget \in [Guests -> Int]
      /\ actual \in [Guests -> Int]
  <2>1. \A size \in InitialSizes : size \in Int
    BY ControlAssumption DEF Sizes
  <2> QED
    BY <2>1
<1>2. hostFree \in Int
  BY ControlAssumption
<1> QED
  BY <1>1, <1>2 DEF TypeOK, TickInv, NothingCharged, ChargedOnce

(***************************************************************************)
(* The end of a tick: no snapshot and no control remains.                  *)
(***************************************************************************)
LEMMA EndTickIsTyped ==
  ASSUME NEW next \in {"idle", "dead", "down"}, EndTick(next)
  PROVE  /\ pc' \in {"idle", "dead", "down"}
         /\ snap' \in [Guests -> Seq(Samples)]
         /\ todo' = {}
         /\ control' \in [Guests -> Int \cup {NoTarget}]
  BY DEF EndTick, NoSamples, NoControls

(***************************************************************************)
(* Every step keeps the types and what a tick relies on.                   *)
(***************************************************************************)
LEMMA TypesNext == TypeOK /\ TickInv /\ [Next]_vars => TypeOK'
<1> SUFFICES ASSUME TypeOK, TickInv, [Next]_vars
             PROVE  TypeOK'
  OBVIOUS
<1> USE DEF TypeOK, files, monitors, engine, qemu
<1>1. CASE StartRound
  BY <1>1 DEF StartRound
<1>2. ASSUME NEW g \in Guests, Collect(g)
      PROVE  TypeOK'
  <2>1. PICK unused \in UnusedLevels :
          history' = [history EXCEPT ![g] =
            Recorded(@, [cur |-> actual[g], unused |-> unused])]
    BY <1>2 DEF Collect
  <2>2. [cur |-> actual[g], unused |-> unused] \in Samples
    BY ControlAssumption DEF Samples
  <2>3. history' \in [Guests -> Seq(Samples)]
    BY <2>1, <2>2, RecordedIsHistory
  <2> QED
    BY <1>2, <2>3 DEF Collect
<1>3. ASSUME NEW g \in Guests, CollectFail(g)
      PROVE  TypeOK'
  BY <1>3 DEF CollectFail
<1>4. CASE DoControls
  BY <1>4 DEF DoControls
<1>5. ASSUME NEW g \in Guests, EvalGuest(g)
      PROVE  TypeOK'
  <2> DEFINE target == opt_policy_select(snap[g], hostFree, params)
  <2>1. snap[g] \in Seq(Samples) /\ snap[g] # << >>
    BY <1>5 DEF EvalGuest, TickInv
  <2>2. target \in Int \cup {NoTarget}
    BY <2>1, DecisionIsTyped
  <2>3. Last(snap[g]).cur \in Int
    BY <2>1, LastIsElement DEF Samples
  <2>4. hostFree' \in Int
    BY <1>5, <2>2, <2>3 DEF EvalGuest
  <2>5. control' \in [Guests -> Int \cup {NoTarget}]
    BY <1>5, <2>2 DEF EvalGuest
  <2> QED
    BY <1>5, <2>4, <2>5 DEF EvalGuest
<1>6. CASE EvalFail \/ ApplyDone
  BY <1>6, EndTickIsTyped DEF EvalFail, ApplyDone
<1>7. CASE EvalDone
  BY <1>7 DEF EvalDone
<1>8. ASSUME NEW g \in Guests, Apply(g)
      PROVE  TypeOK'
  BY <1>8 DEF Apply, TickInv
<1>9. ASSUME NEW g \in Guests, ApplyFail(g)
      PROVE  TypeOK'
  <2>1. qtarget' \in [Guests -> Int]
    BY <1>9 DEF ApplyFail, TickInv
  <2> QED
    BY <1>9, <2>1, EndTickIsTyped DEF ApplyFail
<1>10. CASE Stop
  BY <1>10, EndTickIsTyped DEF Stop, NoSamples
<1>11. CASE Restart
  BY <1>11 DEF Restart
<1>12. CASE Operator
  <2>1. CASE SetStepPolicy
    BY <2>1 DEF SetStepPolicy
  <2>2. CASE SetRefType
    BY <2>2 DEF SetRefType
  <2>3. CASE SetRefParams
    BY <2>3 DEF SetRefParams
  <2> QED
    BY <1>12, <2>1, <2>2, <2>3 DEF Operator
<1>13. ASSUME NEW g \in Guests, MoveBalloon(g)
       PROVE  TypeOK'
  BY <1>13 DEF MoveBalloon, Sizes
<1>14. CASE UNCHANGED vars
  BY <1>14 DEF vars
<1> QED
  BY <1>1, <1>2, <1>3, <1>4, <1>5, <1>6, <1>7, <1>8, <1>9, <1>10, <1>11,
     <1>12, <1>13, <1>14
  DEF Next, Sampling, Tick, Failure, Process, MainLoopStop, Kill, MoveBalloons

LEMMA TickInvNext == TypeOK /\ TickInv /\ [Next]_vars => TickInv'
<1> SUFFICES ASSUME TypeOK, TickInv, [Next]_vars
             PROVE  TickInv'
  OBVIOUS
<1> USE DEF TickInv, NothingCharged, files, monitors, engine, qemu
<1>1. CASE StartRound
  BY <1>1 DEF StartRound
<1>2. ASSUME NEW g \in Guests, Collect(g)
      PROVE  TickInv'
  <2>1. PICK unused \in UnusedLevels :
          history' = [history EXCEPT ![g] =
            Recorded(@, [cur |-> actual[g], unused |-> unused])]
    BY <1>2 DEF Collect
  <2>2. [cur |-> actual[g], unused |-> unused] \in Samples
    BY ControlAssumption DEF TypeOK, Samples
  <2>3. history'[g] # << >> /\ \A h \in Guests \ {g} : history'[h] = history[h]
    BY <2>1, <2>2, RecordedIsHistory DEF TypeOK
  <2>4. \A h \in Guests : ready'[h] => history'[h] # << >>
    BY <1>2, <2>3 DEF Collect, TypeOK
  <2> QED
    BY <1>2, <2>4 DEF Collect
<1>3. ASSUME NEW g \in Guests, CollectFail(g)
      PROVE  TickInv'
  BY <1>3 DEF CollectFail, TypeOK
<1>4. CASE DoControls
  <2>1. \A g \in todo' : snap'[g] # << >>
    BY <1>4 DEF DoControls, TypeOK
  <2> QED
    BY <1>4, <2>1 DEF DoControls
<1>5. ASSUME NEW g \in Guests, EvalGuest(g)
      PROVE  TickInv'
  BY <1>5 DEF EvalGuest, TypeOK
<1>6. CASE EvalFail \/ ApplyDone
  BY <1>6 DEF EvalFail, ApplyDone, EndTick
<1>7. CASE EvalDone
  BY <1>7 DEF EvalDone
<1>8. ASSUME NEW g \in Guests, Apply(g)
      PROVE  TickInv'
  BY <1>8 DEF Apply, TypeOK
<1>9. ASSUME NEW g \in Guests, ApplyFail(g)
      PROVE  TickInv'
  BY <1>9 DEF ApplyFail, EndTick
<1>10. CASE Stop
  BY <1>10 DEF Stop, EndTick
<1>11. CASE Restart
  BY <1>11 DEF Restart
<1>12. CASE Operator
  BY <1>12 DEF Operator, SetStepPolicy, SetRefType, SetRefParams
<1>13. ASSUME NEW g \in Guests, MoveBalloon(g)
       PROVE  TickInv'
  BY <1>13 DEF MoveBalloon
<1>14. CASE UNCHANGED vars
  BY <1>14 DEF vars
<1> QED
  BY <1>1, <1>2, <1>3, <1>4, <1>5, <1>6, <1>7, <1>8, <1>9, <1>10, <1>11,
     <1>12, <1>13, <1>14
  DEF Next, Sampling, Tick, Failure, Process, MainLoopStop, Kill, MoveBalloons

(***************************************************************************)
(* Each evaluation takes a guest off the list before it gives it a control *)
(* and starts with no control at all.                                      *)
(***************************************************************************)
LEMMA ChargedOnceNext ==
  TypeOK /\ TickInv /\ ChargedOnce /\ [Next]_vars => ChargedOnce'
<1> SUFFICES ASSUME TypeOK, TickInv, ChargedOnce, [Next]_vars, pc' = "evaluating"
             PROVE  \A g \in todo' : control'[g] = NoTarget
  BY DEF ChargedOnce
<1> USE DEF files, monitors, engine, qemu
<1>1. CASE DoControls
  BY <1>1 DEF DoControls, TickInv, NothingCharged, NoControls
<1>2. ASSUME NEW g \in Guests, EvalGuest(g)
      PROVE  \A h \in todo' : control'[h] = NoTarget
  BY <1>2 DEF EvalGuest, TypeOK, ChargedOnce
<1>3. CASE \/ Sampling \/ Operator \/ MoveBalloons \/ UNCHANGED vars
           \/ \E g \in Guests : CollectFail(g)
  BY <1>3 DEF Sampling, StartRound, Collect, CollectFail, Operator, SetStepPolicy,
    SetRefType, SetRefParams, MoveBalloons, MoveBalloon, vars, ChargedOnce
<1>4. CASE \/ EvalFail \/ EvalDone \/ ApplyDone \/ Stop \/ Restart
           \/ \E g \in Guests : Apply(g) \/ ApplyFail(g)
  BY <1>4 DEF EvalFail, EvalDone, ApplyDone, Stop, Restart, Apply, ApplyFail, EndTick
<1> QED
  BY <1>1, <1>2, <1>3, <1>4 DEF Next, Tick, Failure, Process, MainLoopStop, Kill

(***************************************************************************)
(* Whatever the policy, whatever fails and however often momd is killed,   *)
(* no average is taken over an empty window, no guest is charged twice in  *)
(* a tick, and no control survives its tick.                               *)
(***************************************************************************)
THEOREM TickInvariant == Spec => [](TypeOK /\ TickInv /\ ChargedOnce)
<1>1. TypeOK /\ TickInv /\ ChargedOnce /\ [Next]_vars
        => (TypeOK /\ TickInv /\ ChargedOnce)'
  BY TypesNext, TickInvNext, ChargedOnceNext
<1> QED
  BY TypesInit, <1>1, PTL DEF Spec

(***************************************************************************)
(* Under every policy each variable keeps its type.                        *)
(***************************************************************************)
THEOREM TypeCorrect == Spec => []TypeOK
  BY TickInvariant, PTL

-----------------------------------------------------------------------------
(* What the guests and host_free.txt own together, under every policy.     *)

(***************************************************************************)
(* The shape of the ledger: the sum over a function of the guests.         *)
(***************************************************************************)
LEMMA HeldIsTyped ==
  TypeOK => [g \in Guests |-> Held(g)] \in [Guests -> Int]
  BY DEF TypeOK, Held

(***************************************************************************)
(* A guest that is charged for what it gets moves memory, no more.         *)
(***************************************************************************)
LEMMA TransferConserves ==
  ASSUME TypeOK, NEW g \in Guests, NEW size \in Int,
         [h \in Guests |-> Held(h)]' = [[h \in Guests |-> Held(h)] EXCEPT ![g] = size],
         hostFree' = hostFree - (size - Held(g))
  PROVE  LedgerTotal' = LedgerTotal
<1> DEFINE held == [h \in Guests |-> Held(h)]
<1>1. held \in [Guests -> Int] /\ held[g] = Held(g)
  BY HeldIsTyped
<1> HIDE DEF held
<1>2. SumFunction(held') = SumFunction(held) + (size - held[g])
  <2>1. held' = [held EXCEPT ![g] = size]
    BY DEF held
  <2>2. SumFunction([held EXCEPT ![g] = size]) = SumFunction(held) + (size - held[g])
    <3>1. IsFiniteSet(Guests)
      BY ControlAssumption
    <3> QED
      BY <1>1, <3>1, SumExcept
  <2> QED
    BY <2>1, <2>2
<1>3. SumFunction(held) \in Int /\ held[g] \in Int /\ hostFree \in Int
  BY <1>1, SumType, ControlAssumption DEF TypeOK
<1>4. /\ LedgerTotal = hostFree + SumFunction(held)
      /\ LedgerTotal' = hostFree' + SumFunction(held')
  BY DEF LedgerTotal, TotalHeld, held
<1> QED
  BY <1>1, <1>2, <1>3, <1>4

(***************************************************************************)
(* When no guest's share changes and host_free.txt is left alone, neither  *)
(* does the total.                                                         *)
(***************************************************************************)
LEMMA SameShares ==
  ASSUME hostFree' = hostFree, \A g \in Guests : Held(g)' = Held(g)
  PROVE  LedgerTotal' = LedgerTotal
  BY DEF LedgerTotal, TotalHeld

(***************************************************************************)
(* A tick that ends drops the controls QEMU has not taken, no others.      *)
(***************************************************************************)
LEMMA EndTickDrops ==
  ASSUME TypeOK, NEW next, EndTick(next), NEW g \in Guests,
         control[g] = NoTarget => qtarget'[g] = qtarget[g]
  PROVE  Held(g)' = Held(g) \/ DroppedCharge(g)
<1>1. control'[g] = NoTarget
  BY DEF EndTick, NoControls
<1>2. Held(g)' = qtarget'[g]
  BY <1>1 DEF Held
<1>3. CASE control[g] = NoTarget
  BY <1>2, <1>3 DEF Held
<1>4. CASE control[g] # NoTarget
  BY <1>1, <1>2, <1>4 DEF Held, DroppedCharge
<1> QED
  BY <1>3, <1>4

(***************************************************************************)
(* The booking of a decision for a guest that has no control yet: it moves *)
(* memory unless the size it started from was stale.                       *)
(***************************************************************************)
LEMMA BookingStep ==
  ASSUME TypeOK, NEW g \in Guests, control[g] = NoTarget,
         NEW target \in Int \cup {NoTarget},
         control' = [control EXCEPT ![g] = target], qtarget' = qtarget,
         hostFree' = IF target = NoTarget THEN hostFree
                     ELSE hostFree - (target - Last(snap[g]).cur)
  PROVE  LedgerTotal' = LedgerTotal \/ StaleCharge(g)
<1> DEFINE held == [h \in Guests |-> Held(h)]
<1>1. CASE target = NoTarget
  <2>1. control' = control
    BY <1>1 DEF TypeOK
  <2> QED
    BY <1>1, <2>1, SameShares DEF Held
<1>2. CASE target # NoTarget /\ Last(snap[g]).cur # qtarget[g]
  <2>1. control'[g] # NoTarget
    BY <1>2 DEF TypeOK
  <2> QED
    BY <1>2, <2>1 DEF StaleCharge
<1>3. CASE target # NoTarget /\ Last(snap[g]).cur = qtarget[g]
  <2>1. Held(g) = qtarget[g]
    BY DEF Held
  <2>2. held' = [held EXCEPT ![g] = target]
    BY <1>3 DEF Held, TypeOK
  <2>3. hostFree' = hostFree - (target - Held(g))
    BY <1>3, <2>1
  <2> QED
    BY <1>3, <2>2, <2>3, TransferConserves
<1> QED
  BY <1>1, <1>2, <1>3

(***************************************************************************)
(* The steps that evaluate no guest conserve the total or drop a charge.   *)
(***************************************************************************)
NextButEval ==
  \/ Sampling \/ DoControls \/ EvalDone \/ ApplyDone \/ Failure \/ Process
  \/ Operator \/ MoveBalloons
  \/ \E g \in Guests : Apply(g)

LEMMA DriftWithoutEval ==
  ASSUME TypeOK, TickInv, [NextButEval]_vars
  PROVE  LedgerTotal' = LedgerTotal \/ \E g \in Guests : DroppedCharge(g)
<1> DEFINE Exempt == \E g \in Guests : DroppedCharge(g)
<1>1. ASSUME NEW g \in Guests, Apply(g)
      PROVE  LedgerTotal' = LedgerTotal
  <2>1. \A h \in Guests : Held(h)' = Held(h)
    BY <1>1 DEF Apply, TickInv, TypeOK, Held
  <2> QED
    BY <1>1, <2>1, SameShares DEF Apply, files
<1>2. CASE EvalFail \/ ApplyDone \/ Stop
  <2>1. PICK next : EndTick(next)
    BY <1>2 DEF EvalFail, ApplyDone, Stop
  <2>2. hostFree' = hostFree /\ qtarget' = qtarget
    BY <1>2 DEF EvalFail, ApplyDone, Stop, files, qemu
  <2>3. \A h \in Guests : Held(h)' = Held(h) \/ DroppedCharge(h)
    BY <2>1, <2>2, EndTickDrops
  <2> QED
    BY <2>2, <2>3, SameShares
<1>3. ASSUME NEW g \in Guests, ApplyFail(g)
      PROVE  LedgerTotal' = LedgerTotal \/ Exempt
  <2>1. hostFree' = hostFree /\ EndTick("dead")
    BY <1>3 DEF ApplyFail, files
  <2>2. \A h \in Guests : control[h] = NoTarget => qtarget'[h] = qtarget[h]
    BY <1>3 DEF ApplyFail, TickInv, TypeOK
  <2>3. \A h \in Guests : Held(h)' = Held(h) \/ DroppedCharge(h)
    BY <2>1, <2>2, EndTickDrops
  <2> QED
    BY <2>1, <2>3, SameShares
<1>4. CASE \/ Sampling \/ DoControls \/ EvalDone \/ Restart \/ Operator
           \/ MoveBalloons \/ UNCHANGED vars
           \/ \E g \in Guests : CollectFail(g)
  <2>1. UNCHANGED <<hostFree, control, qtarget>>
    BY <1>4 DEF Sampling, StartRound, Collect, CollectFail, DoControls, EvalDone,
      Restart, Operator, SetStepPolicy, SetRefType, SetRefParams, MoveBalloons,
      MoveBalloon, vars, files, monitors, engine, qemu
  <2> QED
    BY <2>1, SameShares DEF Held
<1> QED
  BY <1>1, <1>2, <1>3, <1>4 DEF NextButEval, Failure, Process, MainLoopStop, Kill

(***************************************************************************)
(* Each step conserves the total, or it is one of the two that do not.     *)
(***************************************************************************)
LEMMA DriftStep ==
  TypeOK /\ TickInv /\ ChargedOnce /\ [Next]_vars
    => (LedgerTotal' # LedgerTotal =>
          \E g \in Guests : StaleCharge(g) \/ DroppedCharge(g))
<1> SUFFICES ASSUME TypeOK, TickInv, ChargedOnce, [Next]_vars
             PROVE  \/ LedgerTotal' = LedgerTotal
                    \/ \E g \in Guests : StaleCharge(g) \/ DroppedCharge(g)
  OBVIOUS
<1>1. ASSUME NEW g \in Guests, EvalGuest(g)
      PROVE  LedgerTotal' = LedgerTotal \/ StaleCharge(g)
  <2> DEFINE target == opt_policy_select(snap[g], hostFree, params)
  <2>1. /\ snap[g] \in Seq(Samples) /\ snap[g] # << >>
        /\ control[g] = NoTarget
    BY <1>1 DEF EvalGuest, TickInv, ChargedOnce, TypeOK
  <2>2. target \in Int \cup {NoTarget}
    BY <2>1, DecisionIsTyped DEF TypeOK
  <2>3. /\ control' = [control EXCEPT ![g] = target]
        /\ qtarget' = qtarget
        /\ hostFree' = IF target = NoTarget THEN hostFree
                       ELSE hostFree - (target - Last(snap[g]).cur)
    BY <1>1 DEF EvalGuest, qemu
  <2> HIDE DEF target
  <2> QED
    BY <2>1, <2>2, <2>3, BookingStep
<1>2. [NextButEval]_vars \/ \E g \in Guests : EvalGuest(g)
  BY DEF Next, NextButEval, Tick
<1> QED
  BY <1>1, <1>2, DriftWithoutEval

(***************************************************************************)
(* Under every policy, memory is only made or lost where the evaluation    *)
(* used a size that is not the guest's target any more, or a control       *)
(* charged to host_free.txt was dropped before QEMU took it.               *)
(***************************************************************************)
THEOREM DriftOnlyFromStaleOrDropped == Spec => LedgerDriftsOnlyFromStaleOrDropped
<1>1. TypeOK /\ TickInv /\ ChargedOnce /\ [Next]_vars
        => [LedgerTotal' # LedgerTotal =>
              \E g \in Guests : StaleCharge(g) \/ DroppedCharge(g)]_vars
  BY DriftStep
<1> QED
  BY TickInvariant, <1>1, PTL DEF Spec, LedgerDriftsOnlyFromStaleOrDropped

-----------------------------------------------------------------------------
(* How much memory is made or lost.                                        *)

(***************************************************************************)
(* The account of one guest in one step: a charge of a stale evaluation is *)
(* off by the distance between the size it started from and the guest's    *)
(* target; a tick that ends early takes a charge with it by the distance   *)
(* between the control and the target QEMU is left with.                   *)
(***************************************************************************)
DriftOf(g) ==
  CASE control[g] = NoTarget /\ control'[g] # NoTarget
         -> Last(snap[g]).cur - qtarget[g]
    [] control[g] # NoTarget /\ control'[g] = NoTarget
         -> qtarget'[g] - control[g]
    [] OTHER -> 0

TotalDrift == SumFunction([g \in Guests |-> DriftOf(g)])

(***************************************************************************)
(* When host_free.txt is left alone and each share moves by its drift, the *)
(* total moves by the drifts.                                              *)
(***************************************************************************)
LEMMA SharesDrift ==
  ASSUME TypeOK, TypeOK', hostFree' = hostFree,
         \A g \in Guests : Held(g)' - Held(g) = DriftOf(g)
  PROVE  LedgerTotal' - LedgerTotal = TotalDrift
<1> DEFINE held == [g \in Guests |-> Held(g)]
<1>1. held \in [Guests -> Int] /\ held' \in [Guests -> Int]
  BY DEF TypeOK, Held
<1>2. [g \in Guests |-> held'[g] - held[g]] = [g \in Guests |-> DriftOf(g)]
  OBVIOUS
<1>3. /\ LedgerTotal = hostFree + SumFunction(held)
      /\ LedgerTotal' = hostFree' + SumFunction(held')
  BY DEF LedgerTotal, TotalHeld
<1> HIDE DEF held
<1>4. SumFunction([g \in Guests |-> held'[g] - held[g]])
        = SumFunction(held') - SumFunction(held)
  BY <1>1, ControlAssumption, SumDifference
<1>5. SumFunction(held) \in Int /\ SumFunction(held') \in Int /\ hostFree \in Int
  BY <1>1, ControlAssumption, SumType DEF TypeOK
<1> QED
  BY <1>2, <1>3, <1>4, <1>5 DEF TotalDrift

(***************************************************************************)
(* A tick that ends drifts by the charges it drops.                        *)
(***************************************************************************)
LEMMA EndTickDrift ==
  ASSUME TypeOK, TypeOK', NEW next, EndTick(next), NEW g \in Guests,
         control[g] = NoTarget => qtarget'[g] = qtarget[g]
  PROVE  Held(g)' - Held(g) = DriftOf(g)
<1>1. control'[g] = NoTarget
  BY DEF EndTick, NoControls
<1>2. qtarget[g] \in Int /\ qtarget'[g] \in Int
  BY DEF TypeOK
<1>3. CASE control[g] = NoTarget
  BY <1>1, <1>2, <1>3 DEF Held, DriftOf
<1>4. CASE control[g] # NoTarget
  BY <1>1, <1>2, <1>4 DEF Held, DriftOf
<1> QED
  BY <1>3, <1>4

(***************************************************************************)
(* A charge drifts by what the snapshot is stale by.                       *)
(***************************************************************************)
LEMMA BookingDrift ==
  ASSUME TypeOK, NEW g \in Guests, control[g] = NoTarget,
         NEW target \in Int \cup {NoTarget}, Last(snap[g]).cur \in Int,
         control' = [control EXCEPT ![g] = target], qtarget' = qtarget,
         hostFree' = IF target = NoTarget THEN hostFree
                     ELSE hostFree - (target - Last(snap[g]).cur)
  PROVE  LedgerTotal' - LedgerTotal = TotalDrift
<1> DEFINE held == [h \in Guests |-> Held(h)]
           zero == [h \in Guests |-> 0]
           drift == [h \in Guests |-> DriftOf(h)]
           stale == Last(snap[g]).cur - qtarget[g]
<1>1. held \in [Guests -> Int] /\ held[g] = qtarget[g] /\ qtarget[g] \in Int
  <2>1. held \in [Guests -> Int]
    BY HeldIsTyped
  <2> QED
    BY <2>1 DEF Held, TypeOK
<1>2. SumFunction(zero) = 0
  <2>0. zero \in [Guests -> Int] /\ \A h \in Guests : 0 =< zero[h] /\ zero[h] =< 0
    OBVIOUS
  <2> HIDE DEF zero
  <2>1. /\ Cardinality(Guests) * 0 =< SumFunction(zero)
        /\ SumFunction(zero) =< Cardinality(Guests) * 0
    BY <2>0, ControlAssumption, SumBounds
  <2>2. SumFunction(zero) \in Int /\ Cardinality(Guests) \in Nat
    BY <2>0, ControlAssumption, SumType, FS_CardinalityType
  <2> QED
    BY <2>1, <2>2
<1>3. \A h \in Guests \ {g} : control'[h] = control[h]
  BY DEF TypeOK
<1>4. control'[g] = target
  BY DEF TypeOK
<1>5. /\ LedgerTotal = hostFree + SumFunction(held)
      /\ LedgerTotal' = hostFree' + SumFunction(held')
  BY DEF LedgerTotal, TotalHeld
<1>6. SumFunction(held) \in Int /\ hostFree \in Int
  BY <1>1, ControlAssumption, SumType DEF TypeOK
<1>7. \A h \in Guests \ {g} : DriftOf(h) = 0
  BY <1>3 DEF DriftOf
<1>8. CASE target = NoTarget
  <2>1. drift = zero
    BY <1>4, <1>7, <1>8 DEF DriftOf
  <2>2. held' = held
    BY <1>3, <1>4, <1>8 DEF Held
  <2> QED
    BY <1>2, <1>5, <1>6, <1>8, <2>1, <2>2 DEF TotalDrift
<1>9. CASE target # NoTarget
  <2>1. drift = [zero EXCEPT ![g] = stale]
    <3>1. DriftOf(g) = stale
      BY <1>4, <1>9 DEF DriftOf
    <3> QED
      BY <1>7, <3>1
  <2>2. held' = [held EXCEPT ![g] = target]
    BY <1>3, <1>4, <1>9 DEF Held
  <2>3. stale \in Int /\ zero \in [Guests -> Int] /\ zero[g] = 0
    BY <1>1
  <2>4. TotalDrift = SumFunction(drift)
    BY DEF TotalDrift
  <2> DEFINE cur == Last(snap[g]).cur
  <2>5. cur \in Int /\ stale = cur - qtarget[g] /\ hostFree' = hostFree - (target - cur)
    BY <1>9
  <2> HIDE DEF held, zero, drift, stale, cur
  <2>6. SumFunction(drift) = stale
    <3>0. IsFiniteSet(Guests)
      BY ControlAssumption
    <3>1. SumFunction([zero EXCEPT ![g] = stale]) = SumFunction(zero) + (stale - zero[g])
      BY <2>3, <3>0, SumExcept
    <3> QED
      BY <1>2, <2>1, <2>3, <3>1
  <2>7. SumFunction(held') = SumFunction(held) + (target - held[g])
    <3>1. target \in Int /\ IsFiniteSet(Guests)
      BY <1>9, ControlAssumption
    <3>2. SumFunction([held EXCEPT ![g] = target]) = SumFunction(held) + (target - held[g])
      BY <1>1, <3>1, SumExcept
    <3> QED
      BY <2>2, <3>2
  <2> QED
    BY <1>1, <1>5, <1>6, <1>9, <2>4, <2>5, <2>6, <2>7
<1> QED
  BY <1>8, <1>9

(***************************************************************************)
(* Each step accounts for what it makes or loses.                          *)
(***************************************************************************)
LEMMA AccountedStep ==
  TypeOK /\ TickInv /\ ChargedOnce /\ [Next]_vars
    => LedgerTotal' - LedgerTotal = TotalDrift
<1> SUFFICES ASSUME TypeOK, TickInv, ChargedOnce, [Next]_vars
             PROVE  LedgerTotal' - LedgerTotal = TotalDrift
  OBVIOUS
<1>0. TypeOK'
  BY TypesNext
<1>1. ASSUME NEW g \in Guests, EvalGuest(g)
      PROVE  LedgerTotal' - LedgerTotal = TotalDrift
  <2> DEFINE target == opt_policy_select(snap[g], hostFree, params)
  <2>1. /\ snap[g] \in Seq(Samples) /\ snap[g] # << >>
        /\ control[g] = NoTarget
    BY <1>1 DEF EvalGuest, TickInv, ChargedOnce, TypeOK
  <2>2. target \in Int \cup {NoTarget}
    BY <2>1, DecisionIsTyped DEF TypeOK
  <2>3. /\ control' = [control EXCEPT ![g] = target]
        /\ qtarget' = qtarget
        /\ hostFree' = IF target = NoTarget THEN hostFree
                       ELSE hostFree - (target - Last(snap[g]).cur)
    BY <1>1 DEF EvalGuest, qemu
  <2>4. Last(snap[g]).cur \in Int
    BY <2>1, LastIsElement DEF Samples
  <2> HIDE DEF target
  <2> QED
    BY <2>1, <2>2, <2>3, <2>4, BookingDrift
<1>2. ASSUME NEW g \in Guests, Apply(g)
      PROVE  LedgerTotal' - LedgerTotal = TotalDrift
  <2>1. \A h \in Guests : Held(h)' = Held(h) /\ DriftOf(h) = 0 /\ Held(h) \in Int
    BY <1>2 DEF Apply, TickInv, TypeOK, Held, DriftOf
  <2>2. \A h \in Guests : Held(h)' - Held(h) = DriftOf(h)
    BY <2>1
  <2> QED
    BY <1>0, <1>2, <2>2, SharesDrift DEF Apply, files
<1>3. CASE EvalFail \/ ApplyDone \/ Stop
  <2>1. PICK next : EndTick(next)
    BY <1>3 DEF EvalFail, ApplyDone, Stop
  <2>2. hostFree' = hostFree /\ qtarget' = qtarget
    BY <1>3 DEF EvalFail, ApplyDone, Stop, files, qemu
  <2>3. \A h \in Guests : Held(h)' - Held(h) = DriftOf(h)
    BY <1>0, <2>1, <2>2, EndTickDrift
  <2> QED
    BY <1>0, <2>2, <2>3, SharesDrift
<1>4. ASSUME NEW g \in Guests, ApplyFail(g)
      PROVE  LedgerTotal' - LedgerTotal = TotalDrift
  <2>1. hostFree' = hostFree /\ EndTick("dead")
    BY <1>4 DEF ApplyFail, files
  <2>2. \A h \in Guests : control[h] = NoTarget => qtarget'[h] = qtarget[h]
    BY <1>4 DEF ApplyFail, TickInv, TypeOK
  <2>3. \A h \in Guests : Held(h)' - Held(h) = DriftOf(h)
    BY <1>0, <2>1, <2>2, EndTickDrift
  <2> QED
    BY <1>0, <2>1, <2>3, SharesDrift
<1>5. CASE \/ Sampling \/ DoControls \/ EvalDone \/ Restart \/ Operator
           \/ MoveBalloons \/ UNCHANGED vars
           \/ \E g \in Guests : CollectFail(g)
  <2>1. UNCHANGED <<hostFree, control, qtarget>>
    BY <1>5 DEF Sampling, StartRound, Collect, CollectFail, DoControls, EvalDone,
      Restart, Operator, SetStepPolicy, SetRefType, SetRefParams, MoveBalloons,
      MoveBalloon, vars, files, monitors, engine, qemu
  <2>2. \A h \in Guests : Held(h)' = Held(h) /\ DriftOf(h) = 0 /\ Held(h) \in Int
    BY <2>1 DEF Held, DriftOf, TypeOK
  <2>3. \A h \in Guests : Held(h)' - Held(h) = DriftOf(h)
    BY <2>2
  <2> QED
    BY <1>0, <2>1, <2>3, SharesDrift
<1> QED
  BY <1>1, <1>2, <1>3, <1>4, <1>5
  DEF Next, Tick, Failure, Process, MainLoopStop, Kill

(***************************************************************************)
(* The exact account, under every policy and any failures: what a step     *)
(* makes or loses is, guest by guest, what its snapshot was stale by or    *)
(* what was left of a dropped charge.                                      *)
(***************************************************************************)
THEOREM LedgerAccounted == Spec => [][LedgerTotal' - LedgerTotal = TotalDrift]_vars
<1>1. TypeOK /\ TickInv /\ ChargedOnce /\ [Next]_vars
        => [LedgerTotal' - LedgerTotal = TotalDrift]_vars
  BY AccountedStep
<1> QED
  BY TickInvariant, <1>1, PTL DEF Spec

-----------------------------------------------------------------------------
(* Sizes within bounds.                                                    *)

LEMMA SizesInit == Init => SizesInv
<1> SUFFICES ASSUME Init PROVE SizesInv
  OBVIOUS
<1>1. /\ qtarget \in [Guests -> Sizes]
      /\ actual \in [Guests -> Sizes]
  BY ControlAssumption DEF Init
<1>2. /\ history \in [Guests -> Seq(BoundedSamples)]
      /\ snap \in [Guests -> Seq(BoundedSamples)]
  BY DEF Init, NoSamples
<1>3. control \in [Guests -> Sizes \cup {NoTarget}]
  BY DEF Init, NoControls
<1> QED
  BY <1>1, <1>2, <1>3 DEF SizesInv

(***************************************************************************)
(* Only an evaluation can bring in a size that is out of bounds: samples   *)
(* copy the balloons, commands copy the controls, balloons stay between.   *)
(***************************************************************************)
LEMMA SizesWithoutEval ==
  ASSUME TypeOK, TickInv, SizesInv, [NextButEval]_vars
  PROVE  SizesInv'
<1> USE DEF SizesInv, files, monitors, engine, qemu
<1>1. CASE StartRound
  BY <1>1 DEF StartRound
<1>2. ASSUME NEW g \in Guests, Collect(g)
      PROVE  SizesInv'
  <2>1. PICK unused \in UnusedLevels :
          history' = [history EXCEPT ![g] =
            Recorded(@, [cur |-> actual[g], unused |-> unused])]
    BY <1>2 DEF Collect
  <2>2. [cur |-> actual[g], unused |-> unused] \in BoundedSamples
    BY ControlAssumption DEF BoundedSamples
  <2>3. history' \in [Guests -> Seq(BoundedSamples)]
    BY <2>1, <2>2, RecordedIsHistory
  <2> QED
    BY <1>2, <2>3 DEF Collect
<1>3. ASSUME NEW g \in Guests, CollectFail(g)
      PROVE  SizesInv'
  BY <1>3 DEF CollectFail
<1>4. CASE DoControls
  BY <1>4 DEF DoControls
<1>5. CASE EvalFail \/ ApplyDone \/ Stop
  <2>1. snap' = NoSamples /\ control' = NoControls
    BY <1>5 DEF EvalFail, ApplyDone, Stop, EndTick
  <2>2. history' = NoSamples \/ history' = history
    BY <1>5 DEF EvalFail, ApplyDone, Stop
  <2>3. UNCHANGED qemu
    BY <1>5 DEF EvalFail, ApplyDone, Stop
  <2>4. NoSamples \in [Guests -> Seq(BoundedSamples)]
    BY DEF NoSamples
  <2>5. NoControls \in [Guests -> Sizes \cup {NoTarget}]
    BY DEF NoControls
  <2> QED
    BY <2>1, <2>2, <2>3, <2>4, <2>5
<1>6. CASE EvalDone \/ Restart
  BY <1>6 DEF EvalDone, Restart
<1>7. ASSUME NEW g \in Guests, Apply(g)
      PROVE  SizesInv'
  BY <1>7 DEF Apply, TickInv
<1>8. ASSUME NEW g \in Guests, ApplyFail(g)
      PROVE  SizesInv'
  <2>1. qtarget' \in [Guests -> Sizes]
    BY <1>8 DEF ApplyFail, TickInv
  <2> QED
    BY <1>8, <2>1 DEF ApplyFail, EndTick, NoSamples, NoControls
<1>9. CASE Operator
  BY <1>9 DEF Operator, SetStepPolicy, SetRefType, SetRefParams
<1>10. ASSUME NEW g \in Guests, MoveBalloon(g)
       PROVE  SizesInv'
  BY <1>10 DEF MoveBalloon
<1>11. CASE UNCHANGED vars
  BY <1>11 DEF vars
<1> QED
  BY <1>1, <1>2, <1>3, <1>4, <1>5, <1>6, <1>7, <1>8, <1>9, <1>10, <1>11
  DEF NextButEval, Sampling, Failure, Process, MainLoopStop, Kill, MoveBalloons

(***************************************************************************)
(* Only an evaluation writes host_free.txt.                                *)
(***************************************************************************)
LEMMA LedgerWithoutEval ==
  ASSUME [NextButEval]_vars
  PROVE  hostFree' = hostFree
  BY DEF NextButEval, Sampling, StartRound, Collect, DoControls, EvalDone, ApplyDone,
    Failure, EvalFail, CollectFail, ApplyFail, Process, MainLoopStop, Kill, Stop, Restart,
    Operator, SetStepPolicy, SetRefType, SetRefParams, MoveBalloons, MoveBalloon, Apply,
    vars, files

-----------------------------------------------------------------------------
(* The invariant of the step policy.                                       *)

(***************************************************************************)
(* momd starts with the invariant true.                                    *)
(***************************************************************************)
LEMMA StepInvInit == Init => StepInv
<1>1. Init => HostFreeNonNegative
  BY ControlAssumption DEF Init, HostFreeNonNegative
<1> QED
  BY <1>1, TypesInit, SizesInit DEF StepInv

(***************************************************************************)
(* A step whose evaluation, if it is one, can be relied on keeps the       *)
(* invariant.                                                              *)
(***************************************************************************)
LEMMA StepInvNext ==
  ASSUME StepInv, [Next]_vars,
         \A g \in Guests : EvalGuest(g) => Sound(snap[g], params)
  PROVE  StepInv'
<1>1. TypeOK' /\ TickInv' /\ ChargedOnce'
  BY TypesNext, TickInvNext, ChargedOnceNext DEF StepInv
<1>2. CASE [NextButEval]_vars
  BY <1>1, <1>2, SizesWithoutEval, LedgerWithoutEval DEF StepInv, HostFreeNonNegative
<1>3. ASSUME NEW g \in Guests, EvalGuest(g)
      PROVE  SizesInv' /\ HostFreeNonNegative'
  <2> DEFINE target == opt_policy_select(snap[g], hostFree, params)
  <2>1. /\ snap[g] \in Seq(Samples) /\ snap[g] # << >>
        /\ Last(snap[g]).cur \in Sizes
    BY <1>3, LastIsElement
    DEF EvalGuest, StepInv, TypeOK, TickInv, SizesInv, BoundedSamples
  <2>2. hostFree \in Nat
    BY DEF StepInv, TypeOK, HostFreeNonNegative
  <2>3. \/ target = NoTarget
        \/ /\ target \in Sizes
           /\ hostFree - (target - Last(snap[g]).cur) \in Nat
    BY <1>3, <2>1, <2>2, SoundDecision DEF StepInv, TypeOK
  <2> HIDE DEF target
  <2>4. /\ control' = [control EXCEPT ![g] = target]
        /\ hostFree' = IF target = NoTarget THEN hostFree
                       ELSE hostFree - (target - Last(snap[g]).cur)
        /\ UNCHANGED <<history, snap, qtarget, actual>>
    BY <1>3 DEF EvalGuest, monitors, qemu, target
  <2>5. hostFree' \in Nat
    BY <2>2, <2>3, <2>4
  <2>6. control' \in [Guests -> Sizes \cup {NoTarget}]
    BY <2>3, <2>4 DEF StepInv, SizesInv
  <2> QED
    BY <2>4, <2>5, <2>6 DEF StepInv, SizesInv, HostFreeNonNegative
<1>4. [NextButEval]_vars \/ \E g \in Guests : EvalGuest(g)
  BY DEF Next, NextButEval, Tick
<1> QED
  BY <1>1, <1>2, <1>3, <1>4 DEF StepInv

(***************************************************************************)
(* No window grows beyond sample-history-length.                           *)
(***************************************************************************)
WindowInv ==
  \A g \in Guests : Len(history[g]) =< HistoryLength /\ Len(snap[g]) =< HistoryLength

LEMMA RecordedIsBounded ==
  ASSUME NEW S, NEW h \in Seq(S), NEW row \in S, Len(h) =< HistoryLength
  PROVE  Len(Recorded(h, row)) =< HistoryLength
<1> DEFINE longer == Append(h, row)
<1>1. longer \in Seq(S) /\ Len(longer) = Len(h) + 1 /\ Len(h) \in Nat
  OBVIOUS
<1>2. Recorded(h, row) =
        IF Len(longer) > HistoryLength THEN Tail(longer) ELSE longer
  BY DEF Recorded
<1> HIDE DEF longer
<1>3. longer # << >>
  BY <1>1, EmptySeq
<1>4. Len(Tail(longer)) = Len(longer) - 1
  BY <1>1, <1>3
<1> QED
  BY <1>1, <1>2, <1>4, ControlAssumption

LEMMA WindowInvNext == TypeOK /\ WindowInv /\ [Next]_vars => WindowInv'
<1> SUFFICES ASSUME TypeOK, WindowInv, [Next]_vars
             PROVE  WindowInv'
  OBVIOUS
<1> USE DEF WindowInv, monitors, engine, NoSamples
<1>1. ASSUME NEW g \in Guests, Collect(g)
      PROVE  WindowInv'
  <2>1. PICK unused \in UnusedLevels :
          history' = [history EXCEPT ![g] =
            Recorded(@, [cur |-> actual[g], unused |-> unused])]
    BY <1>1 DEF Collect
  <2>2. [cur |-> actual[g], unused |-> unused] \in Samples
    BY ControlAssumption DEF TypeOK, Samples
  <2>3. Len(history'[g]) =< HistoryLength
    BY <2>1, <2>2, RecordedIsBounded DEF TypeOK
  <2>4. \A h \in Guests \ {g} : history'[h] = history[h]
    BY <2>1 DEF TypeOK
  <2> QED
    BY <1>1, <2>3, <2>4 DEF Collect
<1>2. CASE DoControls
  BY <1>2, ControlAssumption, EmptySeq DEF DoControls
<1>3. CASE EvalFail \/ ApplyDone \/ Stop \/ \E g \in Guests : ApplyFail(g)
  <2>1. snap' = NoSamples
    BY <1>3 DEF EvalFail, ApplyDone, Stop, ApplyFail, EndTick
  <2>2. history' = history \/ history' = NoSamples
    BY <1>3 DEF EvalFail, ApplyDone, Stop, ApplyFail
  <2>3. \A g \in Guests : Len(NoSamples[g]) =< HistoryLength
    BY ControlAssumption, EmptySeq
  <2> QED
    BY <2>1, <2>2, <2>3
<1>4. CASE \/ StartRound \/ EvalDone \/ Restart \/ Operator \/ MoveBalloons
           \/ UNCHANGED vars
           \/ \E g \in Guests : CollectFail(g) \/ EvalGuest(g) \/ Apply(g)
  BY <1>4 DEF StartRound, EvalDone, Restart, Operator, SetStepPolicy, SetRefType,
    SetRefParams, MoveBalloons, MoveBalloon, CollectFail, EvalGuest, Apply, vars
<1> QED
  BY <1>1, <1>2, <1>3, <1>4
  DEF Next, Sampling, Tick, Failure, Process, MainLoopStop, Kill

(***************************************************************************)
(* A monitor never keeps more samples than sample-history-length, nor does *)
(* a tick average over more, however often collections fail and momd is    *)
(* restarted.                                                              *)
(***************************************************************************)
THEOREM WindowBounded == Spec => []WindowInv
<1>1. Init => WindowInv
  BY ControlAssumption, EmptySeq DEF Init, NoSamples, WindowInv
<1> QED
  BY <1>1, WindowInvNext, TypeCorrect, PTL DEF Spec

(***************************************************************************)
(* Stale samples do no harm beyond the drift if the decision looks at one  *)
(* sample only: the step policy, which resizes the last sample's size, or  *)
(* the reference policy without a history to average over.                 *)
(***************************************************************************)
OneSampleDecides ==
  \/ PolicyTypes = {"step"}
  \/ HistoryLength = 1 /\ RefAtThreshold

LEMMA OneSampleIsOneSize ==
  ASSUME NEW h \in Seq(Samples), h # << >>, Len(h) =< 1
  PROVE  OneSize(h)
<1>1. Len(h) \in Nat \ {0} /\ DOMAIN h = 1 .. Len(h)
  BY EmptySeq
<1>2. Len(h) = 1
  BY <1>1
<1> QED
  BY <1>1, <1>2 DEF OneSize, Last

LEMMA OneSampleIsSound ==
  ASSUME OneSampleDecides, StepInv, WindowInv, NEW g \in Guests, EvalGuest(g)
  PROVE  Sound(snap[g], params)
<1>1. CASE PolicyTypes = {"step"}
  <2>1. params.type \in PolicyTypes
    BY DEF StepInv, TypeOK
  <2> QED
    BY <1>1, <2>1 DEF Sound
<1>2. CASE HistoryLength = 1 /\ RefAtThreshold
  <2> DEFINE h == snap[g]
  <2>1. h \in Seq(Samples) /\ h # << >> /\ Len(h) =< 1
    <3>1. pc = "evaluating" /\ g \in todo
      BY DEF EvalGuest
    <3>2. h # << >>
      BY <3>1 DEF StepInv, TickInv
    <3> QED
      BY <1>2, <3>2 DEF StepInv, TypeOK, WindowInv
  <2>2. params.ref \in RefParams
    BY DEF StepInv, TypeOK
  <2> HIDE DEF h
  <2>3. OneSize(h)
    BY <2>1, OneSampleIsOneSize
  <2> QED
    BY <1>2, <2>2, <2>3 DEF Sound, h
<1> QED
  BY <1>1, <1>2 DEF OneSampleDecides

(***************************************************************************)
(* The invariant holds in every reachable state.                           *)
(***************************************************************************)
THEOREM StepInvariant ==
  ASSUME OneSampleDecides
  PROVE  Spec => []StepInv
<1>1. Init => StepInv
  BY StepInvInit
<1>2. StepInv /\ WindowInv /\ [Next]_vars => StepInv'
  BY StepInvNext, OneSampleIsSound
<1> QED
  BY <1>1, <1>2, WindowBounded, PTL DEF Spec

(***************************************************************************)
(* A policy that decides by one sample never hands out memory              *)
(* host_free.txt does not show.                                            *)
(***************************************************************************)
THEOREM StepLedgerNonNegative ==
  ASSUME OneSampleDecides
  PROVE  Spec => []HostFreeNonNegative
<1>1. StepInv => HostFreeNonNegative
  BY DEF StepInv
<1> QED
  BY <1>1, StepInvariant, PTL

(***************************************************************************)
(* A policy that decides by one sample keeps every control, every QEMU     *)
(* target and every balloon between balloon_min and balloon_max.           *)
(***************************************************************************)
THEOREM StepTargetsInBounds ==
  ASSUME OneSampleDecides
  PROVE  Spec => []TargetsInBounds
<1>1. StepInv => TargetsInBounds
  BY DEF StepInv, SizesInv, TargetsInBounds
<1> QED
  BY <1>1, StepInvariant, PTL

(***************************************************************************)
(* No guest's account in one step is off by more than a balloon's range,   *)
(* and so a step, the kill of momd in the middle of a tick for example,    *)
(* makes or loses at most that much for each guest.                        *)
(***************************************************************************)
DriftBound == BalloonMax - BalloonMin

THEOREM DriftBounded ==
  ASSUME OneSampleDecides
  PROVE  Spec => [][ /\ \A g \in Guests : DriftOf(g) \in -DriftBound .. DriftBound
                     /\ LedgerTotal' - LedgerTotal
                          \in -(Cardinality(Guests) * DriftBound)
                                .. Cardinality(Guests) * DriftBound ]_vars
<1> DEFINE Within == /\ \A g \in Guests : DriftOf(g) \in -DriftBound .. DriftBound
                     /\ LedgerTotal' - LedgerTotal
                          \in -(Cardinality(Guests) * DriftBound)
                                .. Cardinality(Guests) * DriftBound
<1>1. ASSUME StepInv, StepInv', [Next]_vars
      PROVE  Within
  <2>0. DriftBound \in Nat /\ Cardinality(Guests) \in Nat /\ IsFiniteSet(Guests)
    BY MemoryAssumption, ControlAssumption, FS_CardinalityType DEF DriftBound
  <2>1. ASSUME NEW g \in Guests
        PROVE  DriftOf(g) \in -DriftBound .. DriftBound
    <3>1. qtarget[g] \in Sizes /\ qtarget'[g] \in Sizes
      BY <1>1 DEF StepInv, SizesInv
    <3>2. control[g] \in Sizes \cup {NoTarget}
      BY <1>1 DEF StepInv, SizesInv
    <3>3. CASE control[g] = NoTarget /\ control'[g] # NoTarget
      <4>1. \E h \in Guests : EvalGuest(h)
        BY <1>1, <3>3 DEF Next, Sampling, StartRound, Collect, CollectFail, DoControls, Tick,
          EvalDone, ApplyDone, Apply, Failure, EvalFail, ApplyFail, Process, MainLoopStop,
          Kill, Stop, EndTick, NoControls, Restart, Operator, SetStepPolicy, SetRefType,
          SetRefParams, MoveBalloons, MoveBalloon, vars, files, monitors, engine, qemu
      <4>2. EvalGuest(g)
        BY <1>1, <3>3, <4>1 DEF EvalGuest, StepInv, TypeOK
      <4>3. snap[g] \in Seq(BoundedSamples) /\ snap[g] # << >>
        BY <1>1, <4>2 DEF EvalGuest, StepInv, SizesInv, TickInv
      <4>4. Last(snap[g]).cur \in Sizes
        BY <4>3, LastIsElement DEF BoundedSamples
      <4>5. DriftOf(g) = Last(snap[g]).cur - qtarget[g]
        BY <3>3 DEF DriftOf
      <4> QED
        BY <3>1, <4>4, <4>5, MemoryAssumption DEF Sizes, DriftBound
    <3>4. CASE control[g] # NoTarget /\ control'[g] = NoTarget
      <4>1. DriftOf(g) = qtarget'[g] - control[g]
        BY <3>4 DEF DriftOf
      <4>2. control[g] \in Sizes
        BY <3>2, <3>4
      <4> QED
        BY <3>1, <4>1, <4>2, MemoryAssumption DEF Sizes, DriftBound
    <3>5. CASE (control[g] = NoTarget) = (control'[g] = NoTarget)
      <4>1. DriftOf(g) = 0
        BY <3>5 DEF DriftOf
      <4> QED
        BY <2>0, <4>1
    <3> QED
      BY <3>3, <3>4, <3>5
  <2> DEFINE drift == [g \in Guests |-> DriftOf(g)]
  <2>2. /\ drift \in [Guests -> Int]
        /\ \A g \in Guests : -DriftBound =< drift[g] /\ drift[g] =< DriftBound
    BY <2>0, <2>1
  <2>3. LedgerTotal' - LedgerTotal = SumFunction(drift)
    BY <1>1, AccountedStep DEF StepInv, TotalDrift
  <2> HIDE DEF drift
  <2>4. SumFunction(drift) \in Int
    BY <2>0, <2>2, SumType
  <2>5. /\ Cardinality(Guests) * (-DriftBound) =< SumFunction(drift)
        /\ SumFunction(drift) =< Cardinality(Guests) * DriftBound
    <3>1. DriftBound \in Int /\ -DriftBound \in Int
      BY <2>0
    <3> HIDE DEF DriftBound
    <3> QED
      BY <2>0, <2>2, <3>1, SumBounds
  <2>6. Cardinality(Guests) * (-DriftBound) = -(Cardinality(Guests) * DriftBound)
        /\ Cardinality(Guests) * DriftBound \in Int
    BY <2>0
  <2> QED
    BY <2>1, <2>3, <2>4, <2>5, <2>6
<1>2. Spec => []StepInv
  BY StepInvariant
<1>3. StepInv /\ StepInv' /\ [Next]_vars => [Within]_vars
  BY <1>1
<1> QED
  BY <1>2, <1>3, PTL DEF Spec

-----------------------------------------------------------------------------
(* Guests that keep demanding memory.                                      *)

(***************************************************************************)
(* DemandServed is about guests that use all they have, under a step       *)
(* policy whose shrink_threshold is at most 1.                             *)
(***************************************************************************)
FullDemand ==
  /\ UnusedLevels = {0}
  /\ PolicyTypes = {"step"}
  /\ \A p \in StepParams : p.shrink_threshold =< Den

FullUseSamples == [cur : Int, unused : {0}]

FullUseInv ==
  /\ history \in [Guests -> Seq(FullUseSamples)]
  /\ snap \in [Guests -> Seq(FullUseSamples)]

LEMMA FullUseNext ==
  ASSUME FullDemand, TypeOK, FullUseInv, [Next]_vars
  PROVE  FullUseInv'
<1> USE DEF FullUseInv, monitors, engine, NoSamples
<1>1. ASSUME NEW g \in Guests, Collect(g)
      PROVE  FullUseInv'
  <2>1. PICK unused \in UnusedLevels :
          history' = [history EXCEPT ![g] =
            Recorded(@, [cur |-> actual[g], unused |-> unused])]
    BY <1>1 DEF Collect
  <2>2. [cur |-> actual[g], unused |-> unused] \in FullUseSamples
    BY DEF FullUseSamples, FullDemand, TypeOK
  <2>3. history' \in [Guests -> Seq(FullUseSamples)]
    BY <2>1, <2>2, RecordedIsHistory
  <2> QED
    BY <1>1, <2>3 DEF Collect
<1>2. CASE DoControls
  BY <1>2 DEF DoControls
<1>3. CASE EvalFail \/ ApplyDone \/ Stop \/ \E g \in Guests : ApplyFail(g)
  <2>1. snap' = NoSamples /\ (history' = history \/ history' = NoSamples)
    BY <1>3 DEF EvalFail, ApplyDone, Stop, ApplyFail, EndTick
  <2>2. NoSamples \in [Guests -> Seq(FullUseSamples)]
    OBVIOUS
  <2> QED
    BY <2>1, <2>2
<1>4. CASE \/ StartRound \/ EvalDone \/ Restart \/ Operator \/ MoveBalloons
           \/ UNCHANGED vars
           \/ \E g \in Guests : CollectFail(g) \/ EvalGuest(g) \/ Apply(g)
  BY <1>4 DEF StartRound, EvalDone, Restart, Operator, SetStepPolicy, SetRefType,
    SetRefParams, MoveBalloons, MoveBalloon, CollectFail, EvalGuest, Apply, vars
<1> QED
  BY <1>1, <1>2, <1>3, <1>4
  DEF Next, Sampling, Tick, Failure, Process, MainLoopStop, Kill

(***************************************************************************)
(* A grown target is not below the size it starts from.                    *)
(***************************************************************************)
LEMMA GrowStepDebits ==
  ASSUME NEW cur \in Sizes, NEW free \in Nat, NEW step \in Nat
  PROVE  opt_policy_grow_step(cur, free, step) >= cur
<1> DEFINE chunks == Chunk * (free \div Chunk)
           want == IF cur + step > BalloonMax THEN BalloonMax ELSE cur + step
<1>1. chunks \in Nat
  BY WholeChunks, MemoryAssumption
<1>2. want \in Int /\ want >= cur
  BY MemoryAssumption DEF Sizes
<1>3. opt_policy_grow_step(cur, free, step) =
        IF free - (want - cur) < 0 THEN cur + chunks ELSE want
  BY DEF opt_policy_grow_step, Affordable
<1> HIDE DEF chunks, want
<1> QED
  BY <1>1, <1>2, <1>3 DEF Sizes

(***************************************************************************)
(* A guest that uses all it has is never shrunk.                           *)
(***************************************************************************)
LEMMA FullUseGrows ==
  ASSUME FullDemand, NEW h \in Seq(FullUseSamples), h # << >>,
         \A i \in DOMAIN h : h[i].cur \in Sizes,
         NEW free \in Nat, NEW p \in StepParams
  PROVE  \/ opt_policy_step(h, free, p) = NoTarget
         \/ opt_policy_step(h, free, p) >= Last(h).cur
<1>1. h \in Seq(Samples)
  <2>1. FullUseSamples \subseteq Samples
    BY DEF FullUseSamples, Samples
  <2> QED
    BY <2>1, SeqMonotonic
<1>2. \A i \in DOMAIN h : h[i] \in FullUseSamples
  OBVIOUS
<1>3. StatAvg(h, "unused") = 0
  <2>1. \A i \in DOMAIN h : 0 =< h[i]["unused"] /\ h[i]["unused"] =< 0
    BY <1>2 DEF FullUseSamples
  <2>2. 0 =< StatAvg(h, "unused") /\ StatAvg(h, "unused") =< 0
    BY <1>1, <2>1, AverageBetween
  <2> QED
    BY <1>1, <2>2, AverageIsInt
<1> DEFINE avg == StatAvg(h, "cur")
<1>4. avg \in Int /\ avg > 0
  <2>1. \A i \in DOMAIN h : BalloonMin =< h[i]["cur"] /\ h[i]["cur"] =< BalloonMax
    BY DEF Sizes
  <2>2. BalloonMin \in Int /\ BalloonMax \in Int
    BY MemoryAssumption
  <2>3. avg \in Int /\ BalloonMin =< avg
    BY <1>1, <2>1, <2>2, AverageBetween, AverageIsInt
  <2> QED
    BY <2>3, MemoryAssumption
<1>5. UsedMem(h) = avg
  BY <1>3, <1>4 DEF UsedMem
<1>6. p.shrink_threshold \in Nat /\ p.shrink_threshold =< Den /\ p.grow_step \in Nat
  BY ControlAssumption DEF FullDemand
<1>7. ~UsedBelow(h, p.shrink_threshold)
  <2> DEFINE t == p.shrink_threshold
  <2>1. UsedBelow(h, t) <=> avg * Den < t * avg
    BY <1>5 DEF UsedBelow
  <2> HIDE DEF avg, t
  <2>2. t \in Nat /\ t =< Den
    BY <1>6 DEF t
  <2>3. Den - t \in Nat /\ (Den - t) * avg >= 0
    BY <1>4, <2>2, MemoryAssumption
  <2>4. (Den - t) * avg = avg * Den - t * avg
    BY <1>4, <2>2, MemoryAssumption
  <2>5. avg * Den \in Int /\ t * avg \in Int
    BY <1>4, <2>2, MemoryAssumption
  <2> QED
    BY <2>1, <2>3, <2>4, <2>5 DEF t
<1>8. Last(h).cur \in Sizes
  BY EmptySeq DEF Last
<1>9. CASE UsedAbove(h, p.grow_threshold)
  <2>1. opt_policy_step(h, free, p) = opt_policy_grow_step(Last(h).cur, free, p.grow_step)
    BY <1>7, <1>9 DEF opt_policy_step
  <2> QED
    BY <1>6, <1>8, <2>1, GrowStepDebits
<1>10. CASE ~UsedAbove(h, p.grow_threshold)
  BY <1>7, <1>10 DEF opt_policy_step
<1> QED
  BY <1>9, <1>10

(***************************************************************************)
(* The safety side of DemandServed: however stale the samples are and      *)
(* whatever fails or is restarted, demand never pays into host_free.txt,   *)
(* so that the memory handed out is bounded by what it held at the start.  *)
(***************************************************************************)
THEOREM DemandOnlyDebits ==
  ASSUME FullDemand
  PROVE  Spec => [][hostFree' =< hostFree]_vars
<1>1. Init => FullUseInv
  BY DEF Init, NoSamples, FullUseInv
<1>2. TypeOK /\ FullUseInv /\ [Next]_vars => FullUseInv'
  BY FullUseNext
<1>3. ASSUME StepInv, FullUseInv, [Next]_vars
      PROVE  hostFree' =< hostFree
  <2>1. hostFree \in Nat
    BY <1>3 DEF StepInv, TypeOK, HostFreeNonNegative
  <2>2. CASE [NextButEval]_vars
    BY <2>1, <2>2, LedgerWithoutEval
  <2>3. ASSUME NEW g \in Guests, EvalGuest(g)
        PROVE  hostFree' =< hostFree
    <3> DEFINE target == opt_policy_select(snap[g], hostFree, params)
               cur == Last(snap[g]).cur
    <3>1. snap[g] # << >> /\ snap[g] \in Seq(FullUseSamples)
      BY <1>3, <2>3 DEF EvalGuest, StepInv, TickInv, FullUseInv
    <3>2. /\ \A i \in DOMAIN snap[g] : snap[g][i].cur \in Sizes
          /\ snap[g] \in Seq(BoundedSamples)
      <4>1. snap[g] \in Seq(BoundedSamples)
        BY <1>3 DEF StepInv, SizesInv
      <4>2. \A i \in DOMAIN snap[g] : snap[g][i] \in BoundedSamples
        BY <4>1
      <4> QED
        BY <4>1, <4>2 DEF BoundedSamples
    <3>3. params.type = "step" /\ params.step \in StepParams
      BY <1>3 DEF StepInv, TypeOK, FullDemand
    <3>4. target = opt_policy_step(snap[g], hostFree, params.step)
      BY <3>3 DEF opt_policy_select
    <3>5. target = NoTarget \/ target >= cur
      BY <2>1, <3>1, <3>2, <3>3, <3>4, FullUseGrows
    <3>6. cur \in Int
      <4>1. Last(snap[g]) \in FullUseSamples
        BY <3>1, LastIsElement
      <4> QED
        BY <4>1 DEF FullUseSamples
    <3>7. target \in Int \cup {NoTarget}
      BY <1>3, <2>3, DecisionIsTyped DEF EvalGuest, StepInv, TypeOK, TickInv
    <3>8. hostFree' = IF target = NoTarget THEN hostFree ELSE hostFree - (target - cur)
      BY <2>3 DEF EvalGuest
    <3> HIDE DEF target, cur
    <3> QED
      BY <2>1, <3>5, <3>6, <3>7, <3>8
  <2>4. [NextButEval]_vars \/ \E g \in Guests : EvalGuest(g)
    BY <1>3 DEF Next, NextButEval, Tick
  <2> QED
    BY <2>2, <2>3, <2>4
<1>4. Spec => []StepInv
  BY StepInvariant DEF FullDemand, OneSampleDecides
<1>5. StepInv /\ FullUseInv /\ [Next]_vars => [hostFree' =< hostFree]_vars
  BY <1>3
<1>6. StepInv => TypeOK
  BY DEF StepInv
<1> QED
  BY <1>1, <1>2, <1>4, <1>5, <1>6, PTL DEF Spec

-----------------------------------------------------------------------------
(* When the ticks find the guests settled.                                 *)

(***************************************************************************)
(* A settled behaviour is a behaviour of the control loop.                 *)
(***************************************************************************)
LEMMA SettledNextIsNext == SettledNext => Next
  BY DEF SettledNext, Next, Failure, Process

(***************************************************************************)
(* Settled ticks keep their snapshots and commands in step with QEMU.      *)
(***************************************************************************)
LEMMA SettledInvNext ==
  TypeOK /\ TickInv /\ SettledInv /\ [SettledNext]_vars => SettledInv'
<1> SUFFICES ASSUME TypeOK, TickInv, SettledInv, [SettledNext]_vars
             PROVE  SettledInv'
  OBVIOUS
<1> USE DEF SettledInv, TickInv, NothingCharged, files, monitors, engine, qemu
<1>1. CASE Sampling
  BY <1>1 DEF Sampling, StartRound, Collect
<1>2. CASE DoControls /\ Settled /\ AveragesSettled
  <2>1. \A g \in todo' : Last(snap'[g]).cur = qtarget'[g]
    BY <1>2 DEF DoControls, Settled, TypeOK
  <2>2. "ref" \in PolicyTypes => \A g \in todo' : OneSize(snap'[g])
    BY <1>2 DEF DoControls, AveragesSettled, TypeOK
  <2> QED
    BY <1>2, <2>1, <2>2 DEF DoControls
<1>3. ASSUME NEW g \in Guests, EvalGuest(g)
      PROVE  SettledInv'
  BY <1>3 DEF EvalGuest, TypeOK
<1>4. CASE EvalDone
  BY <1>4 DEF EvalDone
<1>5. ASSUME NEW g \in Guests, Apply(g)
      PROVE  SettledInv'
  BY <1>5 DEF Apply, TypeOK
<1>6. CASE ApplyDone \/ EvalFail
  BY <1>6 DEF ApplyDone, EvalFail, EndTick
<1>7. ASSUME NEW g \in Guests, CollectFail(g)
      PROVE  SettledInv'
  BY <1>7 DEF CollectFail
<1>8. CASE Kill
  BY <1>8 DEF Kill, Stop, EndTick
<1>9. CASE Restart
  BY <1>9 DEF Restart
<1>10. CASE Operator
  BY <1>10 DEF Operator, SetStepPolicy, SetRefType, SetRefParams
<1>11. CASE MoveBalloons
  BY <1>11 DEF MoveBalloons, MoveBalloon
<1>12. CASE UNCHANGED vars
  BY <1>12 DEF vars
<1> QED
  BY <1>1, <1>2, <1>3, <1>4, <1>5, <1>6, <1>7, <1>8, <1>9, <1>10, <1>11, <1>12
  DEF SettledNext, Tick

(***************************************************************************)
(* Under every policy and the settled conditions, a guest to be evaluated  *)
(* is at the size its snapshot shows and a command that was given is       *)
(* QEMU's target.                                                          *)
(***************************************************************************)
THEOREM SettledInvariant ==
  SettledSpec => [](TypeOK /\ TickInv /\ ChargedOnce /\ SettledInv)
<1>1. Init => TypeOK /\ TickInv /\ ChargedOnce /\ SettledInv
  <2>1. Init => SettledInv
    BY DEF Init, SettledInv
  <2> QED
    BY <2>1, TypesInit
<1>2. TypeOK /\ TickInv /\ ChargedOnce /\ SettledInv /\ [SettledNext]_vars
        => (TypeOK /\ TickInv /\ ChargedOnce /\ SettledInv)'
  BY TypesNext, TickInvNext, ChargedOnceNext, SettledNextIsNext, SettledInvNext
<1> QED
  BY <1>1, <1>2, PTL DEF SettledSpec

(***************************************************************************)
(* Neither exception happens under these conditions.                       *)
(***************************************************************************)
LEMMA SettledStepConserves ==
  TypeOK /\ TickInv /\ ChargedOnce /\ SettledInv /\ [SettledNext]_vars
    => LedgerTotal' = LedgerTotal
<1> SUFFICES ASSUME TypeOK, TickInv, ChargedOnce, SettledInv, [SettledNext]_vars,
                    NEW g \in Guests, StaleCharge(g) \/ DroppedCharge(g)
             PROVE  LedgerTotal' = LedgerTotal
  BY DriftStep, SettledNextIsNext
<1>1. control' # control
  BY DEF StaleCharge, DroppedCharge
<1>2. ASSUME NEW h \in Guests, EvalGuest(h)
      PROVE  control[h] = NoTarget /\ Last(snap[h]).cur = qtarget[h]
             /\ qtarget' = qtarget /\ \A i \in Guests \ {h} : control'[i] = control[i]
  BY <1>2 DEF EvalGuest, ChargedOnce, SettledInv, TypeOK, qemu
<1>3. CASE \E h \in Guests : EvalGuest(h)
  BY <1>2, <1>3 DEF StaleCharge, DroppedCharge
<1>4. CASE ApplyDone
  BY <1>4 DEF ApplyDone, EndTick, NoControls, SettledInv, StaleCharge, DroppedCharge, qemu
<1>5. CASE (EvalFail \/ Kill) /\ NothingCharged
  BY <1>1, <1>5 DEF EvalFail, Kill, Stop, EndTick, NothingCharged
<1>6. CASE \/ Sampling \/ DoControls \/ EvalDone \/ Restart \/ Operator
           \/ MoveBalloons \/ UNCHANGED vars
           \/ \E h \in Guests : CollectFail(h) \/ Apply(h)
  BY <1>1, <1>6 DEF Sampling, StartRound, Collect, CollectFail, Apply, DoControls,
    EvalDone, Restart, Operator, SetStepPolicy, SetRefType, SetRefParams, MoveBalloons,
    MoveBalloon, vars, files, monitors, engine, qemu
<1> QED
  BY <1>3, <1>4, <1>5, <1>6 DEF SettledNext, Tick

(***************************************************************************)
(* The greatest initial amounts exist.                                     *)
(***************************************************************************)
LEMMA GreatestInitial ==
  /\ Max(InitialSizes) \in Int
  /\ \A size \in InitialSizes : size \in Int /\ size =< Max(InitialSizes)
  /\ Max(InitialHostFree) \in Int
  /\ \A free \in InitialHostFree : free \in Int /\ free =< Max(InitialHostFree)
  /\ HostMemory \in Int
<1>1. InitialSizes \subseteq Int /\ IsFiniteSet(InitialSizes) /\ InitialSizes # {}
  <2>1. IsFiniteSet(Sizes)
    BY FS_Interval, MemoryAssumption DEF Sizes
  <2>2. IsFiniteSet(InitialSizes)
    BY <2>1, FS_Subset, ControlAssumption
  <2> QED
    BY <2>2, ControlAssumption DEF Sizes
<1>2. InitialHostFree \subseteq Int /\ IsFiniteSet(InitialHostFree) /\ InitialHostFree # {}
  BY ControlAssumption
<1>3. Max(InitialSizes) \in InitialSizes /\ \A size \in InitialSizes : size =< Max(InitialSizes)
  BY <1>1, MaxIsGreatest
<1>4. /\ Max(InitialHostFree) \in InitialHostFree
      /\ \A free \in InitialHostFree : free =< Max(InitialHostFree)
  BY <1>2, MaxIsGreatest
<1>5. Cardinality(Guests) \in Nat
  BY FS_CardinalityType, ControlAssumption
<1>6. Max(InitialSizes) \in Int /\ Max(InitialHostFree) \in Int
  BY <1>1, <1>2, <1>3, <1>4
<1>7. HostMemory \in Int
  BY <1>5, <1>6 DEF HostMemory
<1> QED
  BY <1>1, <1>2, <1>3, <1>4, <1>6, <1>7

(***************************************************************************)
(* At the start the guests and host_free.txt own at most HostMemory.       *)
(***************************************************************************)
LEMMA InitialTotal == Init => LedgerTotal =< HostMemory
<1> SUFFICES ASSUME Init PROVE LedgerTotal =< HostMemory
  OBVIOUS
<1> DEFINE most == Max(InitialSizes)
           held == [g \in Guests |-> Held(g)]
<1>1. most \in Int /\ \A size \in InitialSizes : size \in Int /\ size =< most
  BY GreatestInitial
<1>2. /\ Max(InitialHostFree) \in Int
      /\ hostFree \in Int
      /\ hostFree =< Max(InitialHostFree)
  BY GreatestInitial DEF Init
<1>3. \A g \in Guests : held[g] \in InitialSizes
  BY DEF Init, NoControls, Held
<1> HIDE DEF most, held
<1>4. held \in [Guests -> Int]
  <2>1. \A g \in Guests : held[g] \in Int
    BY <1>1, <1>3
  <2> QED
    BY <2>1 DEF held
<1>5. BalloonMin \in Int /\ \A g \in Guests : BalloonMin =< held[g] /\ held[g] =< most
  <2>1. \A size \in InitialSizes : BalloonMin =< size
    BY ControlAssumption, MemoryAssumption DEF Sizes
  <2> QED
    BY <1>1, <1>3, <2>1, MemoryAssumption
<1>6. IsFiniteSet(Guests)
  BY ControlAssumption
<1>7. SumFunction(held) \in Int
  BY <1>4, <1>6, SumType
<1>8. SumFunction(held) =< Cardinality(Guests) * most
  BY <1>1, <1>4, <1>5, <1>6, SumBounds
<1>9. Cardinality(Guests) * most \in Int
  BY <1>1, <1>6, FS_CardinalityType
<1>10. LedgerTotal = hostFree + SumFunction(held)
  BY DEF LedgerTotal, TotalHeld, held
<1>11. HostMemory = Cardinality(Guests) * most + Max(InitialHostFree)
  BY DEF HostMemory, most
<1> QED
  BY <1>2, <1>7, <1>8, <1>9, <1>10, <1>11

(***************************************************************************)
(* Under every policy and the settled conditions the guests' shares and    *)
(* host_free.txt never add up to more than HostMemory.                     *)
(***************************************************************************)
THEOREM SettledConserves == SettledSpec => [](LedgerTotal =< HostMemory)
<1>1. LedgerTotal =< HostMemory /\ LedgerTotal' = LedgerTotal
        => (LedgerTotal =< HostMemory)'
  BY DEF HostMemory
<1> QED
  BY <1>1, InitialTotal, SettledInvariant, SettledStepConserves, PTL DEF SettledSpec

(***************************************************************************)
(* With settled averages each evaluation can be relied on.                 *)
(***************************************************************************)
LEMMA SettledIsSound ==
  ASSUME RefAtThreshold, TypeOK, SettledInv, NEW g \in Guests, EvalGuest(g)
  PROVE  Sound(snap[g], params)
<1>1. params.type \in PolicyTypes /\ params.ref \in RefParams
  BY DEF TypeOK
<1>2. params.type = "step" \/ params.type = "ref"
  BY <1>1, ControlAssumption
<1>3. CASE params.type = "ref"
  <2>1. pc = "evaluating" /\ g \in todo
    BY DEF EvalGuest
  <2>2. OneSize(snap[g])
    BY <1>1, <1>3, <2>1 DEF SettledInv
  <2> QED
    BY <1>1, <2>2 DEF Sound
<1> QED
  BY <1>2, <1>3 DEF Sound

(***************************************************************************)
(* Settled ticks keep the invariant of the ledger and the sizes, over a    *)
(* history of any length.                                                  *)
(***************************************************************************)
LEMMA SettledStepInv ==
  ASSUME RefAtThreshold
  PROVE  SettledSpec => []StepInv
<1>1. StepInv /\ SettledInv /\ [SettledNext]_vars => StepInv'
  BY StepInvNext, SettledIsSound, SettledNextIsNext DEF StepInv
<1> QED
  BY <1>1, StepInvInit, SettledInvariant, PTL DEF SettledSpec

(***************************************************************************)
(* Under either policy and the settled conditions the guests never hold    *)
(* more memory at rest than they and host_free.txt owned at the start.     *)
(***************************************************************************)
THEOREM SettledNoOvercommit ==
  ASSUME RefAtThreshold
  PROVE  SettledSpec => []NoOvercommitAtRest
<1>1. StepInv /\ LedgerTotal =< HostMemory => NoOvercommitAtRest
  <2> SUFFICES ASSUME StepInv, LedgerTotal =< HostMemory, AtRest
               PROVE  InUse =< HostMemory
    BY DEF NoOvercommitAtRest
  <2>1. control = NoControls
    BY DEF AtRest, StepInv, TickInv, NothingCharged
  <2>2. [g \in Guests |-> Held(g)] = actual
    BY <2>1 DEF NoControls, Held, AtRest, StepInv, TypeOK, SizesInv
  <2>3. TotalHeld = InUse
    BY <2>2 DEF TotalHeld, InUse
  <2>4. InUse \in Int
    <3>1. actual \in [Guests -> Int]
      BY DEF StepInv, TypeOK, SizesInv, Sizes
    <3> QED
      BY <3>1, SumType, ControlAssumption DEF InUse
  <2> QED
    BY <2>3, <2>4, GreatestInitial DEF StepInv, TypeOK, HostFreeNonNegative, LedgerTotal
<1> QED
  BY <1>1, SettledStepInv, SettledConserves, PTL

-----------------------------------------------------------------------------
(* When ticks are not broken off.                                          *)

(***************************************************************************)
(* Nothing ends a tick that has charged something: evaluations that find   *)
(* guests at any size, collections that fail, restarts between two ticks.  *)
(***************************************************************************)
WholeTicksNext ==
  \/ Sampling \/ DoControls \/ Tick \/ Restart \/ Operator \/ MoveBalloons
  \/ (EvalFail \/ Kill) /\ NothingCharged
  \/ \E g \in Guests : CollectFail(g)

WholeTicksSpec == Init /\ [][WholeTicksNext]_vars

(***************************************************************************)
(* A command that was given is QEMU's target, and the engine lives.        *)
(***************************************************************************)
AppliedInv ==
  /\ pc # "dead"
  /\ pc = "applying" =>
       \A g \in Guests \ todo : control[g] # NoTarget => qtarget[g] = control[g]

LEMMA WholeTicksNextIsNext == WholeTicksNext => Next
  BY DEF WholeTicksNext, Next, Failure, Process

LEMMA AppliedNext ==
  TypeOK /\ TickInv /\ AppliedInv /\ [WholeTicksNext]_vars => AppliedInv'
<1> SUFFICES ASSUME TypeOK, TickInv, AppliedInv, [WholeTicksNext]_vars
             PROVE  AppliedInv'
  OBVIOUS
<1> USE DEF AppliedInv, NothingCharged, files, monitors, engine, qemu
<1>1. ASSUME NEW g \in Guests, EvalGuest(g) \/ Apply(g) \/ CollectFail(g)
      PROVE  AppliedInv'
  BY <1>1 DEF EvalGuest, Apply, CollectFail, TypeOK
<1>2. CASE DoControls \/ EvalDone \/ Restart
  BY <1>2 DEF DoControls, EvalDone, Restart
<1>3. CASE ApplyDone \/ EvalFail \/ Kill
  BY <1>3 DEF ApplyDone, EvalFail, Kill, Stop, EndTick
<1>4. CASE Sampling \/ Operator \/ MoveBalloons \/ UNCHANGED vars
  BY <1>4 DEF Sampling, StartRound, Collect, Operator, SetStepPolicy, SetRefType,
    SetRefParams, MoveBalloons, MoveBalloon, vars
<1> QED
  BY <1>1, <1>2, <1>3, <1>4 DEF WholeTicksNext, Tick

LEMMA NoDropNext ==
  ASSUME TypeOK, TickInv, ChargedOnce, AppliedInv, [WholeTicksNext]_vars,
         NEW g \in Guests
  PROVE  ~DroppedCharge(g)
<1> SUFFICES ASSUME DroppedCharge(g) PROVE FALSE
  OBVIOUS
<1>1. control'[g] # control[g] /\ control[g] # NoTarget
  BY DEF DroppedCharge
<1>2. ASSUME NEW h \in Guests, EvalGuest(h)
      PROVE  FALSE
  BY <1>1, <1>2 DEF EvalGuest, ChargedOnce, TypeOK
<1>3. CASE ApplyDone
  BY <1>3 DEF ApplyDone, EndTick, AppliedInv, DroppedCharge, qemu
<1>4. CASE (EvalFail \/ Kill) /\ NothingCharged
  BY <1>1, <1>4 DEF NothingCharged, NoControls
<1>5. CASE \/ Sampling \/ DoControls \/ EvalDone \/ Restart \/ Operator
           \/ MoveBalloons \/ UNCHANGED vars
           \/ \E h \in Guests : CollectFail(h) \/ Apply(h)
  BY <1>1, <1>5 DEF Sampling, StartRound, Collect, CollectFail, Apply, DoControls,
    EvalDone, Restart, Operator, SetStepPolicy, SetRefType, SetRefParams, MoveBalloons,
    MoveBalloon, vars, files, monitors, engine, qemu
<1> QED
  BY <1>2, <1>3, <1>4, <1>5 DEF WholeTicksNext, Tick

(***************************************************************************)
(* If no tick is broken off after a charge, under every policy, a control  *)
(* is only ever given up for the command QEMU has taken, and stale samples *)
(* are the one source of drift.                                            *)
(***************************************************************************)
OnlyStaleDrift ==
  [][ /\ \A g \in Guests : ~DroppedCharge(g)
      /\ LedgerTotal' # LedgerTotal => \E g \in Guests : StaleCharge(g) ]_vars

THEOREM WholeTicksDropNothing == WholeTicksSpec => OnlyStaleDrift
<1> DEFINE Inv == TypeOK /\ TickInv /\ ChargedOnce /\ AppliedInv
           Step == /\ \A g \in Guests : ~DroppedCharge(g)
                   /\ LedgerTotal' # LedgerTotal => \E g \in Guests : StaleCharge(g)
<1>1. Init => Inv
  BY TypesInit DEF Init, AppliedInv
<1>2. Inv /\ [WholeTicksNext]_vars => Inv'
  BY TypesNext, TickInvNext, ChargedOnceNext, AppliedNext, WholeTicksNextIsNext
<1>3. Inv /\ [WholeTicksNext]_vars => [Step]_vars
  BY NoDropNext, DriftStep, WholeTicksNextIsNext
<1> QED
  BY <1>1, <1>2, <1>3, PTL DEF WholeTicksSpec, OnlyStaleDrift

(***************************************************************************)
(* The safety side of EveryControlIsApplied: the reliable runs it is       *)
(* checked for lose no control on its way to QEMU.                         *)
(***************************************************************************)
THEOREM LiveDropsNothing == LiveSpec => OnlyStaleDrift
<1>1. ReliableNext => WholeTicksNext
  BY DEF ReliableNext, WholeTicksNext
<1>2. LiveSpec => WholeTicksSpec
  BY <1>1, PTL DEF LiveSpec, WholeTicksSpec
<1> QED
  BY <1>2, WholeTicksDropNothing

-----------------------------------------------------------------------------
(* Refinement: settled ticks are transfers of the abstract ledger.         *)

(***************************************************************************)
(* Each settled step is a transfer of the ledger or leaves it alone.       *)
(***************************************************************************)
LEMMA SettledStepIsTransfer ==
  ASSUME RefAtThreshold
  PROVE  StepInv /\ SettledInv /\ [SettledNext]_vars
           => [Ledger!Next]_<<hostFree, [g \in Guests |-> Held(g)]>>
<1> DEFINE held == [g \in Guests |-> Held(g)]
<1> SUFFICES ASSUME StepInv, SettledInv, [SettledNext]_vars
             PROVE  Ledger!Next \/ (hostFree' = hostFree /\ held' = held)
  OBVIOUS
<1>1. CASE UNCHANGED <<hostFree, control, qtarget>>
  BY <1>1 DEF Held
<1>2. ASSUME NEW g \in Guests, EvalGuest(g)
      PROVE  Ledger!Next \/ (hostFree' = hostFree /\ held' = held)
  <2> DEFINE target == opt_policy_select(snap[g], hostFree, params)
             cur == Last(snap[g]).cur
  <2>1. /\ cur = qtarget[g]
        /\ control[g] = NoTarget
        /\ snap[g] \in Seq(BoundedSamples)
        /\ snap[g] # << >>
    BY <1>2 DEF EvalGuest, SettledInv, StepInv, TypeOK, SizesInv, TickInv, ChargedOnce
  <2>2. cur \in Sizes
    BY <2>1 DEF StepInv, TypeOK, SizesInv
  <2>3. snap[g] \in Seq(Samples) /\ Sound(snap[g], params)
    BY <1>2, SettledIsSound DEF StepInv, TypeOK
  <2>4. \/ target = NoTarget
        \/ target \in Sizes /\ hostFree - (target - cur) \in Nat
    <3>1. hostFree \in Nat
      BY DEF StepInv, TypeOK, HostFreeNonNegative
    <3> QED
      BY <2>1, <2>2, <2>3, <3>1, SoundDecision DEF StepInv, TypeOK
  <2>5. CASE target = NoTarget
    <3>1. control' = control
      BY <1>2, <2>1, <2>5 DEF EvalGuest, StepInv, TypeOK, SizesInv
    <3> QED
      BY <1>2, <2>5, <3>1 DEF EvalGuest, qemu, Held
  <2>6. CASE target # NoTarget
    <3>1. /\ target \in Sizes
          /\ hostFree - (target - cur) \in Nat
      BY <2>4, <2>6
    <3>2. held' = [held EXCEPT ![g] = target]
      BY <1>2, <2>6 DEF EvalGuest, qemu, Held, StepInv, TypeOK, SizesInv
    <3>3. held[g] = cur
      BY <2>1 DEF Held
    <3>4. hostFree' = hostFree - (target - held[g])
      BY <1>2, <2>6, <3>3 DEF EvalGuest
    <3>5. hostFree' >= 0
      BY <3>1, <3>3, <3>4
    <3>6. Ledger!Transfer(g, target)
      BY <3>2, <3>4, <3>5 DEF Ledger!Transfer
    <3> QED
      BY <3>1, <3>6 DEF Ledger!Next, Sizes
  <2> QED
    BY <2>5, <2>6
<1>3. ASSUME NEW g \in Guests, Apply(g)
      PROVE  hostFree' = hostFree /\ held' = held
  BY <1>3 DEF Apply, StepInv, TypeOK, SizesInv, TickInv, Held, files
<1>4. CASE ApplyDone
  <2>1. \A g \in Guests : control[g] # NoTarget => qtarget[g] = control[g]
    BY <1>4 DEF ApplyDone, SettledInv
  <2> QED
    BY <1>4, <2>1 DEF ApplyDone, EndTick, NoControls, Held, files, qemu
<1>5. CASE (EvalFail \/ Kill) /\ NothingCharged
  <2>1. UNCHANGED <<hostFree, control, qtarget>>
    BY <1>5 DEF EvalFail, Kill, Stop, EndTick, NothingCharged, files, qemu
  <2> QED
    BY <2>1, <1>1
<1>6. CASE \/ Sampling \/ DoControls \/ EvalDone \/ Restart \/ Operator
           \/ MoveBalloons \/ UNCHANGED vars
           \/ \E g \in Guests : CollectFail(g)
  <2>1. UNCHANGED <<hostFree, control, qtarget>>
    BY <1>6 DEF Sampling, StartRound, Collect, CollectFail, DoControls, EvalDone,
      Restart, Operator, SetStepPolicy, SetRefType, SetRefParams, MoveBalloons,
      MoveBalloon, vars, files, monitors, engine, qemu
  <2> QED
    BY <2>1, <1>1
<1> QED
  BY <1>2, <1>3, <1>4, <1>5, <1>6 DEF SettledNext, Tick

(***************************************************************************)
(* When every tick sees settled, freshly sampled guests and none is broken *)
(* off after a charge, both policies implement the abstract ledger:        *)
(* memory only moves between host_free.txt and the guests, which stay      *)
(* within their bounds, and the account is never overdrawn.                *)
(***************************************************************************)
THEOREM SettledImplementsLedger ==
  ASSUME RefAtThreshold
  PROVE  SettledSpec => LedgerSpec
<1>1. SettledSpec => [](StepInv /\ SettledInv)
  BY SettledInvariant, SettledStepInv, PTL
<1>2. Init => Ledger!Init
  <2> SUFFICES ASSUME Init PROVE Ledger!Init
    OBVIOUS
  <2>1. \A g \in Guests : Held(g) \in Sizes
    BY ControlAssumption DEF Init, NoControls, Held
  <2> QED
    BY <2>1, ControlAssumption DEF Init, Ledger!Init, Sizes
<1> QED
  BY <1>1, <1>2, SettledStepIsTransfer, PTL DEF SettledSpec, LedgerSpec, Ledger!Spec
=============================================================================
