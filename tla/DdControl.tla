----------------------------- MODULE DdControl ------------------------------
(***************************************************************************)
(* The balloon control loop of BalloonControl under every rule file the    *)
(* test scripts start momd with (momd -r rules/<file>): opt_select.rules   *)
(* or one of the Dd_policy files.  The latter read host_free.txt once when *)
(* the evaluation begins, and again in each function they call.            *)
(***************************************************************************)
EXTENDS BalloonControl, DdPolicies

CONSTANTS RuleFiles,
          Need   \* memory each guest uses when it has it, in steady use

ASSUME RuleFilesAssumption ==
  RuleFiles \subseteq
    {"opt_select", "ovirt-balloon-qos", "kvm_autoballoon",
     "xenserver-dynamic-memory-control", "dynamic_memory_allocation_controller",
     "Wei-Zhe_Zhang", "Hyper-V-dynamic-memory", "U-tube", "iballoon"}

ASSUME NeedAssumption == Need \in [Guests -> Nat]

VARIABLES
  rules,     \* the file momd is started with; the scripts change it only
             \* between experiments, with new guests and a new ledger
  pressure,  \* host_mem_pressure: host_free.txt when the evaluation began
  pass       \* which of the file's functions is applied to the guests

dd == <<rules, pressure, pass>>
ddVars == <<vars, dd>>

DdInit == Init /\ rules \in RuleFiles /\ pressure = 0 /\ pass = 0

(* The first statement of the file: (defvar host_mem_pressure ...).        *)
DdDoControls ==
  /\ DoControls
  /\ pressure' = hostFree
  /\ pass' = 1
  /\ UNCHANGED rules

(* Faulty variant: growth is paid from the amount read at the beginning.   *)
DdEvalGuestStale(g) ==
  LET target == DdTarget(rules, pass, snap[g], pressure, pressure)
  IN  /\ rules # "opt_select"
      /\ pc = "evaluating"
      /\ g \in todo
      /\ todo' = todo \ {g}
      /\ IF target = NoTarget
         THEN UNCHANGED <<control, hostFree>>
         ELSE /\ control' = [control EXCEPT ![g] = target]
              /\ hostFree' = hostFree - (target - Cur(snap[g]))
      /\ UNCHANGED <<params, monitors, pc, snap, qemu, dd>>

(* One call of a Dd_policy function: host_free.txt is read afresh, and     *)
(* written together with the control.                                      *)
DdEvalGuest(g) ==
  LET target == DdTarget(rules, pass, snap[g], hostFree, pressure)
  IN  /\ rules # "opt_select"
      /\ pc = "evaluating"
      /\ g \in todo
      /\ todo' = todo \ {g}
      /\ IF target = NoTarget
         THEN UNCHANGED <<control, hostFree>>
         ELSE /\ control' = [control EXCEPT ![g] = target]
              /\ hostFree' = hostFree - (target - Cur(snap[g]))
      /\ UNCHANGED <<params, monitors, pc, snap, qemu, dd>>

(* The next (with Guests guest ...) of iballoon.rules.                     *)
NextPass ==
  /\ pc = "evaluating"
  /\ todo = {}
  /\ pass < Passes(rules)
  /\ pass' = pass + 1
  /\ todo' = {g \in Guests : snap[g] # << >>}
  /\ UNCHANGED <<files, monitors, pc, snap, control, qemu, rules, pressure>>

DdEvalDone == EvalDone /\ pass = Passes(rules) /\ UNCHANGED dd

DdTick == \/ DdEvalDone \/ NextPass
          \/ ApplyDone /\ UNCHANGED dd
          \/ \E g \in Guests : \/ DdEvalGuest(g)
                               \/ rules = "opt_select" /\ EvalGuest(g) /\ UNCHANGED dd
                               \/ Apply(g) /\ UNCHANGED dd

DdNext == \/ DdDoControls \/ DdTick
          \/ (Sampling \/ Failure \/ Process \/ Operator \/ MoveBalloons) /\ UNCHANGED dd

DdSpec == DdInit /\ [][DdNext]_ddVars

-----------------------------------------------------------------------------
DdTypeOK ==
  /\ TypeOK
  /\ rules \in RuleFiles
  /\ pressure \in Int
  /\ pass \in 0 .. 4
  /\ pc = "evaluating" => pass \in 1 .. Passes(rules)

(***************************************************************************)
(* None of the compared algorithms overdraws host_free.txt, although their *)
(* decision to grow or shrink rests on an amount that other guests have    *)
(* spent since (Entity.py: new_hostpressure > 0).                          *)
(***************************************************************************)
DdLedgerNonNegative == rules # "opt_select" => hostFree >= 0

(***************************************************************************)
(* The rule files that keep the guests between balloon_min and balloon_max *)
(* from whatever stale samples they compute.  The other three do not: the  *)
(* oVirt rules pass balloon_min, the Hyper-V rules balloon_max and the KVM *)
(* rules both.                                                             *)
(***************************************************************************)
Bounded == {"xenserver-dynamic-memory-control", "dynamic_memory_allocation_controller",
            "Wei-Zhe_Zhang", "U-tube", "iballoon"}

DdTargetsInBounds == rules \in Bounded => TargetsInBounds

DdInv == DdTypeOK /\ DdTargetsInBounds

(***************************************************************************)
(* The third way memory is made or lost, besides a stale snapshot and a    *)
(* dropped control: two passes of iballoon.rules charge host_free.txt for  *)
(* the same guest and the second overwrites the first one's control.  It   *)
(* takes a use of exactly 30 or 90 percent, where the ranges overlap.      *)
(***************************************************************************)
AtThreshold(h) == \E t \in {3, 9} : ~Below(h, t) /\ ~Above(h, t)

ChargedTwice(g) ==
  /\ pass > 1
  /\ control[g] # NoTarget
  /\ hostFree' # hostFree
  /\ AtThreshold(snap[g])

DdLedgerDrift ==
  [][LedgerTotal' # LedgerTotal =>
       \E g \in Guests : StaleCharge(g) \/ DroppedCharge(g) \/ ChargedTwice(g)]_ddVars

-----------------------------------------------------------------------------
(***************************************************************************)
(* Guests in steady use: each uses Need, or all it has, and reports the    *)
(* rest; ticks find the guests settled and sampled since (the policy       *)
(* interval is long enough) and nothing fails.  A settled guest stays      *)
(* settled until the next tick, so the engine's timer finds it again and   *)
(* again (strong fairness); the other conditions are those of LiveSpec.    *)
(***************************************************************************)
SteadyCollect(g) ==
  /\ Collect(g)
  /\ Last(history'[g]).unused = Hi(actual[g] - Need[g], 0)

SteadySampling == StartRound \/ \E g \in Guests : SteadyCollect(g)

SettledTick == DdDoControls /\ Settled

SteadyNext == \/ SettledTick \/ DdTick
              \/ (SteadySampling \/ MoveBalloons) /\ UNCHANGED dd

SteadySpec ==
  /\ DdInit /\ [][SteadyNext]_ddVars
  /\ WF_ddVars(SteadySampling /\ UNCHANGED dd)
  /\ SF_ddVars(SettledTick)
  /\ WF_ddVars(DdTick)
  /\ \A g \in Guests : WF_ddVars(MoveBalloon(g) /\ UNCHANGED dd)

(***************************************************************************)
(* The file's targets settle: guests in steady use are not ballooned up    *)
(* and down for ever, although the guests compete for one ledger and one   *)
(* guest's shrink lets another one grow.                                   *)
(***************************************************************************)
TargetsSettle ==
  \E size \in [Guests -> Sizes] : <>[](qtarget = size)
=============================================================================
