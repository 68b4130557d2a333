--------------------------- MODULE BalloonControl ---------------------------
(***************************************************************************)
(* The balloon control loop of momd: the GuestManager thread samples every *)
(* guest (guest-manager-multi-thread: false, the shipped configuration),   *)
(* the PolicyEngine thread evaluates opt_select.rules over a snapshot of   *)
(* the samples and hands the resulting targets to the Balloon controller,  *)
(* QEMU moves the guests' balloons.  The two threads only share the        *)
(* monitors' data; host_free.txt and parameters.txt outlive the process.   *)
(***************************************************************************)
EXTENDS BalloonPolicy

CONSTANTS Guests,
          HistoryLength,    \* sample-history-length
          UnusedLevels,     \* what a guest may report as stat-free-memory; -1
                            \* is QEMU's value for a statistic not reported
          InitialHostFree,  \* what the test scripts put into host_free.txt
          InitialSizes,     \* the guests' balloon sizes when momd starts:
                            \* all memory after run.sh, less after a restart
          PolicyTypes,      \* the types an operator writes to parameters.txt
          StepParams,       \* the parameters of lines 2-5 ...
          RefParams         \* ... and of lines 6-9 an operator may write

ASSUME ControlAssumption ==
  /\ IsFiniteSet(Guests)
  /\ HistoryLength \in Nat \ {0}
  /\ UnusedLevels \subseteq Int
  /\ InitialHostFree \subseteq Nat
  /\ InitialHostFree # {}
  /\ IsFiniteSet(InitialHostFree)
  /\ InitialSizes \subseteq Sizes
  /\ InitialSizes # {}
  /\ PolicyTypes \subseteq {"step", "ref"}
  /\ PolicyTypes # {}
  /\ StepParams \subseteq [grow_threshold : Nat, shrink_threshold : Nat,
                           grow_step : Nat, shrink_step : Nat]
  /\ RefParams \subseteq [grow_threshold : Nat, shrink_threshold : Nat,
                          grow_ref : Nat \ {0}, shrink_ref : Nat \ {0}]

VARIABLES
  hostFree,  \* host_free.txt, the ledger of memory the policy may hand out
  params,    \* parameters.txt
  history,   \* Monitor.statistics of each guest
  ready,     \* Monitor.ready is True
  round,     \* guests the running collection round has still to visit; the
             \* GuestManager holds guests_sem exactly while this is not {}
  pc,        \* where PolicyEngine.do_controls is
  snap,      \* the Entities' statistics; << >> when interrogate gave None
  todo,      \* guests the evaluation or the controller has still to visit
  control,   \* controls['balloon_target'] of the Entities
  qtarget,   \* QEMU: last accepted balloon command
  actual     \* QEMU: the balloon size query-balloon reports

files == <<hostFree, params>>
monitors == <<history, ready, round>>
engine == <<pc, snap, todo, control>>
qemu == <<qtarget, actual>>
vars == <<files, monitors, engine, qemu>>

Samples == [cur : Int, unused : Int]

NoSamples == [g \in Guests |-> << >>]
NoControls == [g \in Guests |-> NoTarget]

TypeOK ==
  /\ hostFree \in Int
  /\ params \in [type : PolicyTypes, step : StepParams, ref : RefParams]
  /\ history \in [Guests -> Seq(Samples)]
  /\ ready \in [Guests -> BOOLEAN]
  /\ round \subseteq Guests
  /\ pc \in {"idle", "evaluating", "applying", "dead", "down"}
  /\ snap \in [Guests -> Seq(Samples)]
  /\ todo \subseteq Guests
  /\ control \in [Guests -> Int \cup {NoTarget}]
  /\ qtarget \in [Guests -> Int]
  /\ actual \in [Guests -> Int]

(***************************************************************************)
(* momd starts after init_test.sh has written host_free.txt, with guests   *)
(* that run.sh has just started or that an earlier momd has ballooned.     *)
(***************************************************************************)
Init ==
  /\ hostFree \in InitialHostFree
  /\ params \in [type : PolicyTypes, step : StepParams, ref : RefParams]
  /\ history = NoSamples
  /\ ready = [g \in Guests |-> FALSE]
  /\ round = {}
  /\ pc = "idle"
  /\ snap = NoSamples
  /\ todo = {}
  /\ control = NoControls
  /\ qtarget \in [Guests -> InitialSizes]
  /\ actual = qtarget

-----------------------------------------------------------------------------
(* The GuestManager thread: one collection round visits every monitor.     *)

StartRound ==
  /\ pc # "down"
  /\ round = {}
  /\ round' = Guests
  /\ UNCHANGED <<files, history, ready, engine, qemu>>

(* Faulty variant: the window is one sample short.                         *)
RecordedShort(h, row) ==
  LET longer == Append(h, row)
  IN  IF Len(longer) >= HistoryLength THEN Tail(longer) ELSE longer

(* The append and popleft of Monitor.collect.                              *)
Recorded(h, row) ==
  LET longer == Append(h, row)
  IN  IF Len(longer) > HistoryLength THEN Tail(longer) ELSE longer

(* Monitor.collect with both collectors answering.                         *)
Collect(g) ==
  /\ g \in round
  /\ round' = round \ {g}
  /\ \E unused \in UnusedLevels :
       history' = [history EXCEPT ![g] =
                     Recorded(@, [cur |-> actual[g], unused |-> unused])]
  /\ ready' = [ready EXCEPT ![g] = TRUE]
  /\ UNCHANGED <<files, engine, qemu>>

(* Monitor.collect when a qmp command gives no JSON: a mandatory field is  *)
(* missing, the monitor is not ready, its history stays.                   *)
CollectFail(g) ==
  /\ g \in round
  /\ round' = round \ {g}
  /\ ready' = [ready EXCEPT ![g] = FALSE]
  /\ UNCHANGED <<files, history, engine, qemu>>

-----------------------------------------------------------------------------
(* The PolicyEngine thread.                                                *)

(* do_controls up to policy.evaluate.  GuestManager.interrogate needs      *)
(* guests_sem.  A tick that finds the host monitor not ready does nothing. *)
DoControls ==
  /\ pc = "idle"
  /\ round = {}
  /\ snap' = [g \in Guests |-> IF ready[g] THEN history[g] ELSE << >>]
  /\ todo' = {g \in Guests : ready[g]}
  /\ pc' = "evaluating"
  /\ UNCHANGED <<files, monitors, control, qemu>>

(* Faulty variant: a shrinking guest does not pay into host_free.txt.      *)
EvalGuestNoCredit(g) ==
  LET target == opt_policy_select(snap[g], hostFree, params)
  IN  /\ pc = "evaluating"
      /\ g \in todo
      /\ todo' = todo \ {g}
      /\ control' = [control EXCEPT ![g] = target]
      /\ hostFree' = IF target = NoTarget \/ target < Last(snap[g]).cur
                     THEN hostFree
                     ELSE hostFree - (target - Last(snap[g]).cur)
      /\ UNCHANGED <<params, monitors, pc, snap, qemu>>

(* opt_select.rules for one guest: opt_policy_select reads parameters.txt  *)
(* and host_free.txt, writes host_free.txt, sets the control.              *)
EvalGuest(g) ==
  LET target == opt_policy_select(snap[g], hostFree, params)
  IN  /\ pc = "evaluating"
      /\ g \in todo
      /\ todo' = todo \ {g}
      /\ control' = [control EXCEPT ![g] = target]
      /\ hostFree' = IF target = NoTarget THEN hostFree
                     ELSE hostFree - (target - Last(snap[g]).cur)
      /\ UNCHANGED <<params, monitors, pc, snap, qemu>>

(* do_controls returns: its Entities, with snapshot and controls, are gone. *)
EndTick(next) ==
  /\ pc' = next
  /\ snap' = NoSamples
  /\ todo' = {}
  /\ control' = NoControls

(* The rule raises for the next guest (no process for os.popen, an empty   *)
(* file): evaluate returns False, no controller runs, the Entities go.     *)
EvalFail ==
  /\ pc = "evaluating"
  /\ todo # {}
  /\ EndTick("idle")
  /\ UNCHANGED <<files, monitors, qemu>>

(* Faulty variant: the controllers are not called.                         *)
EvalDoneNoControllers ==
  /\ pc = "evaluating"
  /\ todo = {}
  /\ EndTick("idle")
  /\ UNCHANGED <<files, monitors, qemu>>

(* evaluate returns True: every controller processes every guest, Balloon  *)
(* those with a balloon_target.                                            *)
EvalDone ==
  /\ pc = "evaluating"
  /\ todo = {}
  /\ pc' = "applying"
  /\ todo' = {g \in Guests : control[g] # NoTarget}
  /\ UNCHANGED <<files, monitors, snap, control, qemu>>

(* Balloon.process_guest, QEMU accepts the command.                        *)
Apply(g) ==
  /\ pc = "applying"
  /\ g \in todo
  /\ todo' = todo \ {g}
  /\ qtarget' = [qtarget EXCEPT ![g] = control[g]]
  /\ UNCHANGED <<files, monitors, pc, snap, control, actual>>

(* setVmBalloonTarget raises, before or after QEMU has taken the command:  *)
(* the exception ends PolicyEngine.run.                                    *)
ApplyFail(g) ==
  /\ pc = "applying"
  /\ g \in todo
  /\ \/ UNCHANGED qtarget
     \/ qtarget' = [qtarget EXCEPT ![g] = control[g]]
  /\ EndTick("dead")
  /\ UNCHANGED <<files, monitors, actual>>

ApplyDone ==
  /\ pc = "applying"
  /\ todo = {}
  /\ EndTick("idle")
  /\ UNCHANGED <<files, monitors, qemu>>

-----------------------------------------------------------------------------
(* The process: MOM.run stops it when the PolicyEngine thread is dead, the *)
(* test scripts kill it (pkill -9 momd) and start it again.                *)

Stop ==
  /\ EndTick("down")
  /\ history' = NoSamples
  /\ ready' = [g \in Guests |-> FALSE]
  /\ round' = {}
  /\ UNCHANGED <<files, qemu>>

MainLoopStop == pc = "dead" /\ Stop

Kill == pc # "down" /\ Stop

Restart ==
  /\ pc = "down"
  /\ pc' = "idle"
  /\ UNCHANGED <<files, monitors, snap, todo, control, qemu>>

-----------------------------------------------------------------------------
(* The operator: change_policy.sh edits parameters.txt while momd runs.    *)
(* Type and step parameters change in one sed; type and ref parameters in  *)
(* two, with evaluations possible in between.                              *)

SetStepPolicy ==
  /\ "step" \in PolicyTypes
  /\ \E p \in StepParams :
       params' = [type |-> "step", step |-> p, ref |-> params.ref]
  /\ UNCHANGED <<hostFree, monitors, engine, qemu>>

SetRefType ==
  /\ "ref" \in PolicyTypes
  /\ params' = [type |-> "ref", step |-> params.step, ref |-> params.ref]
  /\ UNCHANGED <<hostFree, monitors, engine, qemu>>

SetRefParams ==
  /\ "ref" \in PolicyTypes
  /\ \E p \in RefParams :
       params' = [type |-> params.type, step |-> params.step, ref |-> p]
  /\ UNCHANGED <<hostFree, monitors, engine, qemu>>

-----------------------------------------------------------------------------
(* QEMU and the guest's balloon driver: any progress towards the target.   *)

Between(v, a, b) == (a < v /\ v =< b) \/ (b =< v /\ v < a)

MoveBalloon(g) ==
  /\ \E v \in Sizes \cup {qtarget[g]} :
       /\ Between(v, actual[g], qtarget[g])
       /\ actual' = [actual EXCEPT ![g] = v]
  /\ UNCHANGED <<files, monitors, engine, qtarget>>

-----------------------------------------------------------------------------
Sampling == StartRound \/ \E g \in Guests : Collect(g)

Tick == \/ EvalDone \/ ApplyDone
        \/ \E g \in Guests : EvalGuest(g) \/ Apply(g)

Failure == \/ EvalFail
           \/ \E g \in Guests : CollectFail(g) \/ ApplyFail(g)

Process == MainLoopStop \/ Kill \/ Restart

Operator == SetStepPolicy \/ SetRefType \/ SetRefParams

MoveBalloons == \E g \in Guests : MoveBalloon(g)

Next == \/ Sampling \/ DoControls \/ Tick \/ Failure \/ Process \/ Operator
        \/ MoveBalloons

Spec == Init /\ [][Next]_vars

-----------------------------------------------------------------------------
(* Safety of the ledger.                                                   *)

(***************************************************************************)
(* The ledger never goes below zero: no interleaving of sampling,          *)
(* evaluation, failed ticks and restarts makes the policy hand out memory  *)
(* host_free.txt does not show (the check of opt_policy_grow_step).        *)
(***************************************************************************)
HostFreeNonNegative == hostFree >= 0

(***************************************************************************)
(* "balloon_max: 256MB, balloon_min: 50MB" (libvirtInterface.py): no       *)
(* target that is computed, sent to QEMU or reached leaves these bounds,   *)
(* whatever mixture of stale samples and reduced steps it came from.       *)
(***************************************************************************)
TargetsInBounds ==
  \A g \in Guests :
    /\ control[g] # NoTarget => control[g] \in Sizes
    /\ qtarget[g] \in Sizes
    /\ actual[g] \in Sizes

(***************************************************************************)
(* What a tick relies on, whatever the policy and whatever fails around    *)
(* it: a guest is evaluated with at least one sample, only controls that   *)
(* were set are applied, and no control outlives its tick.                 *)
(***************************************************************************)
NothingCharged == control = NoControls

TickInv ==
  /\ \A g \in Guests : ready[g] => history[g] # << >>
  /\ pc = "evaluating" => \A g \in todo : snap[g] # << >>
  /\ pc = "applying" => \A g \in todo : control[g] # NoTarget
  /\ pc \notin {"evaluating", "applying"} => NothingCharged

(***************************************************************************)
(* opt_select.rules charges host_free.txt at most once a tick for a guest. *)
(***************************************************************************)
ChargedOnce ==
  pc = "evaluating" => \A g \in todo : control[g] = NoTarget

(***************************************************************************)
(* Every recorded or copied sample shows a size within bounds, every       *)
(* control and every command of QEMU is one.                               *)
(***************************************************************************)
BoundedSamples == [cur : Sizes, unused : Int]

SizesInv ==
  /\ history \in [Guests -> Seq(BoundedSamples)]
  /\ snap \in [Guests -> Seq(BoundedSamples)]
  /\ control \in [Guests -> Sizes \cup {NoTarget}]
  /\ qtarget \in [Guests -> Sizes]
  /\ actual \in [Guests -> Sizes]

(***************************************************************************)
(* The inductive invariant behind HostFreeNonNegative and TargetsInBounds  *)
(* under the step policy.                                                  *)
(***************************************************************************)
StepInv == TypeOK /\ TickInv /\ ChargedOnce /\ SizesInv /\ HostFreeNonNegative

(* What guest g has been promised: its pending control, or QEMU's target.  *)
Held(g) == IF control[g] # NoTarget THEN control[g] ELSE qtarget[g]

TotalHeld == SumFunction([g \in Guests |-> Held(g)])

LedgerTotal == hostFree + TotalHeld

(***************************************************************************)
(* Memory is moved between the ledger and the guests, never made or lost,  *)
(* except in two ways: the evaluation worked on a snapshot whose           *)
(* balloon_cur is not the guest's target any more, or a control that was   *)
(* already charged to host_free.txt was dropped before QEMU took it.       *)
(***************************************************************************)
StaleCharge(g) ==
  /\ control[g] = NoTarget
  /\ control'[g] # NoTarget
  /\ Last(snap[g]).cur # qtarget[g]

DroppedCharge(g) ==
  /\ control[g] # NoTarget
  /\ control'[g] = NoTarget
  /\ qtarget'[g] # control[g]

LedgerDriftsOnlyFromStaleOrDropped ==
  [][LedgerTotal' # LedgerTotal =>
       \E g \in Guests : StaleCharge(g) \/ DroppedCharge(g)]_vars

(***************************************************************************)
(* host_free.txt starts as the "supposed host free memory eligible for     *)
(* ballooning" (scripts/test_multi_policy_pair.sh), so the guests and the  *)
(* host together own HostMemory.  Between two ticks, when every balloon    *)
(* has reached its target, the guests never hold more: the order in which  *)
(* targets are applied and reached no longer matters then, what remains is *)
(* what the ledger promised.                                               *)
(***************************************************************************)
HostMemory == Cardinality(Guests) * Max(InitialSizes) + Max(InitialHostFree)

InUse == SumFunction(actual)

AtRest == pc = "idle" /\ qtarget = actual

NoOvercommitAtRest == AtRest => InUse =< HostMemory

-----------------------------------------------------------------------------
(***************************************************************************)
(* The conditions under which the ledger is exact: every evaluated guest   *)
(* has settled at its target and been sampled since, for as long as the    *)
(* averages reach back where a policy takes its targets from them, and a   *)
(* tick is neither interrupted nor fails once it has charged something.    *)
(***************************************************************************)
Settled ==
  \A g \in Guests : ready[g] => /\ qtarget[g] = actual[g]
                                /\ Last(history[g]).cur = actual[g]

OneSize(h) == \A i \in DOMAIN h : h[i].cur = Last(h).cur

AveragesSettled ==
  "ref" \in PolicyTypes => \A g \in Guests : ready[g] => OneSize(history[g])

SettledNext == \/ Sampling
               \/ DoControls /\ Settled /\ AveragesSettled
               \/ Tick
               \/ \E g \in Guests : CollectFail(g)
               \/ EvalFail /\ NothingCharged
               \/ Kill /\ NothingCharged
               \/ Restart
               \/ Operator
               \/ MoveBalloons

SettledSpec == Init /\ [][SettledNext]_vars

(***************************************************************************)
(* What these conditions preserve: a guest still to be evaluated is at the *)
(* size its snapshot shows, and a control no longer to be applied is       *)
(* QEMU's target.                                                          *)
(***************************************************************************)
SettledInv ==
  /\ pc # "dead"
  /\ pc = "evaluating" => \A g \in todo : /\ Last(snap[g]).cur = qtarget[g]
                                          /\ "ref" \in PolicyTypes => OneSize(snap[g])
  /\ pc = "applying" =>
       \A g \in Guests \ todo :
         control[g] # NoTarget => qtarget[g] = control[g]

(***************************************************************************)
(* Under these conditions the control loop implements the abstract ledger: *)
(* every tick is a sequence of transfers between host_free.txt and guests. *)
(***************************************************************************)
Ledger == INSTANCE HostLedger
            WITH free <- hostFree, held <- [g \in Guests |-> Held(g)]

LedgerSpec == Ledger!Spec

-----------------------------------------------------------------------------
(***************************************************************************)
(* Progress.  Both threads loop for as long as momd runs (weak fairness);  *)
(* GuestManager sleeps with guests_sem free between two rounds, so a tick  *)
(* that waits for it gets it again and again (strong fairness); the guests *)
(* obey the balloon.  Nothing fails and nobody interferes.                 *)
(***************************************************************************)
ReliableNext == Sampling \/ DoControls \/ Tick \/ MoveBalloons

Fairness == /\ WF_vars(Sampling)
            /\ SF_vars(DoControls)
            /\ WF_vars(Tick)
            /\ \A g \in Guests : WF_vars(MoveBalloon(g))

LiveSpec == Init /\ [][ReliableNext]_vars /\ Fairness

(***************************************************************************)
(* Every target the policy computes reaches QEMU.                          *)
(***************************************************************************)
EveryControlIsApplied ==
  \A g \in Guests : \A size \in Sizes :
    control[g] = size ~> qtarget[g] = size

(***************************************************************************)
(* Guests that keep demanding memory (UnusedLevels = {0}) are served: from *)
(* some time on each has its maximum or the ledger is down to less than    *)
(* the smallest step the policy hands out.                                 *)
(***************************************************************************)
DemandServed ==
  <>[](hostFree < Chunk \/ \A g \in Guests : actual[g] = BalloonMax)
=============================================================================
