--------------------------- MODULE TuningControl ----------------------------
(***************************************************************************)
(* CPU, I/O and KSM tuning of one guest through the JSON-RPC interface to  *)
(* vdsm: the memoized statistics (HypervisorInterfaces/vdsmCommon.py,      *)
(* vdsmjsonrpcInterface.py, vdsmjsonrpcbulkInterface.py), the collectors   *)
(* GuestCpuTune and GuestIoTune that read them in the thread of the        *)
(* guest's monitor, and the PolicyEngine thread: a snapshot of the last    *)
(* sample, the evaluation, the controllers KSM, CpuTune and IoTune.  A     *)
(* call of vdsm that fails is logged and gives Optional.missing().  The    *)
(* policy is external: want is what it sets each tick, Unset where it      *)
(* leaves a control alone.  It writes the settings of I/O into the         *)
(* dictionaries that came from vdsm; these are the only mutable values     *)
(* several owners hold, so they are references.                            *)
(***************************************************************************)
EXTENDS Naturals

CONSTANTS Values,      \* settings of a tunable
          Fractions,   \* controls that are no whole number: rules multiply by 0.33
          Whole,       \* what int() makes of each of them
          Wishes,      \* what the policy may set each tunable to
          Refs,        \* dictionaries of I/O settings
          Unset,       \* a control the policy does not set
          Missing,     \* Optional.missing()
          Expired,     \* no memoized value that is still good
          NoGuest,     \* the guest is not in the guest list of the tick
          MaxFaults,   \* bound: calls of vdsm and evaluations that fail
          MaxChanges   \* bound: changes of the policy's mind

Tunables == {"quota", "period", "io", "ksm"}
CpuInfo == [quota : Values, period : Values]
Samples == [quota : Values, period : Values, io : Values, ref : Refs]

ASSUME TuningAssumption ==
  /\ {Unset, Missing, Expired} \cap (Values \cup Fractions) = {} /\ Values # {}
  /\ Values \cap Fractions = {} /\ Whole \in [Fractions -> Values]
  /\ Wishes \in [Tunables -> SUBSET (Values \cup Fractions)]
  /\ Wishes["io"] \cup Wishes["ksm"] \subseteq Values
  /\ {Missing, Expired} \cap (CpuInfo \cup Refs) = {} /\ Missing # Expired
  /\ NoGuest \notin Samples
  /\ Refs # {} /\ \A r1, r2 \in Refs : Refs \ {r1, r2} # {}
  /\ MaxFaults \in Nat /\ MaxChanges \in Nat

VARIABLES
  actual,   \* what is set in the host
  want,     \* what the policy sets
  stats,    \* the memoized getAllVmStats
  ioState,  \* the memoized getAllVmIoTunePolicies: the dictionary it holds
  dict,     \* what the dictionaries hold
  sample,   \* the guest's last sample: quota, period, io_tune_current (io) and
            \* the dictionary its io_tune writes into (ref)
  ready,    \* Monitor.ready
  pc,       \* where the engine is
  view,     \* the sample of its snapshot
  control,  \* the controls set in the snapshot
  ksm,      \* KSM.cur
  wrote,    \* the calls of the last tick
  old,      \* what this program changed since the memoized value was read
  sampleOld, \* the same for the sample (neither is in the code)
  ksmLost,  \* the last KSM setting was not written (not in the code)
  faults, changes

vars == <<actual, want, stats, ioState, dict, sample, ready, pc, view, control,
          ksm, wrote, old, sampleOld, ksmLost, faults, changes>>
monitorVars == <<stats, ioState, sample, ready>>
engineVars == <<pc, view, control, ksm, wrote, ksmLost>>

Cpu(r) == [quota |-> r.quota, period |-> r.period]
NoControl == [t \in Tunables |-> Unset]

TypeOK ==
  /\ actual \in [Tunables -> Values]
  /\ want \in [Tunables -> Values \cup Fractions \cup {Unset}]
  /\ control \in [Tunables -> Values \cup Fractions \cup {Unset}]
  /\ \A t \in Tunables :
       want[t] \in Wishes[t] \cup {Unset} /\ control[t] \in Wishes[t] \cup {Unset}
  /\ stats \in CpuInfo \cup {Missing, Expired}
  /\ ioState \in Refs \cup {Missing, Expired}
  /\ dict \in [Refs -> Values]
  /\ sample \in Samples /\ ready \in BOOLEAN
  /\ pc \in {"sleep", "evaluate", "ksm", "cpu", "period", "io"}
  /\ view \in Samples \cup {NoGuest} /\ (pc = "period" => view # NoGuest)
  /\ ksm \in Values \cup {Unset} /\ wrote \subseteq Tunables
  /\ old \subseteq Tunables /\ sampleOld \subseteq Tunables /\ ksmLost \in BOOLEAN

Init ==
  /\ \E v \in Values :
       /\ actual = [t \in Tunables |-> v] /\ dict = [r \in Refs |-> v]
       /\ sample = [quota |-> v, period |-> v, io |-> v, ref |-> CHOOSE r \in Refs : TRUE]
  /\ want = NoControl /\ control = NoControl
  /\ stats = Expired /\ ioState = Expired
  /\ ready = FALSE /\ pc = "sleep" /\ view = NoGuest /\ ksm = Unset /\ ksmLost = FALSE
  /\ wrote = {} /\ old = {} /\ sampleOld = {} /\ faults = 0 /\ changes = 0

----------------------------------------------------------------------------
(* The monitor of the guest.                                               *)

(* memoizer: the function is called only when the value has expired.       *)
memoize(cached, result) == IF cached = Expired THEN result ELSE cached

(* checked_call: the result of vdsm, or Missing.  An empty result is       *)
(* memoized like any other.                                                *)
checked_call(result) == {result} \cup (IF faults < MaxFaults THEN {Missing} ELSE {})

(* Faulty variant: quota and period change places.                         *)
getVmCpuTuneInfo_swapped(vm) == [quota |-> vm.period, period |-> vm.quota]

(* VdsmRpcBase.getVmCpuTuneInfo                                            *)
getVmCpuTuneInfo(vm) == Cpu(vm)

(* A new answer of vdsm comes in a dictionary that is not in use: not that *)
(* of the engine's snapshot, nor that of the last sample if it is kept.    *)
InUse(kept) ==
  (IF kept THEN {sample.ref} ELSE {}) \cup (IF view = NoGuest THEN {} ELSE {view.ref})
Fresh(kept) == CHOOSE r \in Refs : r \notin InUse(kept)

(* Monitor.collect: GuestCpuTune raises and GuestIoTune gives None when    *)
(* vdsm gave nothing; a sample lacking a field is not kept.  io_tune takes *)
(* the memoized dictionary, io_tune_current a deep copy of it.             *)
Collect ==
  \E s \in checked_call(Cpu(actual)) :
  LET kept == memoize(stats, s) = Missing IN
  \E i \in checked_call(Fresh(kept)) :
    /\ stats' = memoize(stats, s) /\ ioState' = memoize(ioState, i)
    /\ faults' = IF \/ stats = Expired /\ s = Missing
                    \/ ioState = Expired /\ i = Missing THEN faults + 1 ELSE faults
    /\ dict' = IF ioState = Expired /\ i # Missing
               THEN [r \in Refs |-> IF r \in InUse(kept) THEN dict[r] ELSE actual.io]
               ELSE dict
    /\ old' = old \ ((IF stats = Expired THEN {"quota", "period"} ELSE {})
                      \cup (IF ioState = Expired THEN {"io"} ELSE {}))
    /\ ready' = (stats' # Missing /\ ioState' # Missing)
    /\ IF ready'
       THEN LET c == getVmCpuTuneInfo(stats') IN
              /\ sample' = [quota |-> c.quota, period |-> c.period,
                            io |-> dict'[ioState'], ref |-> ioState']
              /\ sampleOld' = old'
       ELSE UNCHANGED <<sample, sampleOld>>
    /\ UNCHANGED <<actual, want, changes, engineVars>>

(* More than CACHE_EXPIRATION seconds have passed since the call.          *)
ExpireStats ==
  /\ stats # Expired /\ stats' = Expired
  /\ UNCHANGED <<actual, want, ioState, dict, sample, ready, old, sampleOld,
                 faults, changes, engineVars>>

ExpireIo ==
  /\ ioState # Expired /\ ioState' = Expired
  /\ UNCHANGED <<actual, want, stats, dict, sample, ready, old, sampleOld,
                 faults, changes, engineVars>>

----------------------------------------------------------------------------
(* PolicyEngine.do_controls, while the monitor goes on collecting.         *)

(* The snapshot: the values of the last sample, and its io_tune itself.    *)
Interrogate ==
  /\ pc = "sleep" /\ pc' = "evaluate"
  /\ view' = IF ready THEN sample ELSE NoGuest
  /\ wrote' = {}
  /\ UNCHANGED <<actual, want, dict, control, ksm, ksmLost, old, sampleOld,
                 faults, changes, monitorVars>>

(* IoTune.setTotalBytesSec and the like, which write into the dictionary   *)
(* that may be the memoized one.                                           *)
SetIoTune ==
  /\ dict' = IF view # NoGuest /\ want.io # Unset
             THEN [dict EXCEPT ![view.ref] = want.io] ELSE dict
  /\ old' = IF dict' # dict /\ view.ref = ioState THEN old \cup {"io"} ELSE old

(* The policy's controls are set in the snapshot.                          *)
Evaluate ==
  /\ pc = "evaluate" /\ pc' = "ksm"
  /\ control' = want
  /\ SetIoTune
  /\ UNCHANGED <<actual, want, view, ksm, wrote, ksmLost, sampleOld, faults,
                 changes, monitorVars>>

(* An evaluation that raises, before or after what it says of I/O: no      *)
(* controller runs.                                                        *)
EvaluateFails ==
  /\ pc = "evaluate" /\ pc' = "sleep"
  /\ faults < MaxFaults /\ faults' = faults + 1
  /\ SetIoTune \/ UNCHANGED <<dict, old>>
  /\ view' = NoGuest
  /\ UNCHANGED <<actual, want, control, ksm, wrote, ksmLost, sampleOld, changes,
                 monitorVars>>

(* A call of vdsm that sets t to v.                                        *)
Send(t, v, failed) ==
  /\ failed => faults < MaxFaults
  /\ faults' = IF failed THEN faults + 1 ELSE faults
  /\ actual' = IF failed THEN actual ELSE [actual EXCEPT ![t] = v]
  /\ wrote' = wrote \cup {t} /\ old' = old \cup {t} /\ sampleOld' = sampleOld \cup {t}

SendNothing == UNCHANGED <<actual, wrote, old, sampleOld, faults>>

(* KSM.process: the value counts as set before the call is made.           *)
KsmChanged(v) == v # Unset /\ v # ksm

Ksm ==
  /\ pc = "ksm" /\ pc' = "cpu"
  /\ IF KsmChanged(control.ksm)
     THEN \E failed \in BOOLEAN :
            Send("ksm", control.ksm, failed) /\ ksm' = control.ksm /\ ksmLost' = failed
     ELSE SendNothing /\ UNCHANGED <<ksm, ksmLost>>
  /\ UNCHANGED <<want, dict, view, control, changes, monitorVars>>

(* CpuTune.get_changed_val: a control that is not set keeps the sample's.  *)
get_changed_val(val, prev) == IF val # prev /\ val # Unset THEN val ELSE prev

int(v) == IF v \in Fractions THEN Whole[v] ELSE v

Quota == get_changed_val(control.quota, view.quota)
Period == get_changed_val(control.period, view.period)

(* Faulty variants: both must differ; what the policy set is always sent.  *)
CpuChangedBoth == Quota # view.quota /\ Period # view.period
CpuChangedAlways == control.quota # Unset \/ control.period # Unset

(* CpuTune.process_guest: one difference sends both settings.  The int()   *)
(* comes after the comparison: a fraction differs from every sample.       *)
CpuChanged == Quota # view.quota \/ Period # view.period

CpuQuota ==
  /\ pc = "cpu"
  /\ IF view # NoGuest /\ CpuChanged
     THEN pc' = "period" /\ \E failed \in BOOLEAN : Send("quota", int(Quota), failed)
     ELSE pc' = "io" /\ SendNothing
  /\ UNCHANGED <<want, dict, view, control, ksm, ksmLost, changes, monitorVars>>

CpuPeriod ==
  /\ pc = "period" /\ pc' = "io"
  /\ \E failed \in BOOLEAN : Send("period", int(Period), failed)
  /\ UNCHANGED <<want, dict, view, control, ksm, ksmLost, changes, monitorVars>>

(* IoTune.process_guest: the dictionary against the copy in the snapshot.  *)
Io ==
  /\ pc = "io" /\ pc' = "sleep"
  /\ IF view # NoGuest /\ dict[view.ref] # view.io
     THEN \E failed \in BOOLEAN : Send("io", dict[view.ref], failed)
     ELSE SendNothing
  /\ view' = NoGuest /\ control' = NoControl
  /\ UNCHANGED <<want, dict, ksm, ksmLost, changes, monitorVars>>

ChangePolicy ==
  /\ changes < MaxChanges /\ changes' = changes + 1
  /\ \E t \in Tunables : \E v \in Wishes[t] \cup {Unset} :
       v # want[t] /\ want' = [want EXCEPT ![t] = v]
  /\ UNCHANGED <<actual, dict, old, sampleOld, faults, monitorVars, engineVars>>

Engine ==
  Interrogate \/ Evaluate \/ EvaluateFails \/ Ksm \/ CpuQuota \/ CpuPeriod \/ Io

Next == Collect \/ ExpireStats \/ ExpireIo \/ Engine \/ ChangePolicy

(* The monitor and the policy engine run, and memoized values expire.      *)
Spec ==
  /\ Init /\ [][Next]_vars
  /\ WF_vars(Collect) /\ WF_vars(Engine) /\ WF_vars(ExpireStats) /\ WF_vars(ExpireIo)

----------------------------------------------------------------------------
(* A sampled setting is the host's unless, since vdsm was asked, this      *)
(* program has tried to change it or the policy has changed it in the      *)
(* memoized dictionary before the sample copied it.  No other write makes  *)
(* a sample lie: none into the dictionary of an expired answer, and none   *)
(* into a dictionary after its copy was taken.                             *)
SampleIsTruth == \A t \in {"quota", "period", "io"} \ sampleOld : sample[t] = actual[t]

TuningInv == TypeOK /\ SampleIsTruth

(* A setting the policy holds on to is in force in the end, CPU settings   *)
(* without their fraction, whatever was memoized, whichever evaluations    *)
(* and calls failed on the way, though a wish of the policy may have       *)
(* passed for the host's setting for a while; a KSM setting only if its    *)
(* one call of vdsm did not fail.                                          *)
TuningConverges ==
  \A t \in Tunables :
    <>[](want[t] # Unset => actual[t] = int(want[t]) \/ (t = "ksm" /\ ksmLost))

(* A policy that stays as it is, with CPU settings that are whole numbers, *)
(* stops making calls.                                                     *)
WritesStop ==
  <>[](want.quota \notin Fractions /\ want.period \notin Fractions) => <>[](wrote = {})
=============================================================================
