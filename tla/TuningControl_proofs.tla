------------------------ MODULE TuningControl_proofs ------------------------
(***************************************************************************)
(* Proofs that samples tell the truth about what no write has outdated,    *)
(* and that a guest that is tuned stays tuned, for every set of settings,  *)
(* any number of failing calls and evaluations and any changes of the      *)
(* policy.                                                                 *)
(***************************************************************************)
EXTENDS TuningControl, TLAPS

(***************************************************************************)
(* What is memoized is true as well, except for what was written since     *)
(* vdsm was asked, the policy's own writes into the dictionary included.   *)
(***************************************************************************)
CacheIsTruth ==
  /\ stats \in CpuInfo => \A t \in {"quota", "period"} \ old : stats[t] = actual[t]
  /\ ioState \in Refs /\ "io" \notin old => dict[ioState] = actual["io"]

TruthInv == TypeOK /\ SampleIsTruth /\ CacheIsTruth

(***************************************************************************)
(* The first sample shows the guest as it is, and nothing is memoized.     *)
(***************************************************************************)
LEMMA TruthInit == Init => TruthInv
<1> SUFFICES ASSUME Init PROVE TruthInv
  OBVIOUS
<1> USE TuningAssumption
<1>1. PICK v \in Values :
        /\ actual = [t \in Tunables |-> v] /\ dict = [r \in Refs |-> v]
        /\ sample = [quota |-> v, period |-> v, io |-> v, ref |-> CHOOSE r \in Refs : TRUE]
  BY DEF Init
<1>2. sample \in Samples
  BY <1>1 DEF Samples
<1>3. TypeOK
  <2>1. /\ want = NoControl /\ control = NoControl
        /\ NoControl \in [Tunables -> Values \cup Fractions \cup {Unset}]
        /\ \A t \in Tunables : NoControl[t] = Unset
    BY DEF Init, NoControl
  <2>2. \A t \in Tunables : want[t] = Unset /\ control[t] = Unset
    BY <2>1
  <2>3. actual \in [Tunables -> Values] /\ dict \in [Refs -> Values]
    BY <1>1
  <2> QED
    BY <1>2, <2>1, <2>2, <2>3 DEF Init, TypeOK
<1>4. SampleIsTruth
  <2>1. /\ sample["quota"] = actual["quota"] /\ sample["period"] = actual["period"]
        /\ sample["io"] = actual["io"]
    BY <1>1 DEF Tunables
  <2> QED
    BY <2>1 DEF SampleIsTruth
<1>5. CacheIsTruth
  BY DEF Init, CacheIsTruth
<1> QED
  BY <1>3, <1>4, <1>5 DEF TruthInv

(***************************************************************************)
(* A new answer of vdsm overwrites no dictionary that is in use.           *)
(***************************************************************************)
LEMMA FreshIsFree ==
  ASSUME TruthInv, NEW kept \in BOOLEAN
  PROVE  Fresh(kept) \in Refs \ InUse(kept)
<1> USE TuningAssumption
<1>1. sample.ref \in Refs /\ (view # NoGuest => view.ref \in Refs)
  BY DEF TruthInv, TypeOK, Samples
<1>2. PICK r1 \in Refs, r2 \in Refs : InUse(kept) \subseteq {r1, r2}
  <2>1. CASE view = NoGuest
    BY <1>1, <2>1 DEF InUse
  <2>2. CASE view # NoGuest
    BY <1>1, <2>2 DEF InUse
  <2> QED
    BY <2>1, <2>2
<1>3. \E r \in Refs : r \notin InUse(kept)
  BY <1>2
<1> QED
  BY <1>3 DEF Fresh

(***************************************************************************)
(* What Monitor.collect makes of the answers s and i.                      *)
(***************************************************************************)
CollectsWith(s, i) ==
  /\ stats' = memoize(stats, s) /\ ioState' = memoize(ioState, i)
  /\ dict' = IF ioState = Expired /\ i # Missing
             THEN [r \in Refs |-> IF r \in InUse(memoize(stats, s) = Missing)
                                  THEN dict[r] ELSE actual.io]
             ELSE dict
  /\ old' = old \ ((IF stats = Expired THEN {"quota", "period"} ELSE {})
                    \cup (IF ioState = Expired THEN {"io"} ELSE {}))
  /\ ready' = (stats' # Missing /\ ioState' # Missing)
  /\ IF ready'
     THEN /\ sample' = [quota |-> getVmCpuTuneInfo(stats').quota,
                        period |-> getVmCpuTuneInfo(stats').period,
                        io |-> dict'[ioState'], ref |-> ioState']
          /\ sampleOld' = old'
     ELSE UNCHANGED <<sample, sampleOld>>
  /\ UNCHANGED <<actual, want, changes, engineVars>>

(***************************************************************************)
(* Monitor.collect: what is read anew is the host's setting, what was      *)
(* memoized stays as true as it was, and the sample is what is memoized.   *)
(***************************************************************************)
LEMMA CollectTruth == TruthInv /\ Collect => TruthInv'
<1> SUFFICES ASSUME TruthInv, Collect PROVE TruthInv'
  OBVIOUS
<1> USE TuningAssumption
<1>0. PICK s \in checked_call(Cpu(actual)) :
        \E i \in checked_call(Fresh(memoize(stats, s) = Missing)) : CollectsWith(s, i)
  BY DEF Collect, CollectsWith
<1>1. PICK i \in checked_call(Fresh(memoize(stats, s) = Missing)) : CollectsWith(s, i)
  BY <1>0
<1> USE DEF CollectsWith
<1> DEFINE kept == memoize(stats, s) = Missing
<1>2. /\ actual.io \in Values /\ Cpu(actual) \in CpuInfo
      /\ Cpu(actual).quota = actual["quota"] /\ Cpu(actual).period = actual["period"]
  BY DEF TruthInv, TypeOK, Tunables, Cpu, CpuInfo
<1>3. Fresh(kept) \in Refs /\ Fresh(kept) \notin InUse(kept)
  BY FreshIsFree
<1>4. s \in {Cpu(actual), Missing} /\ i \in {Fresh(kept), Missing}
  BY DEF checked_call
<1>5. stats' \in CpuInfo \cup {Missing} /\ ioState' \in Refs \cup {Missing}
  BY <1>1, <1>2, <1>3, <1>4 DEF memoize, TruthInv, TypeOK
<1>6. dict' \in [Refs -> Values]
  BY <1>1, <1>2 DEF TruthInv, TypeOK
<1>7. stats' \in CpuInfo => \A t \in {"quota", "period"} \ old' : stats'[t] = actual[t]
  <2>1. CASE stats = Expired
    BY <1>1, <1>2, <1>4, <2>1 DEF memoize
  <2>2. CASE stats # Expired
    BY <1>1, <2>2 DEF memoize, TruthInv, CacheIsTruth
  <2> QED
    BY <2>1, <2>2
<1>8. ioState' \in Refs /\ "io" \notin old' => dict'[ioState'] = actual["io"]
  <2>1. CASE ioState = Expired
    <3>1. ioState' = i
      BY <1>1, <2>1 DEF memoize
    <3>2. CASE i = Missing
      BY <3>1, <3>2
    <3>3. CASE i # Missing
      BY <1>1, <1>3, <1>4, <2>1, <3>1, <3>3
    <3> QED
      BY <3>2, <3>3
  <2>2. CASE ioState # Expired
    <3>1. ioState' = ioState /\ dict' = dict /\ ("io" \in old' <=> "io" \in old)
      BY <1>1, <2>2 DEF memoize
    <3> QED
      BY <3>1 DEF TruthInv, CacheIsTruth
  <2> QED
    BY <2>1, <2>2
<1>9. CacheIsTruth'
  BY <1>1, <1>7, <1>8 DEF CacheIsTruth
<1>10. UNCHANGED <<actual, want, pc, view, control, ksm, wrote, ksmLost>> /\ old' \subseteq old
  BY <1>1 DEF engineVars
<1>11. CASE ready'
  <2>1. stats' \in CpuInfo /\ ioState' \in Refs
    BY <1>1, <1>5, <1>11
  <2>2. /\ sample' = [quota |-> stats'.quota, period |-> stats'.period,
                      io |-> dict'[ioState'], ref |-> ioState']
        /\ sampleOld' = old'
    BY <1>1, <1>11 DEF getVmCpuTuneInfo, Cpu
  <2>3. sample' \in Samples
    BY <1>6, <2>1, <2>2 DEF CpuInfo, Samples
  <2>4. TypeOK'
    <3>1. ready' \in BOOLEAN
      BY <1>1
    <3>2. old' \subseteq Tunables /\ sampleOld' \subseteq Tunables
      BY <1>10, <2>2 DEF TruthInv, TypeOK
    <3> QED
      BY <1>5, <1>6, <1>10, <2>3, <3>1, <3>2 DEF TruthInv, TypeOK
  <2>5. SampleIsTruth'
    <3>1. ASSUME NEW t \in {"quota", "period"}, t \notin old'
          PROVE  sample'[t] = actual'[t]
      <4>1. stats'[t] = actual[t]
        BY <1>7, <2>1, <3>1
      <4>2. sample'["quota"] = stats'["quota"] /\ sample'["period"] = stats'["period"]
        BY <2>2
      <4> QED
        BY <1>10, <3>1, <4>1, <4>2
    <3>2. "io" \notin old' => sample'["io"] = actual'["io"]
      BY <1>8, <1>10, <2>1, <2>2
    <3> QED
      BY <2>2, <3>1, <3>2 DEF SampleIsTruth
  <2> QED
    BY <1>9, <2>4, <2>5 DEF TruthInv
<1>12. CASE ~ready'
  <2>1. UNCHANGED <<sample, sampleOld>>
    BY <1>1, <1>12
  <2>2. ready' \in BOOLEAN
    BY <1>1
  <2>3. TypeOK'
    BY <1>5, <1>6, <1>10, <2>1, <2>2 DEF TruthInv, TypeOK
  <2>4. SampleIsTruth'
    BY <1>10, <2>1 DEF TruthInv, SampleIsTruth
  <2> QED
    BY <1>9, <2>3, <2>4 DEF TruthInv
<1> QED
  BY <1>11, <1>12

(***************************************************************************)
(* What the policy writes into a dictionary that is memoized is counted as *)
(* a change, and a copy of the dictionary is out of its reach.             *)
(***************************************************************************)
LEMMA SetIoTuneTruth ==
  ASSUME TruthInv, SetIoTune \/ UNCHANGED <<dict, old>>,
         UNCHANGED <<actual, stats, ioState, sample, sampleOld>>
  PROVE  /\ dict' \in [Refs -> Values] /\ old' \subseteq Tunables
         /\ SampleIsTruth' /\ CacheIsTruth'
<1> USE TuningAssumption
<1>1. want.io \in Values \cup {Unset}
  BY DEF TruthInv, TypeOK, Tunables
<1>2. dict' \in [Refs -> Values]
  BY <1>1 DEF SetIoTune, TruthInv, TypeOK
<1>3. old' \subseteq old \cup {"io"} /\ old \subseteq old'
  BY DEF SetIoTune
<1>4. SampleIsTruth'
  BY DEF TruthInv, SampleIsTruth
<1>5. ASSUME ioState \in Refs, "io" \notin old'
      PROVE  dict'[ioState] = actual["io"]
  <2>1. dict' = dict \/ view.ref # ioState
    BY <1>5 DEF SetIoTune
  <2>2. dict'[ioState] = dict[ioState]
    BY <1>5, <2>1 DEF SetIoTune, TruthInv, TypeOK
  <2> QED
    BY <1>3, <1>5, <2>2 DEF TruthInv, CacheIsTruth
<1>6. CacheIsTruth'
  BY <1>3, <1>5 DEF TruthInv, CacheIsTruth
<1> QED
  BY <1>2, <1>3, <1>4, <1>6 DEF TruthInv, TypeOK, Tunables

(***************************************************************************)
(* A call of vdsm outdates the sample and the cache, whether it fails or   *)
(* not.                                                                    *)
(***************************************************************************)
LEMMA SendTruth ==
  ASSUME TruthInv, UNCHANGED <<dict, stats, ioState, sample>>,
         \/ SendNothing
         \/ \E t \in Tunables, v \in Values, failed \in BOOLEAN : Send(t, v, failed)
  PROVE  /\ actual' \in [Tunables -> Values]
         /\ wrote' \subseteq Tunables /\ old' \subseteq Tunables /\ sampleOld' \subseteq Tunables
         /\ SampleIsTruth' /\ CacheIsTruth'
<1>1. CASE SendNothing
  BY <1>1 DEF SendNothing, TruthInv, TypeOK, SampleIsTruth, CacheIsTruth
<1>2. ASSUME NEW t \in Tunables, NEW v \in Values, NEW failed \in BOOLEAN, Send(t, v, failed)
      PROVE  /\ actual' \in [Tunables -> Values]
             /\ wrote' \subseteq Tunables /\ old' \subseteq Tunables /\ sampleOld' \subseteq Tunables
             /\ SampleIsTruth' /\ CacheIsTruth'
  <2>1. /\ actual' \in [Tunables -> Values]
        /\ wrote' \subseteq Tunables /\ old' \subseteq Tunables /\ sampleOld' \subseteq Tunables
    BY <1>2 DEF Send, TruthInv, TypeOK
  <2>2. \A u \in Tunables \ {t} : actual'[u] = actual[u]
    BY <1>2 DEF Send, TruthInv, TypeOK
  <2>3. old' = old \cup {t} /\ sampleOld' = sampleOld \cup {t}
    BY <1>2 DEF Send
  <2>4. SampleIsTruth'
    BY <2>2, <2>3 DEF TruthInv, SampleIsTruth, Tunables
  <2>5. CacheIsTruth'
    BY <2>2, <2>3 DEF TruthInv, CacheIsTruth, Tunables
  <2> QED
    BY <2>1, <2>4, <2>5
<1> QED
  BY <1>1, <1>2

(***************************************************************************)
(* What CpuTune sends is a whole number, whatever the policy set.          *)
(***************************************************************************)
LEMMA SentCpuSettings ==
  ASSUME TruthInv, view # NoGuest
  PROVE  int(Quota) \in Values /\ int(Period) \in Values
<1> USE TuningAssumption
<1>1. view.quota \in Values /\ view.period \in Values
  BY DEF TruthInv, TypeOK, Samples
<1>2. /\ control.quota \in Values \cup Fractions \cup {Unset}
      /\ control.period \in Values \cup Fractions \cup {Unset}
  BY DEF TruthInv, TypeOK, Tunables
<1>3. Quota \in Values \cup Fractions /\ Period \in Values \cup Fractions
  BY <1>1, <1>2 DEF Quota, Period, get_changed_val
<1> QED
  BY <1>3 DEF int

(***************************************************************************)
(* The steps of the policy engine.                                         *)
(***************************************************************************)
LEMMA EngineTruth == TruthInv /\ Engine => TruthInv'
<1> SUFFICES ASSUME TruthInv, Engine PROVE TruthInv'
  OBVIOUS
<1> USE TuningAssumption
<1>1. CASE Interrogate
  BY <1>1 DEF Interrogate, monitorVars, TruthInv, TypeOK, SampleIsTruth, CacheIsTruth
<1>2. CASE Evaluate
  <2>1. UNCHANGED <<actual, want, view, ksm, wrote, ksmLost, stats, ioState, sample, ready, sampleOld>>
    BY <1>2 DEF Evaluate, monitorVars
  <2>2. /\ dict' \in [Refs -> Values] /\ old' \subseteq Tunables
        /\ SampleIsTruth' /\ CacheIsTruth'
    BY <1>2, <2>1, SetIoTuneTruth DEF Evaluate
  <2>3. pc' = "ksm" /\ control' = want
    BY <1>2 DEF Evaluate
  <2>4. TypeOK'
    BY <2>1, <2>2, <2>3 DEF TruthInv, TypeOK
  <2> QED
    BY <2>2, <2>4 DEF TruthInv
<1>3. CASE EvaluateFails
  <2>1. UNCHANGED <<actual, want, control, ksm, wrote, ksmLost, stats, ioState, sample, ready, sampleOld>>
    BY <1>3 DEF EvaluateFails, monitorVars
  <2>2. /\ dict' \in [Refs -> Values] /\ old' \subseteq Tunables
        /\ SampleIsTruth' /\ CacheIsTruth'
    BY <1>3, <2>1, SetIoTuneTruth DEF EvaluateFails
  <2>3. pc' = "sleep" /\ view' = NoGuest
    BY <1>3 DEF EvaluateFails
  <2>4. TypeOK'
    BY <2>1, <2>2, <2>3 DEF TruthInv, TypeOK
  <2> QED
    BY <2>2, <2>4 DEF TruthInv
<1>4. CASE Ksm
  <2>1. UNCHANGED <<want, dict, view, control, stats, ioState, sample, ready>> /\ pc' = "cpu"
    BY <1>4 DEF Ksm, monitorVars
  <2>2. /\ \/ SendNothing
           \/ \E t \in Tunables, v \in Values, failed \in BOOLEAN : Send(t, v, failed)
        /\ ksm' \in Values \cup {Unset} /\ ksmLost' \in BOOLEAN
    <3>1. CASE KsmChanged(control.ksm)
      <4>1. control.ksm \in Values /\ "ksm" \in Tunables
        BY <3>1 DEF KsmChanged, TruthInv, TypeOK, Tunables
      <4>2. PICK failed \in BOOLEAN :
              Send("ksm", control.ksm, failed) /\ ksm' = control.ksm /\ ksmLost' = failed
        BY <1>4, <3>1 DEF Ksm
      <4>3. ksmLost' \in BOOLEAN
        BY <4>2, Zenon
      <4>4. \E t \in Tunables, v \in Values, f \in BOOLEAN : Send(t, v, f)
        <5> USE <4>1
        <5> WITNESS "ksm" \in Tunables, control.ksm \in Values, failed \in BOOLEAN
        <5> QED
          BY <4>2
      <4> QED
        BY <4>1, <4>2, <4>3, <4>4
    <3>2. CASE ~KsmChanged(control.ksm)
      BY <1>4, <3>2 DEF Ksm, TruthInv, TypeOK
    <3> QED
      BY <3>1, <3>2
  <2>3. /\ actual' \in [Tunables -> Values]
        /\ wrote' \subseteq Tunables /\ old' \subseteq Tunables /\ sampleOld' \subseteq Tunables
        /\ SampleIsTruth' /\ CacheIsTruth'
    BY <2>1, <2>2, SendTruth
  <2>4. TypeOK'
    BY <2>1, <2>2, <2>3 DEF TruthInv, TypeOK
  <2> QED
    BY <2>3, <2>4 DEF TruthInv
<1>5. CASE CpuQuota
  <2>1. UNCHANGED <<want, dict, view, control, ksm, ksmLost, stats, ioState, sample, ready>>
    BY <1>5 DEF CpuQuota, monitorVars
  <2>2. /\ \/ SendNothing
           \/ \E t \in Tunables, v \in Values, failed \in BOOLEAN : Send(t, v, failed)
        /\ pc' = "io" \/ (pc' = "period" /\ view # NoGuest)
    <3>1. CASE view # NoGuest /\ CpuChanged
      <4>1. int(Quota) \in Values /\ "quota" \in Tunables
        BY <3>1, SentCpuSettings DEF Tunables
      <4> QED
        BY <1>5, <3>1, <4>1 DEF CpuQuota
    <3>2. CASE ~(view # NoGuest /\ CpuChanged)
      BY <1>5, <3>2 DEF CpuQuota
    <3> QED
      BY <3>1, <3>2
  <2>3. /\ actual' \in [Tunables -> Values]
        /\ wrote' \subseteq Tunables /\ old' \subseteq Tunables /\ sampleOld' \subseteq Tunables
        /\ SampleIsTruth' /\ CacheIsTruth'
    BY <2>1, <2>2, SendTruth
  <2>4. TypeOK'
    BY <2>1, <2>2, <2>3 DEF TruthInv, TypeOK
  <2> QED
    BY <2>3, <2>4 DEF TruthInv
<1>6. CASE CpuPeriod
  <2>1. /\ UNCHANGED <<want, dict, view, control, ksm, ksmLost, stats, ioState, sample, ready>>
        /\ pc' = "io"
    BY <1>6 DEF CpuPeriod, monitorVars
  <2>2. int(Period) \in Values /\ "period" \in Tunables
    BY <1>6, SentCpuSettings DEF CpuPeriod, TruthInv, TypeOK, Tunables
  <2>3. \E t \in Tunables, v \in Values, failed \in BOOLEAN : Send(t, v, failed)
    BY <1>6, <2>2 DEF CpuPeriod
  <2>4. /\ actual' \in [Tunables -> Values]
        /\ wrote' \subseteq Tunables /\ old' \subseteq Tunables /\ sampleOld' \subseteq Tunables
        /\ SampleIsTruth' /\ CacheIsTruth'
    BY <2>1, <2>3, SendTruth
  <2>5. TypeOK'
    BY <2>1, <2>4 DEF TruthInv, TypeOK
  <2> QED
    BY <2>4, <2>5 DEF TruthInv
<1>7. CASE Io
  <2>1. /\ UNCHANGED <<want, dict, ksm, ksmLost, stats, ioState, sample, ready>>
        /\ pc' = "sleep" /\ view' = NoGuest /\ control' = NoControl
    BY <1>7 DEF Io, monitorVars
  <2>2. \/ SendNothing
        \/ \E t \in Tunables, v \in Values, failed \in BOOLEAN : Send(t, v, failed)
    <3>1. CASE view # NoGuest /\ dict[view.ref] # view.io
      <4>1. dict[view.ref] \in Values /\ "io" \in Tunables
        BY <3>1 DEF TruthInv, TypeOK, Samples, Tunables
      <4> QED
        BY <1>7, <3>1, <4>1 DEF Io
    <3>2. CASE ~(view # NoGuest /\ dict[view.ref] # view.io)
      BY <1>7, <3>2 DEF Io
    <3> QED
      BY <3>1, <3>2
  <2>3. /\ actual' \in [Tunables -> Values]
        /\ wrote' \subseteq Tunables /\ old' \subseteq Tunables /\ sampleOld' \subseteq Tunables
        /\ SampleIsTruth' /\ CacheIsTruth'
    BY <2>1, <2>2, SendTruth
  <2>4. NoControl \in [Tunables -> Values \cup Fractions \cup {Unset}]
        /\ \A t \in Tunables : NoControl[t] = Unset
    BY DEF NoControl
  <2>5. TypeOK'
    BY <2>1, <2>3, <2>4 DEF TruthInv, TypeOK
  <2> QED
    BY <2>3, <2>5 DEF TruthInv
<1> QED
  BY <1>1, <1>2, <1>3, <1>4, <1>5, <1>6, <1>7 DEF Engine

(***************************************************************************)
(* Every step preserves the invariant.                                     *)
(***************************************************************************)
LEMMA TruthNext == TruthInv /\ [Next]_vars => TruthInv'
<1> SUFFICES ASSUME TruthInv, [Next]_vars PROVE TruthInv'
  OBVIOUS
<1> USE TuningAssumption
<1>1. CASE Collect
  BY <1>1, CollectTruth
<1>2. CASE Engine
  BY <1>2, EngineTruth
<1>3. CASE ExpireStats
  BY <1>3 DEF ExpireStats, engineVars, TruthInv, TypeOK, SampleIsTruth, CacheIsTruth
<1>4. CASE ExpireIo
  BY <1>4 DEF ExpireIo, engineVars, TruthInv, TypeOK, SampleIsTruth, CacheIsTruth
<1>5. CASE ChangePolicy
  <2>1. /\ UNCHANGED <<actual, dict, old, sampleOld, stats, ioState, sample, ready,
                       pc, view, control, ksm, wrote, ksmLost>>
        /\ \E t \in Tunables : \E v \in Wishes[t] \cup {Unset} : want' = [want EXCEPT ![t] = v]
    BY <1>5 DEF ChangePolicy, monitorVars, engineVars
  <2>2. PICK t \in Tunables :
          \E v \in Wishes[t] \cup {Unset} : want' = [want EXCEPT ![t] = v]
    BY <2>1
  <2>3. Wishes[t] \subseteq Values \cup Fractions
    OBVIOUS
  <2>4. /\ want' \in [Tunables -> Values \cup Fractions \cup {Unset}]
        /\ \A u \in Tunables : want'[u] \in Wishes[u] \cup {Unset}
    BY <2>2, <2>3 DEF TruthInv, TypeOK
  <2>5. TypeOK'
    BY <2>1, <2>4 DEF TruthInv, TypeOK
  <2> QED
    BY <2>1, <2>5 DEF TruthInv, SampleIsTruth, CacheIsTruth
<1>6. CASE UNCHANGED vars
  <2>1. UNCHANGED <<actual, want, stats, ioState, dict, sample, ready, pc, view, control,
                    ksm, wrote, old, sampleOld, ksmLost>>
    BY <1>6 DEF vars
  <2>2. TypeOK'
    BY <2>1 DEF TruthInv, TypeOK
  <2>3. SampleIsTruth' /\ CacheIsTruth'
    BY <2>1 DEF TruthInv, SampleIsTruth, CacheIsTruth
  <2> QED
    BY <2>2, <2>3 DEF TruthInv
<1> QED
  BY <1>1, <1>2, <1>3, <1>4, <1>5, <1>6 DEF Next

(***************************************************************************)
(* A sampled setting is the one in force unless, since vdsm was asked,     *)
(* this program has tried to change it or the policy has changed it in the *)
(* memoized dictionary: with evaluations that fail half way, a monitor     *)
(* that collects between the steps of the engine, and dictionaries that    *)
(* outlive their memoized value in samples and snapshots.                  *)
(***************************************************************************)
THEOREM SamplesTellTheTruth == Spec => []TuningInv
<1>1. TruthInv => TuningInv
  BY DEF TruthInv, TuningInv
<1> QED
  BY <1>1, TruthInit, TruthNext, PTL DEF Spec

----------------------------------------------------------------------------
(* A guest that is tuned stays tuned.                                      *)

Sampled == {"quota", "period", "io"}

(***************************************************************************)
(* What the policy sets is in force, everything was sampled since it was   *)
(* written, and the dictionaries in use say so.                            *)
(***************************************************************************)
Tuned ==
  /\ Sampled \cap (old \cup sampleOld) = {}
  /\ \A t \in Sampled : want[t] \in {Unset, actual[t]} /\ control[t] \in {Unset, actual[t]}
  /\ want["ksm"] \in {Unset, ksm} /\ control["ksm"] \in {Unset, ksm}
  /\ dict[sample.ref] = actual["io"]
  /\ view # NoGuest =>
       /\ view.quota = actual["quota"] /\ view.period = actual["period"]
       /\ view.io = actual["io"] /\ dict[view.ref] = actual["io"]
  /\ pc # "period"

(***************************************************************************)
(* A collection of a tuned guest finds what it found before, whether vdsm  *)
(* answers, fails or is not asked, and leaves the snapshot alone.          *)
(***************************************************************************)
LEMMA TunedCollect == TruthInv /\ TruthInv' /\ Tuned /\ Collect => Tuned'
<1> SUFFICES ASSUME TruthInv, TruthInv', Tuned, Collect PROVE Tuned'
  OBVIOUS
<1> USE TuningAssumption
<1>1. PICK s \in checked_call(Cpu(actual)) :
        \E i \in checked_call(Fresh(memoize(stats, s) = Missing)) : CollectsWith(s, i)
  BY DEF Collect, CollectsWith
<1>2. PICK i \in checked_call(Fresh(memoize(stats, s) = Missing)) : CollectsWith(s, i)
  BY <1>1
<1>3. UNCHANGED <<actual, want, pc, view, control, ksm>> /\ old' \subseteq old
  BY <1>2 DEF CollectsWith, engineVars
<1>4. sampleOld' \in {sampleOld, old'}
  BY <1>2 DEF CollectsWith
<1>5. sample.ref \in Refs /\ (view # NoGuest => view.ref \in Refs)
  BY DEF TruthInv, TypeOK, Samples
<1>6. dict' # dict =>
        /\ ioState' = i /\ i # Missing
        /\ \A r \in Refs : r \in InUse(memoize(stats, s) = Missing) => dict'[r] = dict[r]
  BY <1>2 DEF CollectsWith, memoize
<1>7. view # NoGuest => dict'[view.ref] = dict[view.ref]
  <2>1. ASSUME view # NoGuest PROVE view.ref \in InUse(memoize(stats, s) = Missing)
    BY <2>1 DEF InUse
  <2> QED
    BY <1>5, <1>6, <2>1
<1>8. dict'[sample'.ref] = actual["io"]
  <2>1. CASE ready'
    <3>1. sample'.ref = ioState' /\ ioState' # Missing
      <4>1. ioState' # Missing
        BY <1>2, <2>1 DEF CollectsWith
      <4>2. sample' = [quota |-> getVmCpuTuneInfo(stats').quota,
                       period |-> getVmCpuTuneInfo(stats').period,
                       io |-> dict'[ioState'], ref |-> ioState']
        BY <1>2, <2>1 DEF CollectsWith
      <4> QED
        BY <4>1, <4>2
    <3>2. ioState' \in Refs
      <4>1. Fresh(memoize(stats, s) = Missing) \in Refs
        BY FreshIsFree
      <4>2. ioState' \in Refs \cup {Missing}
        BY <1>2, <4>1 DEF CollectsWith, checked_call, memoize, TruthInv, TypeOK
      <4> QED
        BY <3>1, <4>2
    <3>3. "io" \notin old'
      BY <1>3 DEF Tuned, Sampled
    <3> QED
      BY <1>3, <3>1, <3>2, <3>3 DEF TruthInv, CacheIsTruth
  <2>2. CASE ~ready'
    <3>1. sample' = sample /\ (stats' = Missing \/ ioState' = Missing)
      BY <1>2, <2>2 DEF CollectsWith
    <3>2. CASE dict' = dict
      BY <3>1, <3>2 DEF Tuned
    <3>3. CASE dict' # dict
      <4>1. memoize(stats, s) = Missing
        BY <1>2, <1>6, <3>1, <3>3 DEF CollectsWith
      <4>2. sample.ref \in InUse(memoize(stats, s) = Missing)
        BY <4>1 DEF InUse
      <4> QED
        BY <1>5, <1>6, <3>1, <3>3, <4>2 DEF Tuned
    <3> QED
      BY <3>2, <3>3
  <2> QED
    BY <2>1, <2>2
<1> QED
  BY <1>3, <1>4, <1>7, <1>8 DEF Tuned

(***************************************************************************)
(* The engine finds nothing to do for a tuned guest: what the policy sets  *)
(* is what its snapshot shows, and what it writes into the dictionary is   *)
(* there already.                                                          *)
(***************************************************************************)
LEMMA TunedEngine ==
  TruthInv /\ Tuned /\ Engine => Tuned' /\ actual' = actual /\ wrote' \subseteq wrote
<1> SUFFICES ASSUME TruthInv, Tuned, Engine
             PROVE  Tuned' /\ actual' = actual /\ wrote' \subseteq wrote
  OBVIOUS
<1> USE TuningAssumption
<1>1. CASE Interrogate
  <2>1. /\ sample["quota"] = actual["quota"] /\ sample["period"] = actual["period"]
        /\ sample["io"] = actual["io"]
    BY DEF TruthInv, SampleIsTruth, Tuned, Sampled
  <2>2. sample.quota = actual["quota"] /\ sample.period = actual["period"] /\ sample.io = actual["io"]
    BY <2>1
  <2>3. /\ UNCHANGED <<actual, want, dict, control, ksm, old, sampleOld, sample>>
        /\ view' \in {sample, NoGuest} /\ pc' = "evaluate" /\ wrote' = {}
    BY <1>1 DEF Interrogate, monitorVars
  <2> QED
    BY <2>2, <2>3 DEF Tuned
<1>2. SetIoTune => dict' = dict /\ old' = old
  <2>1. view # NoGuest /\ want["io"] # Unset => want["io"] = dict[view.ref]
    BY DEF Tuned, Sampled
  <2>2. dict \in [Refs -> Values]
    BY DEF TruthInv, TypeOK
  <2>3. ASSUME SetIoTune PROVE dict' = dict
    <3>1. CASE view # NoGuest /\ want["io"] # Unset
      <4>1. dict' = [dict EXCEPT ![view.ref] = want["io"]]
        BY <2>3, <3>1 DEF SetIoTune
      <4> QED
        BY <2>1, <2>2, <3>1, <4>1
    <3>2. CASE ~(view # NoGuest /\ want["io"] # Unset)
      BY <2>3, <3>2 DEF SetIoTune
    <3> QED
      BY <3>1, <3>2
  <2> QED
    BY <2>3 DEF SetIoTune
<1>3. CASE Evaluate
  <2>1. /\ UNCHANGED <<actual, want, dict, view, ksm, wrote, old, sampleOld, sample>>
        /\ control' = want /\ pc' = "ksm"
    BY <1>2, <1>3 DEF Evaluate, monitorVars
  <2> QED
    BY <2>1 DEF Tuned
<1>4. CASE EvaluateFails
  <2>1. /\ UNCHANGED <<actual, want, dict, control, ksm, wrote, old, sampleOld, sample>>
        /\ view' = NoGuest /\ pc' = "sleep"
    BY <1>2, <1>4 DEF EvaluateFails, monitorVars
  <2> QED
    BY <2>1 DEF Tuned
<1>5. CASE Ksm
  <2>1. ~KsmChanged(control.ksm)
    BY DEF KsmChanged, Tuned
  <2>2. /\ UNCHANGED <<actual, want, dict, view, control, ksm, wrote, old, sampleOld, sample>>
        /\ pc' = "cpu"
    BY <1>5, <2>1 DEF Ksm, SendNothing, monitorVars
  <2> QED
    BY <2>2 DEF Tuned
<1>6. CASE CpuQuota
  <2>1. view # NoGuest => ~CpuChanged
    BY DEF Tuned, Sampled, CpuChanged, Quota, Period, get_changed_val
  <2>2. /\ UNCHANGED <<actual, want, dict, view, control, ksm, wrote, old, sampleOld, sample>>
        /\ pc' = "io"
    BY <1>6, <2>1 DEF CpuQuota, SendNothing, monitorVars
  <2> QED
    BY <2>2 DEF Tuned
<1>7. CASE CpuPeriod
  BY <1>7 DEF CpuPeriod, Tuned
<1>8. CASE Io
  <2>1. view # NoGuest => dict[view.ref] = view.io
    BY DEF Tuned
  <2>2. /\ UNCHANGED <<actual, want, dict, ksm, wrote, old, sampleOld, sample>>
        /\ pc' = "sleep" /\ view' = NoGuest /\ control' = NoControl
    BY <1>8, <2>1 DEF Io, SendNothing, monitorVars
  <2>3. \A t \in Tunables : control'[t] = Unset
    BY <2>2 DEF NoControl
  <2> QED
    BY <2>2, <2>3 DEF Tuned, Sampled, Tunables
<1> QED
  BY <1>1, <1>3, <1>4, <1>5, <1>6, <1>7, <1>8 DEF Engine

(***************************************************************************)
(* What makes TuningConverges and WritesStop last: as long as the policy   *)
(* keeps its mind, a tuned guest stays tuned and no call of vdsm is made,  *)
(* whatever expires, fails or is collected, and wherever the engine is.    *)
(***************************************************************************)
THEOREM TunedStaysTuned ==
  Spec => [][Tuned /\ want' = want
               => Tuned' /\ actual' = actual /\ wrote' \subseteq wrote]_vars
<1> DEFINE Stays == Tuned /\ want' = want
                      => Tuned' /\ actual' = actual /\ wrote' \subseteq wrote
<1>1. ASSUME TruthInv, [Next]_vars, Tuned, want' = want
      PROVE  Tuned' /\ actual' = actual /\ wrote' \subseteq wrote
  <2>1. CASE Collect
    <3>1. UNCHANGED <<actual, wrote>>
      BY <2>1 DEF Collect, engineVars
    <3> QED
      BY <1>1, <2>1, <3>1, TruthNext, TunedCollect
  <2>2. CASE Engine
    BY <1>1, <2>2, TunedEngine
  <2>3. CASE ExpireStats \/ ExpireIo \/ UNCHANGED vars
    BY <1>1, <2>3 DEF ExpireStats, ExpireIo, engineVars, vars, Tuned
  <2>4. CASE ChangePolicy
    BY <1>1, <2>4 DEF ChangePolicy, monitorVars, engineVars, Tuned
  <2> QED
    BY <1>1, <2>1, <2>2, <2>3, <2>4 DEF Next
<1>2. TruthInv /\ [Next]_vars => [Stays]_vars
  BY <1>1
<1> QED
  BY <1>2, TruthInit, TruthNext, PTL DEF Spec
=============================================================================
