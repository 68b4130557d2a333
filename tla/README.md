# Verification of the balloon control system

TLA+ models of `balloon_system/` (MOM, the Memory Overcommitment Manager, with
the `opt_*` balloon policies and eight policies of other systems they are
compared with) and of the scripts that drive it: modules, TLC instances
(`MC*.tla`, `MC*.cfg`) and TLAPS proofs (`*_proofs.tla`). `PROJECT.json` maps
every definition to the lines it models.

## The system

| Component | State | Operations | Interacts with | Modelled in |
|---|---|---|---|---|
| opt policies (`mom/Entity.py`, `rules/opt_*.rules`) | none of their own; `host_free.txt`, `parameters.txt` | average, compare, grow or shrink by a step or to a reference, charge or credit the file, set a control | evaluation, controller | `BalloonPolicy` |
| Dd policies (`mom/Entity.py`, eight rule files) | the same | the same, each in its own way, some in several passes | the same | `DdPolicies`, `DdControl` |
| `PolicyEngine` thread | controllers, policy | every interval: interrogate host and guests, evaluate, run the controllers | `GuestManager`, `HostMonitor`, `Policy` | `BalloonControl` |
| `Policy` store | named policy texts, compiled code, `policy_sem` | set, clear, evaluate, read | `PolicyEngine`, RPC | `PolicyStore` |
| Rule language (`Policy/Parser.py`) | a stack of scopes, functions | compile, evaluate | `Entity`, `Policy` | `RuleLanguage`, `RuleEngine` |
| `GuestManager` thread | `guests`, `guests_sem` | list guests, spawn, register, check and remove monitors, collect (single-threaded mode) | hypervisor interface, monitors | `GuestManager` |
| `Monitor`, `GuestMonitor`, `HostMonitor` | samples, ready, `_terminate`, `data_sem` | collect, interrogate, terminate | collectors, `Entity` | `BalloonControl`, `GuestManager`, `MomDaemon` |
| Guest agent channel (`Collectors/*Qemu*Agent*.py`) | socket, open file, last counters | connect, guest-sync, open, read, close | a guest | `AgentSession` |
| Controllers, vdsm interface | KSM's settings, memoized statistics | turn controls into calls | vdsm, libvirt | `BalloonControl` (Balloon), `TuningControl` (the others) |
| `MOM`, `momd`, `RPCServer`, `MOMFuncs` | `running`, threads | start, watch, shut down; RPC | all threads | `MomDaemon`, `PolicyStore` |
| `scripts/` | `host_free.txt`, `parameters.txt` | set up, change policy, kill and restart `momd` | everything, from outside | `BalloonControl`, `DdControl` |

What is hard here. Three threads of `momd`, each with its own period, share the
monitors' data; the ledger `host_free.txt` is written during the evaluation,
the balloon commands follow later, the balloons move later still, and the
samples show all of it later again. The file survives `momd`, whose test
scripts kill it with `pkill -9`. Hypervisor calls may fail or never return. RPC
calls replace the policy while it is evaluated. A guest's answers may arrive
when nobody waits for them any more. Statistics are memoized, and what is
memoized is written to. `PROJECT.json` lists these hazards with the properties
that would catch them.

What makes each component correct: the policies keep every target between
`balloon_min` and `balloon_max` and never spend more than the ledger shows; the
loop moves memory between ledger and guests without making or losing any and
applies what it decides; the manager has exactly one monitor for every guest,
forgets none that runs, and is not stopped by one guest; the store's compiled
code belongs to its texts; a text means what its brackets say and a rule does
what the policy does that it copies; the daemon stops as a whole; an answer from
a guest belongs to the last question; what the policy asks for comes into force.

## Modules

How they are composed: `BalloonControl` EXTENDS `BalloonPolicy`; `DdControl`
EXTENDS `BalloonControl` and `DdPolicies`; `RuleEngine` EXTENDS `RuleLanguage`
and compares itself with an INSTANCE of `BalloonPolicy`. `BalloonControl`
implements `HostLedger`, `PolicyStore` implements `PolicyMap`. The others stand
alone, and each says what it takes from its neighbours.

**BalloonPolicy** - the arithmetic of `Entity.py`: `StatAvg`, the used fraction
compared with thresholds (multiplied out, so the code's floating-point
percentage is an exact fraction), `Affordable` (the ledger check with its
reduction to whole chunks), and the step, reference and selecting policies. A
result is the new balloon target or `NoTarget`. Floats the code passes around
hold whole bytes below 2^53, so integers lose nothing.

**BalloonControl** - the loop. `hostFree` and `params` are the two files;
`history`, `ready`, `round` are the monitors and the sampling thread; `pc`,
`snap`, `todo`, `control` are one call of `PolicyEngine.do_controls` with its
Entities; `qtarget`, `actual` are QEMU. `Collect` is `Monitor.collect`,
`DoControls` the snapshot, `EvalGuest` the rules for one guest (read and write
the ledger, set the control), `Apply` the Balloon controller; `CollectFail`,
`EvalFail`, `ApplyFail` are their exceptions, `MainLoopStop`, `Kill`, `Restart`
the process, `SetStepPolicy`, `SetRefType`, `SetRefParams` `change_policy.sh`,
`MoveBalloon` the guest's driver (external). Reading and writing the ledger is
one step: only the PolicyEngine thread does it while `momd` runs. The host
monitor is taken to be ready: a tick that finds it is not does nothing.

**HostLedger** - what the loop promises: resizing a guest is a transfer between
the guest and an account that is never overdrawn.

**DdPolicies**, **DdControl** - `Dd_policy1` to `Dd_policy8`, and the loop under
each rule file the scripts start `momd` with. `DdDoControls` also reads
`host_mem_pressure` once (`pressure`), `DdEvalGuest` applies one function of the
file (`pass`) to one guest with the ledger it re-reads; all else is
`BalloonControl`, the failures, the kills and the operator included.

**PolicyStore** - `strings`, `code` and `sem` are the fields of `Policy`; `todo`
is what a call of an exported function has still to do, one entry per critical
section (`setPolicy` is a clear and a set); `set_policy_store` and
`set_policy_compile` are the two halves of `set_policy`, `evaluate_*` the
engine. A text is good, bad, garbled (a character no token begins with) or
commented (it ends in a comment without a newline, which the scanner only
accepts when another text follows), and may be blank, without a token. From
these classes follows what `get_code` makes of all texts joined: code
(`Compiles`), `PolicyError` (`Refused`), or an exception that `set_policy` does
not catch (`Raises`: the `TypeError` of `Unscannable`, the `IndexError` of
`NoTokens`), so that compiling ends in `accept`, `refuse` or `raise`. The
classes take it that comments apart no text changes how its neighbours are
scanned. **PolicyMap** is the abstract map from names to texts: it changes
together with its code, without it when the compilation raises, or not at all.

**RuleLanguage**, **RuleEngine** - `get_code` turns tokens into trees by the
grammar of `Parser.py`, refuses them (`PolicyError`) or, when there are none,
ends in the `IndexError` of the parser; `Eval` walks a tree with a stack of
dynamic scopes, one table of functions, argument checks and exceptions, and with
Python's operators on what a text can make: numbers, and strings and lists
joined and repeated (the order of strings is left out). `RuleEngine` is `momd`
with one text: `set_policy` compiles it, `do_controls` evaluates it against
guests and ledger. The programs are those of `tests/ParserTests.py` (all but
those that need a class of their own or are about white space and comments),
calls with every pair of arguments, those in which a parameter hides a variable
of the next argument included, and `rules/testopt_adp_step.rules` as a syntax
tree, whole and with one function missing.

**GuestManager** - `GuestManager.run` in both modes. Only this thread changes
`guests`, so each section under `guests_sem` is one step; creating a monitor is
several (`BeginCreate`, `CreateMonitor`, `Register`), because the constructor
may wait, fail or raise and the new thread runs before it is registered. In the
single-threaded mode `pc = "collect"` is exactly the time `guests_sem` is held
across hypervisor calls. `collectors[m] = FALSE` is a monitor whose
`get_collectors` returned None: its next `collect` raises. No guest collector
raises `FatalError` from `collect`, so a monitor never terminates itself.
`threaded` and `slow` (which guests hang) are chosen at the start. `Dynamic`
chooses between the shipped `libvirtInterface.getVmList`, which always lists all
of `guest-number`, and what `HypervisorInterface` allows.

**MomDaemon** - the process. `main` is where the main thread is in `momd` and
`MOM.run`; `hm`, `gm`, `pe`, `rpc` are the threads, as far as their life and
`guests_sem` (held while `gm = "collect"`) go; `server` says that
`RPCServer.server` is not None and `stopping` that its `shutdown` was called.
`Watch` is one turn of the main loop, `AskServer` and `ServerStopped` the
shutdown that has no time limit, `Join` a join that has one, `Signal`
`signal_quit`. It abstracts `GuestManager` to the semaphore and `BalloonControl`
to whether a tick returns; those take the end of `momd` as given (`Shutdown`,
`MainLoopStop`), and this module says when `running` is cleared and what
follows. A request is one that needs `guests_sem`; those that need `policy_sem`
are in `PolicyStore`.

**AgentSession** - `GuestQemuAgent.collect` over the socket of the qemu guest
agent, one collection after another. `phase` and `pc` are where the collection
is (ping; open, read and close of two files), `sock` the connection, `base` and
`sample` the counters and the result. `requests` and `answers` are the channel,
which outlives a connection of the host and keeps, in order, what nobody waited
for; `Serve` is the agent and `Restart` the guest (external). Every read may
time out, a socket may close before, after or in the middle of an answer, an
open may be refused.

**TuningControl** - CPU, I/O and KSM settings. `Collect` reads the memoized
statistics (`stats`, `ioState`, which `ExpireStats` and `ExpireIo` drop), in the
monitor's thread. The engine is `Interrogate`, `Evaluate` or `EvaluateFails`
(then no controller runs), `Ksm`, `CpuQuota`, `CpuPeriod`, `Io`, between any two
of which the monitor may collect; each call of vdsm may fail. `dict` holds the
dictionaries of I/O settings: `ioState`, the sample and the snapshot `view`
refer to them, because the policy writes what it sets into the sample's
dictionary (`SetIoTune`), which may be the memoized one. A CPU setting may be a
fraction, and `int` is applied where the code applies it, after the comparison
with the sample; I/O and KSM settings are taken to be whole numbers. `want` is
the policy (external); `old`, `sampleOld`, `ksmLost` are bookkeeping that is not
in the code.

Each definition introduced by a comment "Faulty variant" is a plausible mistake;
replacing the definition that follows by it violates a property, which shows
that the property depends on the code.

## Runs

| Run | Shows |
|---|---|
| `step_policy` | Two guests, step policy, everything that can fail: types, `StepInv`, ledger never negative, targets in bounds, the ledger drifts only by a stale or a dropped charge |
| `settled_ledger` | Settled samples (the reference policy's averages included) and whole ticks, both kinds of policy, two samples per window: the loop implements `HostLedger`, guests at rest hold no more than the host gave |
| `live_demand` | Fair threads: every target reaches QEMU, demanding guests are served down to the last chunk |
| `overcommit_stale` | A violation: a disagreement with the repository's own words, see below |
| `dd_policies` | Nine rule files, averages over two samples, everything that can fail: Dd policies never overdraw the ledger, five files keep the bounds, the ledger drifts only by a stale, a dropped or a double charge |
| `dd_steady` | Two guests in steady use compete under three of the files: the targets come to rest |
| `guest_manager` | Both modes, guests and threads coming and going, guests that hang, calls that fail: no live monitor forgotten, one per guest, dead ones leave the list, guests that stay are monitored, guests that go are forgotten |
| `daemon` | All configurations, guests that answer or not, signals at any point, threads that die: momd ends once `running` is cleared after the start, does not run on without a thread it needs, answers the requests it accepted |
| `policy_store` | Two callers and the engine: texts that compile are stored with their code, refused texts leave no trace and are never returned, texts whose compilation raises stay beside the code of an earlier store, evaluations see one code, calls return, `PolicyMap` is implemented |
| `rule_language` | All short texts compile as their brackets say, are refused or, the empty one, raise; programs give the expected values; scopes are left; the step policy written as rules does what `opt_policy_step` does and keeps the ledger until an evaluation raises |
| `guest_agent` | Time-outs, lost and cut answers, restarts: a synchronised connection is in step, its results are fresh and its successful collections close their files; swap deltas never overlap; collections end |
| `tuning` | Memoized statistics, failing calls and evaluations, collections in the middle of a tick, a policy that changes its mind and sets a fraction: samples tell the truth unless this program or the policy wrote since, settings come into force, calls stop if no setting is a fraction |

### What the code does against its own words

`overcommit_stale`. `test_multi_policy_pair.sh:75` fills `host_free.txt` with
the memory eligible for ballooning. A second tick that still sees the sample
of before the first tick's command decides the same shrink again and credits
it again; another guest grows with memory nobody gave back. The other
direction exists too: a grow decided twice is paid twice and the ledger
drains. Two more ways to overcommit lie behind the conditions of
`SettledSpec`, which exclude them: a kill between two commands of a tick
leaves credits whose shrinks never happen, and even a whole tick grows a
guest into memory that another has been told to, but did not yet, return
(`NoOvercommitAtRest` speaks of rest for that reason).

### Observations

Met while modelling and kept in the models, but without a run of their own. The
properties are stated with the exceptions these make necessary.

Policies
- The reference policy takes its targets from averages; a "shrink" may raise a
  guest without looking at the ledger, and growing a guest against the then
  negative ledger sets a target below `balloon_min`. Neither happens when the
  window shows one size and the references are not short of the thresholds, as
  in `parameters.txt:6-9`: proved (`SoundDecision`), and the condition under
  which the properties of the reference policy are stated.
- The oVirt rules pass `balloon_min`, the Hyper-V rules `balloon_max` and the
  KVM rules both (`Bounded` lists the five files that do neither).
- Two passes of `iballoon.rules` overlap at a use of exactly 30 or 90 percent
  and charge the ledger twice for one guest (`ChargedTwice`).
- `opt_step.rules` calls `opt_policy_step` without the parameters it needs,
  `testopt_simple.rules` calls `guest.opt_policy`, which does not exist, and
  `balloon.rules` uses a function that is commented out: their evaluation
  always raises once it gets there.
- `set_policy` catches `PolicyError` only. A text with a character that begins
  no token, or that ends in an unfinished comment, raises `TypeError` (the
  scanner calls `t_default` with one argument too many), and texts without any
  token raise `IndexError`; the text `'0'` of `_cat_policies` helps only if they
  are all empty. The call then ends without an answer or a roll back: the text
  is stored and returned by `getPolicy`, the code stays what it was. A deletion
  may end that way too, when what is left raises, and the deleted policy stays
  in force. A policy file like that ends the start of `momd` (`StartFails`).
- The comment in `testopt_adp_step.rules:22-25` speaks of whole gaps; the
  rule's ledger is a float, so the step is not rounded.

Process
- `mom-balloon.conf` says the threaded mode isolates guests; monitors are
  constructed by the one manager thread, and the constructor runs a qmp command
  (`ManagerStuck`).
- `_wait_for_guest_monitors` says it waits; `join(0)` does not.
- A configured RPC server that cannot be created (the port is taken) is taken
  for disabled, and MOM runs on without it.
- A signal caught after MOM is constructed and before `run` sets `running` is
  overwritten, and momd stays (`StopEnds` counts from where `running` is set).
- The shutdown waits for ever when an RPC request waits for `guests_sem` while a
  single-threaded round waits for a guest that does not answer: `Answering`,
  the condition of the properties of `MomDaemon`, is the negation of that.

Guests and host
- `GuestQemuAgent` tries the libvirt channel first; libvirtInterface leaves its
  connection None, so it never answers.
- After a socket has closed in the middle of an answer, the rest of that answer
  makes the next `guest-sync` raise, and the socket stays in use without having
  been synchronised until a read times out. Every call then reads the answer
  of an earlier one. Most collections fail that way, but three answers behind
  the calls fall into step with each other again, and each result pairs the
  meminfo of one collection with the vmstat of the next; one that finds meminfo
  where vmstat belongs forgets the counters, and the next deltas leave a gap.
  This takes eleven collections, more than `guest_agent` makes; it came out of
  the proof of `SamplesAreFresh`, which is therefore about synchronised
  connections, as is the gap in `DeltasTile`. `recv` that returns nothing
  leaves a dead socket in use as well.
- `len(ret) < 1024` asks for the size of a dictionary, so a file is read in one
  chunk of 1024 bytes at most.
- KSM remembers a setting although writing it failed, and does not retry
  (`ksmLost`).
- The policy writes its I/O settings into the memoized dictionary. When the
  evaluation then fails, or the monitor collects before `IoTune` runs, the next
  sample shows the policy's wish as the host's setting and no call is made until
  the memoized value expires (`sampleOld`).
- A CPU control that is no whole number is never equal to the sample, and both
  calls are made at every tick (`WritesStop` excepts it).
- The bulk XML-RPC interface uses names it does not define.

### Bounds

- Memory units. The policy's decisions depend on a guest's size against its
  bounds, the ledger against a step and a chunk, and the used fraction against
  the thresholds. Sizes 1..3 or 2..3 with steps 1 and 2 give growth that is
  capped, growth that is paid in full, reduced to a chunk and reduced to
  nothing, shrinks that are clamped and not clamped. The Dd policies take a
  twentieth or a fifth of a size, so their sizes are 20..22 and 16..36.
- `HostFreeBound` (constraint) cuts runs in which stale credits inflate, or
  stale averages overdraw, the ledger for ever. `SizeBound` stops one unit
  outside the bounds, where three of the rule files go; `ParamsMatter` leaves
  `parameters.txt` alone under rule files that do not read it.
- Two guests suffice for one to spend what the other returns. `dd_policies` has
  one, because its drift concerns one guest's samples, and averages over two
  samples for nine files are large; in `dd_steady` two guests compete.
- `HistoryLength` 1 makes samples stale by a step, 2 makes averages lag.
  `settled_ledger` has 2, with the conditions of `Settled` and `AveragesSettled`
  on every tick; it starts with an empty ledger only, and symmetry identifies
  states that differ in the names of the guests.
- `Monitors` bounds the GuestMonitor objects alive at a time to two for two
  guests, so that a guest's new monitor meets its old one, and an instance may
  use up its monitors: a guest that hangs in its collectors leaves a thread
  behind every time it goes, without a bound in the code.
- `policy_store`: two names (one sorted after the other), two callers (one to be
  in the middle of what the other does), a good, a bad and an empty text and one
  that is nothing but an unfinished comment: it raises `TypeError` when it is
  last, and `IndexError` when only blank texts follow. A garbled text raises
  `TypeError` wherever it stands, which the comment does under the last name, so
  it is left to the proofs.
- `rule_language`: texts of up to five brackets and symbols, enough for two
  lists, one in another, and for every way to close one wrongly; ticks until
  the first evaluation that raises (`UntilFirstFailure`).
- `guest_agent`: `MaxRounds` six collections and `MaxRestarts` one restart: an
  answer can be left over by each of several connections and be met later. What
  needs more (see the observations) is covered by the proofs, which have no
  bound.
- `tuning`: two values per setting and a fraction of the quota, `Wishes` that
  change I/O and the quota both ways and switch the others on, three `Refs` (the
  sample's, the snapshot's and the next), `MaxFaults` two failing calls or
  evaluations, `MaxChanges` two changes (two settings, or one set and changed or
  unset).

### Fairness

Every thread of `momd` is a loop with a sleep, so each thread's steps get weak
fairness. `DoControls` needs `guests_sem`, which the single-threaded manager
takes again and again but always gives back before it sleeps; Python's
semaphore does not starve a waiter over infinitely many sleeps, hence strong
fairness for this one step, and by the same argument for `SettledTick`
(`dd_steady`), for the steps of `MomDaemon` that wait for `guests_sem` and for
the operations of `PolicyStore` that wait for `policy_sem`; the engine's
evaluation ends (weak fairness of `evaluate_end`). Balloons of obedient guests
reach their targets (weak fairness, `live_demand`, `overcommit_stale` and
`dd_steady` only).

In `GuestManager` and `MomDaemon` a step that talks to a guest of `SlowStart` or
`slow` has no fairness: it may never return. Calls that fail stop failing in the
end (`<>[][LiveNext]_vars`). In `AgentSession` only the monitor's own steps are
fair: the agent need never answer, a read then times out. In `TuningControl` the
monitor collects, the engine takes its next step and memoized values expire.
Failures and the surroundings are never fair.

## Proofs

`SumTheorems` holds the lemmas the other proofs need of `SumFunction` and `Max`:
sums of integers are integers, change by the difference when one value changes
(`SumExcept`), differ by the sum of the differences (`SumDifference`) and lie
between bounds (`SumBounds`); `Max` is the greatest (`MaxIsGreatest`). The
library's induction theorems take an operator as a parameter, which the provers
cannot instantiate; here the set where the claim fails is formed, and a minimal
member of it (`SmallestSet`) contradicted.

`BalloonControl_proofs`, for all guests, memory sizes, histories and
parameters, whatever fails, is killed or is changed by the operator:

- Under every policy, `TickInvariant`, `TypeCorrect` and
  `DriftOnlyFromStaleOrDropped`. The inductive invariant says that only guests
  with a sample are evaluated, that no control outlives its tick (`TickInv`) and
  that a guest still to be evaluated has none (`ChargedOnce`). So a charge
  replaces what QEMU was told before by what it will be told, and a step that
  changes `LedgerTotal` started from a stale size or dropped a control
  (`TransferConserves`, `BookingStep`, `DriftStep`).
- What moves the total, in numbers. `LedgerAccounted`: every step of every
  policy, failures, kills and restarts included, changes `LedgerTotal` by
  exactly the sum of `DriftOf(g)`: by how much the size a guest was charged for
  differs from its target, or what was left of a charge when its control was
  dropped. `WindowBounded`: no window grows beyond `sample-history-length`.
- For a policy that decides by one sample, `StepInvariant`,
  `StepLedgerNonNegative`, `StepTargetsInBounds`, however stale that sample is
  and whatever fails; and `DriftBounded`, at most `BalloonMax - BalloonMin` for
  each guest and step. `OneSampleDecides` is the step policy, or the reference
  policy with `HistoryLength = 1` and `RefAtThreshold`: `balloon_min` is a whole
  number of MB and a reference is not short of its threshold, as
  `parameters.txt:6-9` and `change_policy.sh` have it. The check and the charge
  then use the same size, so a stale sample cannot make the ledger negative. A
  target is computed from the snapshot's size, so bounds on targets need bounds
  on samples (`SizesInv`). `WholeChunks`, `GrowStepIsAffordable` and
  `GrowRefIsAffordable` carry the arithmetic of reduced steps, `SoundDecision`
  puts the policies together. Over a longer window that shows several sizes the
  reference policy has neither property (see the observations).
- `DemandOnlyDebits`: under `FullDemand` (guests that use all they have, step
  policy) no step adds to the ledger. This is the safety side of `DemandServed`:
  a guest in demand is not served with memory another one in demand gave up.
- `WholeTicksDropNothing`, `LiveDropsNothing`: if no tick is broken off after a
  charge, a control is given up only for the command QEMU has taken
  (`AppliedInv`). This is the safety side of `EveryControlIsApplied`.
- Under `SettledSpec`: `SettledInvariant` (the size an evaluation works with is
  QEMU's target, and no control outlives its tick) and `SettledConserves` (the
  ledger and the guests never own more than `HostMemory`) for every policy and
  all parameters; `SettledNoOvercommit` and `SettledImplementsLedger` for the
  step and the reference policy under `RefAtThreshold`, for any `HistoryLength`.
  The former follows because a ledger that is not negative leaves the guests at
  most all, the latter because each charge is one transfer of `HostLedger` and
  every other step stutters. The reference policy averages over its window, so
  its settled ticks are those whose windows show one size (`AveragesSettled`);
  the step policy needs no such condition.

`DdControl_proofs`, for the nine rule files, all guests, sizes and histories:
`DdInvariant`, `DdTargetsBounded`, `DdNeverOverdraws`, `DdDriftSources`. Each
decision is within bounds when its samples are, averages included
(`AverageInBounds`), and spends no more than the ledger it re-reads shows
(`PaidFor`). `PassInv` says which guests have a control in which pass of
`iballoon.rules` and from which range of use they got it: the ranges of a later
pass meet those of an earlier one at exactly 30 and 90 percent only
(`RechargeIsAtThreshold`).

Under `DdSettledSpec`, whose ticks find the guests `Settled` and are whole:
`DdSettledInvariant`; `DdSettledDriftIsTwofold`, the double charge of
`iballoon.rules` is the only drift left; so `DdSettledConserves` for the files
with one pass, and `DdSettledNoOvercommit` for those among them that never
overdraw, that is for seven of the eight compared algorithms.
`DdSettledImplementsLedger`: the four with one pass and bounded targets
(XenServer, dynamic memory allocation, Wei-Zhe Zhang, U-tube) implement
`HostLedger`, which the opt policies implement as well. `SteadyNoOvercommit` is
the same for the runs whose targets `dd_steady` shows coming to rest.

`GuestManager_proofs`, for all guests, any number of monitors and both modes:
`ManagerInvariant`, `ManagerTypeCorrect`, `ManagerForgetsNoMonitor`,
`ManagerOneMonitorPerGuest`. `ManagerInv` ties `guests` to the monitors' owners
and to the manager's position; without the part about `spawn_list` a monitor
could be created for a guest that has one. `MonitorsLeaveOrderly`, a property of
steps: a registered monitor is never replaced and leaves the table only when it
is dead, when its guest is no longer listed and it is told to terminate in the
same step, or when `momd` stops. This is the safety side of
`ActiveGuestsMonitored`.

`MomDaemon_proofs`, for every set of configurations: `DaemonTypeCorrect`, which
also says that only a configured server exists, that only an existing one
serves, and that it is stopped only once `running` is cleared for good. The
inductive invariant adds where `main` is: nothing sets `running` after the
start, and the server is asked to stop only after the main loop. From it follow
the safety sides of `RequestsAnswered` and `StopEnds`:
`StoppedServerHasAnswered`, a server asked to stop has ended, with no request
under way, before `momd` joins its other threads, and `StopIsFinal`, after the
start nothing sets `running` again.

`PolicyStore_proofs`, for all names, texts, callers and policy files:
`TypeCorrect`, `CodeMatchesStore`, `RepliesAreAccepted`, `EvaluationIsIsolated`,
`DeletionIsSafe`, and `ImplementsMap`, the refinement. They rest on what a
caller holds when it holds `policy_sem`: its next operation is a `set`, what it
wrote over is in `old`, and the texts with `old` put back (`Committed`) are none
that `PolicyError` refuses, although they may raise. So the deletion of a name
that is not stored is never refused: the roll back would delete it again. The
code is always that of a store that compiled, or empty.

`AgentSession_proofs`, for any number of collections and restarts:
`SyncKeepsInStep`: the channel may hold guest-sync requests and answers only of
collections up to this one, and this collection's at most once and after
everything older (`SyncIsLast`); so whoever reads its own number has drained
all that earlier connections left. `ResultsAreFresh` and
`SuccessLeavesNoFileOpen` follow the calls of a connection in step one by one
(`InStep`): the channel holds the request of the call in progress or its
answer, the one file open for this collection is the one asked for, and the
texts read so far are this collection's; that needs handles to be unique and no
older request to open a file for this collection (`HandlesInv`).
`DeltasNeverOverlap` holds on every connection, since contents are answered,
read and counted in the order of time (`InOrder`).

`TuningControl_proofs`, for all settings, fractions and dictionaries, any number
of failures and changes: `SamplesTellTheTruth`. The inductive invariant adds
that the memoized values, in whichever dictionary, tell the truth as well,
except what was written since (`CacheIsTruth`); a new answer of vdsm overwrites
no dictionary in use (`FreshIsFree`), a write of the policy is counted when it
reaches the memoized one (`SetIoTuneTruth`). `TunedStaysTuned`: while the policy
keeps its mind, a guest that is tuned, in its sample and in the engine's
snapshot, stays tuned and no call is made, wherever the engine is, whatever
expires, fails or is collected. That is the stability half of `TuningConverges`
and `WritesStop`; that it gets there is liveness.

Only model-checked:
- The rule language: its compiler and evaluator are RECURSIVE operators, which
  the prover does not accept.
- All liveness properties: fairness and ENABLED are beyond the prover. What can
  be proved about them is their safety side, named above.
- Nothing is claimed, checked or proved, of the reference policy's ledger and
  targets over windows that show several sizes: they fail there.

## Not modelled

- `GuestNetworkDaemon` and `mom-guestd`: one request and one line per
  connection.
- The merge of several collectors into one sample, the parsing of `/proc` and
  `/sys` in the host collectors, and writing the files under
  `/sys/kernel/mm/ksm` one by one.
- libvirt's calls for CPU tuning and for the agent, and its reconnect: single
  calls without control of their own, or unused. The other transports to vdsm
  make the calls `TuningControl` has; `get_hypervisor_interface` fixes libvirt,
  so none is selected without a change.
- Configuration, logging, daemonizing, plotting, debugging aids.
- `spark.py` (third-party; `RuleLanguage` starts from tokens), packaging, the
  repository's tests (their programs and expectations are used in
  `rule_language`), workload generators and recorded logs.
- How many threads of departed guests hang: nothing in the code bounds it.
