---------------------------- MODULE GuestManager ----------------------------
(***************************************************************************)
(* The GuestManager thread (mom/GuestManager.py) and the GuestMonitors it  *)
(* creates: which guest has a monitor, which monitors still run, and who   *)
(* holds guests_sem.  What a monitor records is BalloonControl's subject.  *)
(*                                                                         *)
(* A guest's calls into its hypervisor (os.popen of qmp-dd-shell) may      *)
(* never return: SlowStart are guests whose GuestMonitor constructor may   *)
(* block, SlowCollect those whose collectors may.                          *)
(***************************************************************************)
EXTENDS Integers, FiniteSets

CONSTANTS Domains,
          Monitors,     \* bound: GuestMonitor objects that exist at a time
          None,
          Modes,        \* values of guest-manager-multi-thread to consider
          Dynamic,      \* guests come and go and calls about them fail, as
                        \* HypervisorInterface allows; FALSE: getVmList of
                        \* libvirtInterface, always all of guest-number
          Importable,   \* {TRUE}: every configured collector can be loaded
          SlowStart,
          SlowCollect

ASSUME ManagerAssumption ==
  /\ None \notin Domains \cup Monitors
  /\ Modes \subseteq BOOLEAN
  /\ Dynamic \in BOOLEAN
  /\ Importable \subseteq BOOLEAN
  /\ SlowStart \subseteq Domains
  /\ SlowCollect \subseteq Domains

VARIABLES
  threaded,    \* GuestManager._threaded
  slow,        \* the guests of SlowCollect that do hang
  running,     \* config '__int__' 'running'
  domains,     \* guests that run, as the hypervisor knows them
  pc,          \* where GuestManager.run is
  domain_list, \* of the current pass
  spawn_list,  \* guests of domain_list still to get a monitor
  creating,    \* the guest whose GuestMonitor is being constructed
  created,     \* a constructed monitor that is not registered yet
  visit,       \* guests still to collect from, in a single-threaded pass
  guests,      \* GuestManager.guests: a monitor or None for each guest
  owner,       \* the guest a monitor was created for
  thread,      \* its GuestMonitorThread: "none", "alive" or "dead"
  terminated,  \* Monitor._terminate
  collectors   \* FALSE: get_collectors returned None

pass == <<domain_list, spawn_list, creating, created, visit>>
table == <<guests, owner, thread, terminated, collectors>>
setting == <<threaded, slow>>
vars == <<setting, running, domains, pc, pass, table>>

Registered == {d \in Domains : guests[d] # None}

(* self.guests and _create_monitor hold on to a monitor, or its thread does. *)
InUse(m) == \/ thread[m] = "alive"
            \/ m = created
            \/ \E d \in Domains : guests[d] = m

should_run(m) == running /\ ~terminated[m]

TypeOK ==
  /\ threaded \in BOOLEAN
  /\ slow \subseteq Domains
  /\ running \in BOOLEAN
  /\ domains \subseteq Domains
  /\ pc \in {"list", "spawn", "collect", "sleep", "drain", "ended", "crashed"}
  /\ domain_list \subseteq Domains
  /\ spawn_list \subseteq Domains
  /\ creating \in Domains \cup {None}
  /\ created \in Monitors \cup {None}
  /\ visit \subseteq Domains
  /\ guests \in [Domains -> Monitors \cup {None}]
  /\ owner \in [Monitors -> Domains \cup {None}]
  /\ thread \in [Monitors -> {"none", "alive", "dead"}]
  /\ terminated \in [Monitors -> BOOLEAN]
  /\ collectors \in [Monitors -> BOOLEAN]

Init ==
  /\ threaded \in Modes
  /\ slow \in SUBSET SlowCollect
  /\ running = TRUE
  /\ domains \in IF Dynamic THEN SUBSET Domains ELSE {Domains}
  /\ pc = "list"
  /\ domain_list = {}
  /\ spawn_list = {}
  /\ creating = None
  /\ created = None
  /\ visit = {}
  /\ guests = [d \in Domains |-> None]
  /\ owner = [m \in Monitors |-> None]
  /\ thread = [m \in Monitors |-> "none"]
  /\ terminated = [m \in Monitors |-> FALSE]
  /\ collectors = [m \in Monitors |-> FALSE]

-----------------------------------------------------------------------------
(* One pass of GuestManager.run.  Only this thread changes guests, so each *)
(* section under guests_sem is one step.                                   *)

(* Faulty variant: a guest that has a monitor is spawned again.            *)
ListGuestsAll ==
  /\ pc = "list"
  /\ running
  /\ domain_list' = domains
  /\ spawn_list' = domains
  /\ pc' = "spawn"
  /\ UNCHANGED <<setting, running, domains, creating, created, visit, table>>

(* getVmList, and the spawn_list of _spawn_guest_monitors.                 *)
ListGuests ==
  /\ pc = "list"
  /\ running
  /\ domain_list' = domains
  /\ spawn_list' = domains \ Registered
  /\ pc' = "spawn"
  /\ UNCHANGED <<setting, running, domains, creating, created, visit, table>>

(* Faulty variant: the manager collects in the threaded mode, too.         *)
CollectingAlways(registered) ==
  /\ pc' = "collect"
  /\ visit' = registered

(* After spawning and checking: collect here, or leave it to the threads.  *)
Collecting(registered) ==
  /\ pc' = IF threaded THEN "sleep" ELSE "collect"
  /\ visit' = IF threaded THEN {} ELSE registered

(* getVmList returns None: the table stays as it is.                       *)
ListFails ==
  /\ Dynamic
  /\ pc = "list"
  /\ running
  /\ Collecting(Registered)
  /\ UNCHANGED <<setting, running, domains, domain_list, spawn_list, creating, created,
                 table>>

(* The next iteration of the loop over spawn_list.                         *)
BeginCreate(d) ==
  /\ pc = "spawn"
  /\ creating = None
  /\ created = None
  /\ d \in spawn_list
  /\ spawn_list' = spawn_list \ {d}
  /\ creating' = d
  /\ UNCHANGED <<setting, running, domains, pc, domain_list, created, visit, table>>

(* getVmInfo returns None: no monitor for this guest in this pass.         *)
NoInfo ==
  /\ Dynamic
  /\ creating # None
  /\ creating' = None
  /\ UNCHANGED <<setting, running, domains, pc, domain_list, spawn_list, created, visit,
                 table>>

(* _create_monitor: the monitor, and in the threaded mode its thread.      *)
CreateMonitor(m) ==
  /\ creating # None
  /\ ~InUse(m)
  /\ created' = m
  /\ creating' = None
  /\ owner' = [owner EXCEPT ![m] = creating]
  /\ thread' = [thread EXCEPT ![m] = IF threaded THEN "alive" ELSE "none"]
  /\ terminated' = [terminated EXCEPT ![m] = FALSE]
  /\ \E loaded \in Importable : collectors' = [collectors EXCEPT ![m] = loaded]
  /\ UNCHANGED <<setting, running, domains, pc, domain_list, spawn_list, visit, guests>>

(* Faulty variant: the monitor of a guest that had one before is not kept. *)
RegisterUnused ==
  /\ created # None
  /\ created' = None
  /\ guests' = IF thread[created] = "dead"
                   \/ \E m \in Monitors \ {created} : owner[m] = owner[created]
               THEN guests
               ELSE [guests EXCEPT ![owner[created]] = created]
  /\ UNCHANGED <<setting, running, domains, pc, domain_list, spawn_list, creating, visit,
                 owner, thread, terminated, collectors>>

(* is_running and _register_guest.  A monitor whose thread has already     *)
(* died is let go.                                                         *)
Register ==
  /\ created # None
  /\ created' = None
  /\ guests' = IF thread[created] = "dead" \/ guests[owner[created]] # None
               THEN guests
               ELSE [guests EXCEPT ![owner[created]] = created]
  /\ UNCHANGED <<setting, running, domains, pc, domain_list, spawn_list, creating, visit,
                 owner, thread, terminated, collectors>>

(* The monitors _check_guest_monitors removes: dead ones, and those of     *)
(* guests that are gone.  Only the latter are told to terminate.           *)
Dead == {d \in Registered : thread[guests[d]] = "dead"}
Gone == Registered \ (domain_list \cup Dead)

(* Faulty variants: terminate is not called; dead threads stay in guests.  *)
CheckMonitorsNoTerminate ==
  /\ pc = "spawn"
  /\ spawn_list = {} /\ creating = None /\ created = None
  /\ guests' = [d \in Domains |-> IF d \in Dead \cup Gone THEN None ELSE guests[d]]
  /\ Collecting(Registered \ (Dead \cup Gone))
  /\ UNCHANGED <<setting, running, domains, domain_list, spawn_list, creating, created,
                 owner, thread, terminated, collectors>>

CheckMonitorsKeepDead ==
  /\ pc = "spawn"
  /\ spawn_list = {} /\ creating = None /\ created = None
  /\ guests' = [d \in Domains |-> IF d \in Gone THEN None ELSE guests[d]]
  /\ terminated' = [m \in Monitors |->
                      terminated[m] \/ \E d \in Gone : guests[d] = m]
  /\ Collecting(Registered \ Gone)
  /\ UNCHANGED <<setting, running, domains, domain_list, spawn_list, creating, created,
                 owner, thread, collectors>>

CheckMonitors ==
  /\ pc = "spawn"
  /\ spawn_list = {} /\ creating = None /\ created = None
  /\ guests' = [d \in Domains |-> IF d \in Dead \cup Gone THEN None ELSE guests[d]]
  /\ terminated' = [m \in Monitors |->
                      terminated[m] \/ \E d \in Gone : guests[d] = m]
  /\ Collecting(Registered \ (Dead \cup Gone))
  /\ UNCHANGED <<setting, running, domains, domain_list, spawn_list, creating, created,
                 owner, thread, collectors>>

(* _collect_from_guest_monitors, one monitor; guests_sem is held until the *)
(* last one is done.  Without collectors Monitor.collect raises.           *)
CollectFrom(d) ==
  /\ pc = "collect"
  /\ d \in visit
  /\ visit' = visit \ {d}
  /\ pc' = IF should_run(guests[d]) /\ ~collectors[guests[d]]
           THEN "crashed" ELSE pc
  /\ UNCHANGED <<setting, running, domains, domain_list, spawn_list, creating, created,
                 table>>

CollectDone ==
  /\ pc = "collect"
  /\ visit = {}
  /\ pc' = "sleep"
  /\ UNCHANGED <<setting, running, domains, pass, table>>

NextPass ==
  /\ pc = "sleep"
  /\ pc' = "list"
  /\ UNCHANGED <<setting, running, domains, pass, table>>

EndLoop ==
  /\ pc = "list"
  /\ ~running
  /\ pc' = IF threaded THEN "drain" ELSE "ended"
  /\ UNCHANGED <<setting, running, domains, pass, table>>

(* _wait_for_guest_monitors: join(0) returns at once.                      *)
PopGuest(d) ==
  /\ pc = "drain"
  /\ d \in Registered
  /\ guests' = [guests EXCEPT ![d] = None]
  /\ UNCHANGED <<setting, running, domains, pc, pass, owner, thread, terminated,
                 collectors>>

DrainDone ==
  /\ pc = "drain"
  /\ Registered = {}
  /\ pc' = "ended"
  /\ UNCHANGED <<setting, running, domains, pass, table>>

(* getVmInfo or the constructor raises (no process for os.popen): run ends. *)
ConstructorRaises ==
  /\ creating # None
  /\ creating' = None
  /\ pc' = "crashed"
  /\ UNCHANGED <<setting, running, domains, domain_list, spawn_list, created, visit,
                 table>>

-----------------------------------------------------------------------------
(* GuestMonitorThread.run.  A collect that returns leaves nothing behind   *)
(* that this module looks at; without collectors it raises.                *)

ThreadEnds(m) ==
  /\ thread' = [thread EXCEPT ![m] = "dead"]
  /\ UNCHANGED <<setting, running, domains, pc, pass, guests, owner, terminated,
                 collectors>>

MonitorCrash(m) ==
  /\ thread[m] = "alive"
  /\ should_run(m)
  /\ ~collectors[m]
  /\ ThreadEnds(m)

MonitorExit(m) ==
  /\ thread[m] = "alive"
  /\ ~should_run(m)
  /\ ThreadEnds(m)

-----------------------------------------------------------------------------
(* The surroundings: MOM.shutdown or a dead thread, guests starting and    *)
(* stopping.                                                               *)

Shutdown ==
  /\ running
  /\ running' = FALSE
  /\ UNCHANGED <<setting, domains, pc, pass, table>>

(* Bound: a guest that hangs does not come back once it is gone.  Each     *)
(* return would leave one more monitor thread hanging in its collector.    *)
GuestChange(d) ==
  /\ Dynamic
  /\ d \in domains \/ d \notin slow
  /\ domains' = IF d \in domains THEN domains \ {d} ELSE domains \cup {d}
  /\ UNCHANGED <<setting, running, pc, pass, table>>

-----------------------------------------------------------------------------
(* What the manager does when every call returns: a monitor's constructor  *)
(* and a single-threaded collect may wait for a guest for ever.            *)

Unblocked == /\ creating \notin SlowStart
             /\ pc = "collect" => visit \ slow # {} \/ visit = {}

ManagerStep ==
  \/ ListGuests \/ Register \/ CheckMonitors
  \/ CollectDone \/ NextPass \/ EndLoop \/ DrainDone
  \/ \E d \in Domains : BeginCreate(d) \/ CollectFrom(d) \/ PopGuest(d)
  \/ \E m \in Monitors : CreateMonitor(m)

ManagerFailure == ListFails \/ NoInfo \/ ConstructorRaises

MonitorStep(m) == MonitorCrash(m) \/ MonitorExit(m)

Surroundings == Shutdown \/ \E d \in Domains : GuestChange(d)

Next == \/ ManagerStep \/ ManagerFailure
        \/ \E m \in Monitors : MonitorStep(m)
        \/ Surroundings

Spec == Init /\ [][Next]_vars

(***************************************************************************)
(* Both kinds of thread loop for ever, except inside a call that never     *)
(* returns; calls that fail stop failing in the end.                       *)
(***************************************************************************)
LiveNext == \/ ManagerStep
            \/ \E m \in Monitors : MonitorStep(m)
            \/ Surroundings

Fairness ==
  /\ WF_vars(ManagerStep /\ Unblocked)
  /\ \A m \in Monitors : WF_vars(owner[m] \notin slow /\ MonitorStep(m))

LiveSpec == Spec /\ Fairness /\ <>[][LiveNext]_vars

-----------------------------------------------------------------------------
(***************************************************************************)
(* A guest's monitor is the guest's own, was not told to terminate, and    *)
(* guests being spawned are those without a monitor: the inductive         *)
(* invariant behind NoOrphanMonitor.                                       *)
(***************************************************************************)
ManagerInv ==
  /\ \A d \in Registered : /\ owner[guests[d]] = d
                           /\ ~terminated[guests[d]]
                           /\ d \notin spawn_list \cup {creating}
  /\ created # None =>
       /\ creating = None
       /\ owner[created] \in Domains \ (spawn_list \cup Registered)
       /\ ~terminated[created]
  /\ creating # None => creating \notin spawn_list
  /\ pc \notin {"spawn", "crashed"} =>
       spawn_list = {} /\ creating = None /\ created = None
  /\ \A m \in Monitors :
       thread[m] = "alive" /\ ~terminated[m] =>
         \/ m = created
         \/ \E d \in Domains : guests[d] = m
         \/ pc \in {"drain", "ended"}
  /\ pc \in {"drain", "ended"} => ~running

(***************************************************************************)
(* While MOM runs no monitor thread is forgotten: one that has not been    *)
(* told to terminate is in guests (or about to be), so it will be told     *)
(* when its guest goes, whatever guests, threads and passes interleave.    *)
(***************************************************************************)
NoOrphanMonitor ==
  \A m \in Monitors :
    thread[m] = "alive" /\ should_run(m) =>
      m = created \/ \E d \in Domains : guests[d] = m

(***************************************************************************)
(* No guest is sampled by two monitors for longer than it takes a          *)
(* terminated one to notice.                                               *)
(***************************************************************************)
OneMonitorPerGuest ==
  \A m, n \in Monitors :
    /\ thread[m] = "alive" /\ should_run(m)
    /\ thread[n] = "alive" /\ should_run(n)
    /\ owner[m] = owner[n]
    => m = n

(***************************************************************************)
(* An exception has ended the manager's thread, or it waits for a guest    *)
(* that does not answer while its monitor is constructed.                  *)
(***************************************************************************)
ManagerStuck == pc = "crashed" \/ creating \in SlowStart

(***************************************************************************)
(* "When GuestMonitors stop running, they are removed from the list",      *)
(* unless the one thread that removes them is stuck.                       *)
(***************************************************************************)
StoppedMonitorsRemoved ==
  \A d \in Domains, m \in Monitors :
    guests[d] = m /\ thread[m] = "dead" ~> guests[d] # m \/ ManagerStuck

(***************************************************************************)
(* A guest that stays and whose collectors can be loaded gets a monitor    *)
(* and keeps it: in the threaded mode even when the collectors of another  *)
(* guest hang, in the other mode unless a collect hangs or raises.  The    *)
(* "isolation between VMs" of guest-manager-multi-thread (mom-balloon.conf *)
(* line 56) ends where the constructor of a monitor asks its guest.        *)
(***************************************************************************)
Monitorable(d) ==
  /\ running
  /\ d \in domains
  /\ \A m \in Monitors : owner[m] = d => collectors[m]
  /\ ~ManagerStuck
  /\ threaded \/ slow = {}

ActiveGuestsMonitored ==
  \A d \in Domains : <>[]Monitorable(d) => <>[](guests[d] # None)

(***************************************************************************)
(* A guest that stays away loses its monitor, and the monitor's thread     *)
(* ends, unless it hangs in a collector.                                   *)
(***************************************************************************)
DepartedGuestsForgotten ==
  \A d \in Domains :
    <>[](threaded /\ running /\ d \notin domains /\ ~ManagerStuck) =>
      <>[](/\ guests[d] = None
           /\ \A m \in Monitors :
                owner[m] = d /\ d \notin slow => thread[m] # "alive")
=============================================================================
