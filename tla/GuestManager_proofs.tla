------------------------ MODULE GuestManager_proofs ------------------------
(***************************************************************************)
(* Proofs about GuestManager, for any guests, any number of monitors and   *)
(* both modes: the types, that no live monitor is forgotten, and how a     *)
(* monitor leaves the table.                                               *)
(***************************************************************************)
EXTENDS GuestManager, TLAPS

TypedInv == TypeOK /\ ManagerInv

LEMMA ManagerInit == Init => TypedInv
  BY ManagerAssumption DEF Init, TypedInv, TypeOK, ManagerInv, Registered

(***************************************************************************)
(* Every step keeps the types.                                             *)
(***************************************************************************)
LEMMA ManagerTypes == TypeOK /\ [Next]_vars => TypeOK'
<1> SUFFICES ASSUME TypeOK, [Next]_vars PROVE TypeOK'
  OBVIOUS
<1> USE ManagerAssumption DEF TypeOK
<1>1. CASE ListGuests
  BY <1>1 DEF ListGuests, setting, table
<1>2. CASE Register
  BY <1>2 DEF Register, setting
<1>3. CASE CheckMonitors
  BY <1>3 DEF CheckMonitors, Collecting, Registered, setting
<1>4. CASE CollectDone \/ NextPass \/ EndLoop \/ DrainDone \/ ListFails
  BY <1>4 DEF CollectDone, NextPass, EndLoop, DrainDone, ListFails, Collecting,
              Registered, setting, pass, setting, table
<1>5. ASSUME NEW d \in Domains, BeginCreate(d) \/ CollectFrom(d) \/ PopGuest(d)
      PROVE  TypeOK'
  BY <1>5 DEF BeginCreate, CollectFrom, PopGuest, setting, pass, setting, table
<1>6. ASSUME NEW m \in Monitors, CreateMonitor(m) PROVE TypeOK'
  BY <1>6 DEF CreateMonitor, setting
<1>7. CASE NoInfo \/ ConstructorRaises
  BY <1>7 DEF NoInfo, ConstructorRaises, setting, table
<1>8. ASSUME NEW m \in Monitors, MonitorStep(m) PROVE TypeOK'
  BY <1>8 DEF MonitorStep, MonitorCrash, MonitorExit, ThreadEnds, setting, pass
<1>9. CASE Surroundings
  BY <1>9 DEF Surroundings, Shutdown, GuestChange, setting, pass, setting, table
<1>10. CASE UNCHANGED vars
  BY <1>10 DEF vars, setting, pass, setting, table
<1> QED
  BY <1>1, <1>2, <1>3, <1>4, <1>5, <1>6, <1>7, <1>8, <1>9, <1>10
  DEF Next, ManagerStep, ManagerFailure

(***************************************************************************)
(* Every step keeps the relation between guests, monitors and threads.     *)
(***************************************************************************)
LEMMA ManagerNext == TypedInv /\ [Next]_vars => TypedInv'
<1> SUFFICES ASSUME TypedInv, [Next]_vars PROVE ManagerInv'
  BY ManagerTypes DEF TypedInv
<1> USE ManagerAssumption DEF TypedInv, TypeOK, ManagerInv, Registered
<1>1. CASE ListGuests
  BY <1>1 DEF ListGuests, setting, table
<1>2. CASE Register
  BY <1>2 DEF Register, setting
<1>3. CASE CheckMonitors
  <2>1. /\ pc = "spawn"
        /\ pc' \in {"sleep", "collect"}
        /\ spawn_list' = {} /\ creating' = None /\ created' = None
        /\ created = None
        /\ UNCHANGED <<running, owner, thread>>
    BY <1>3 DEF CheckMonitors, Collecting
  <2>2. ASSUME NEW d \in Domains, guests'[d] # None
        PROVE  guests'[d] = guests[d] /\ d \in Registered \ (Dead \cup Gone)
    BY <1>3, <2>2 DEF CheckMonitors
  <2>3. ASSUME NEW d \in Domains, guests'[d] # None
        PROVE  owner'[guests'[d]] = d /\ ~terminated'[guests'[d]]
    <3>1. guests[d] \in Monitors /\ owner[guests[d]] = d /\ ~terminated[guests[d]]
      BY <2>2, <2>3
    <3>2. \A e \in Gone : guests[e] # guests[d]
      BY <3>1, <2>2, <2>3 DEF Gone
    <3>3. terminated'[guests[d]] =
            (terminated[guests[d]] \/ \E e \in Gone : guests[e] = guests[d])
      BY <1>3, <3>1 DEF CheckMonitors
    <3> QED
      BY <3>1, <3>2, <3>3, <2>1, <2>2, <2>3
  <2>4. ASSUME NEW m \in Monitors, thread[m] = "alive", ~terminated'[m]
        PROVE  \E d \in Domains : guests'[d] = m
    <3>1. terminated'[m] = (terminated[m] \/ \E d \in Gone : guests[d] = m)
      BY <1>3 DEF CheckMonitors
    <3>2. PICK d \in Domains : guests[d] = m
      BY <3>1, <2>1, <2>4
    <3>3. d \notin Dead \cup Gone
      BY <3>1, <3>2, <2>4 DEF Dead
    <3> QED
      BY <1>3, <3>2, <3>3 DEF CheckMonitors
  <2> QED
    BY <2>1, <2>3, <2>4
<1>4. CASE CollectDone \/ NextPass \/ EndLoop \/ DrainDone \/ ListFails
  BY <1>4 DEF CollectDone, NextPass, EndLoop, DrainDone, ListFails, Collecting,
              pass, setting, table
<1>5. ASSUME NEW d \in Domains, BeginCreate(d) \/ CollectFrom(d) \/ PopGuest(d)
      PROVE  ManagerInv'
  BY <1>5 DEF BeginCreate, CollectFrom, PopGuest, setting, pass, setting, table
<1>6. ASSUME NEW m \in Monitors, CreateMonitor(m) PROVE ManagerInv'
  BY <1>6 DEF CreateMonitor, InUse
<1>7. CASE NoInfo \/ ConstructorRaises
  BY <1>7 DEF NoInfo, ConstructorRaises, setting, table
<1>8. ASSUME NEW m \in Monitors, MonitorStep(m) PROVE ManagerInv'
  BY <1>8 DEF MonitorStep, MonitorCrash, MonitorExit, ThreadEnds, setting, pass
<1>9. CASE Surroundings
  BY <1>9 DEF Surroundings, Shutdown, GuestChange, setting, pass, setting, table
<1>10. CASE UNCHANGED vars
  BY <1>10 DEF vars, setting, pass, setting, table
<1> QED
  BY <1>1, <1>2, <1>3, <1>4, <1>5, <1>6, <1>7, <1>8, <1>9, <1>10
  DEF Next, ManagerStep, ManagerFailure

(***************************************************************************)
(* The inductive invariant of GuestManager.                                *)
(***************************************************************************)
THEOREM ManagerInvariant == Spec => [](TypeOK /\ ManagerInv)
<1>1. TypedInv /\ [Next]_vars => TypedInv'
  BY ManagerNext
<1> QED
  BY ManagerInit, <1>1, PTL DEF Spec, TypedInv

(***************************************************************************)
(* Every variable of GuestManager keeps its type.                          *)
(***************************************************************************)
THEOREM ManagerTypeCorrect == Spec => []TypeOK
  BY ManagerInvariant, PTL

(***************************************************************************)
(* While MOM runs every live monitor that was not told to terminate is in  *)
(* GuestManager.guests or about to be.                                     *)
(***************************************************************************)
THEOREM ManagerForgetsNoMonitor == Spec => []NoOrphanMonitor
<1>1. TypeOK /\ ManagerInv => NoOrphanMonitor
  BY DEF TypeOK, ManagerInv, NoOrphanMonitor, should_run
<1> QED
  BY ManagerInvariant, <1>1, PTL

(***************************************************************************)
(* Two live monitors that were not told to terminate are of two guests.    *)
(***************************************************************************)
THEOREM ManagerOneMonitorPerGuest == Spec => []OneMonitorPerGuest
<1>1. TypeOK /\ ManagerInv => OneMonitorPerGuest
  <2> SUFFICES ASSUME TypeOK, ManagerInv,
                      NEW m \in Monitors, NEW n \in Monitors,
                      thread[m] = "alive" /\ should_run(m),
                      thread[n] = "alive" /\ should_run(n),
                      owner[m] = owner[n]
               PROVE  m = n
    BY DEF OneMonitorPerGuest
  <2>1. /\ m = created \/ \E d \in Registered : guests[d] = m
        /\ n = created \/ \E d \in Registered : guests[d] = n
    BY ManagerAssumption DEF TypeOK, ManagerInv, should_run, Registered
  <2> QED
    BY <2>1, ManagerAssumption DEF TypeOK, ManagerInv, Registered
<1> QED
  BY ManagerInvariant, <1>1, PTL

-----------------------------------------------------------------------------
(* How a monitor leaves the table.                                         *)

(***************************************************************************)
(* A monitor registered for a guest is never replaced by another one, and  *)
(* it leaves the table only when its thread is dead, when its guest is no  *)
(* longer listed and it is told to terminate in the same step, or when     *)
(* momd stops.                                                             *)
(***************************************************************************)
LeavesOrderly(d) ==
  guests[d] # None /\ guests'[d] # guests[d] =>
    /\ guests'[d] = None
    /\ \/ thread[guests[d]] = "dead"
       \/ d \notin domain_list /\ terminated'[guests[d]]
       \/ ~running

LEMMA LeavesOrderlyStep ==
  ASSUME TypeOK, ManagerInv, [Next]_vars, NEW d \in Domains
  PROVE  LeavesOrderly(d)
<1> USE ManagerAssumption DEF LeavesOrderly
<1>1. CASE Register
  <2>1. created # None /\ created \in Monitors
    BY <1>1 DEF Register, TypeOK
  <2>2. owner[created] \in Domains /\ guests[owner[created]] = None
    BY <2>1 DEF ManagerInv, Registered
  <2>3. d # owner[created] => guests'[d] = guests[d]
    BY <1>1 DEF Register, TypeOK
  <2> QED
    BY <2>2, <2>3
<1>2. CASE CheckMonitors
  <2> SUFFICES ASSUME guests[d] # None, guests'[d] # guests[d]
               PROVE  /\ guests'[d] = None
                      /\ \/ thread[guests[d]] = "dead"
                         \/ d \notin domain_list /\ terminated'[guests[d]]
    OBVIOUS
  <2>1. d \in Dead \cup Gone /\ guests'[d] = None
    BY <1>2 DEF CheckMonitors
  <2>2. CASE d \in Dead
    BY <2>1, <2>2 DEF Dead
  <2>3. CASE d \in Gone
    <3>1. guests[d] \in Monitors /\ d \notin domain_list
      BY <2>3 DEF Gone, Registered, TypeOK
    <3>2. terminated'[guests[d]] = (terminated[guests[d]] \/ \E e \in Gone : guests[e] = guests[d])
      BY <1>2, <3>1 DEF CheckMonitors
    <3> QED
      BY <2>1, <2>3, <3>1, <3>2
  <2> QED
    BY <2>1, <2>2, <2>3
<1>3. ASSUME NEW e \in Domains, PopGuest(e)
      PROVE  LeavesOrderly(d)
  BY <1>3 DEF PopGuest, ManagerInv, TypeOK
<1>4. CASE guests' = guests
  BY <1>4
<1>5. guests' = guests \/ Register \/ CheckMonitors \/ \E e \in Domains : PopGuest(e)
  BY DEF Next, ManagerStep, ManagerFailure, Surroundings, ListGuests, CollectDone, NextPass,
    EndLoop, DrainDone, ListFails, BeginCreate, CollectFrom, CreateMonitor, NoInfo,
    ConstructorRaises, MonitorStep, MonitorCrash, MonitorExit, ThreadEnds, Shutdown,
    GuestChange, vars, table
<1> QED
  BY <1>1, <1>2, <1>3, <1>4, <1>5

(***************************************************************************)
(* The safety side of ActiveGuestsMonitored: the guest of a live monitor   *)
(* loses it only after libvirt has stopped listing the guest, or when momd *)
(* stops.                                                                  *)
(***************************************************************************)
THEOREM MonitorsLeaveOrderly == Spec => [][\A d \in Domains : LeavesOrderly(d)]_vars
<1>1. TypeOK /\ ManagerInv /\ [Next]_vars => [\A d \in Domains : LeavesOrderly(d)]_vars
  BY LeavesOrderlyStep
<1> QED
  BY <1>1, ManagerInvariant, PTL DEF Spec
=============================================================================
