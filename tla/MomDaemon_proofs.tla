------------------------ MODULE MomDaemon_proofs ---------------------------
(***************************************************************************)
(* TypeOK of MomDaemon is inductive: besides the types it says that only a *)
(* configured server exists, that only an existing one serves and is       *)
(* stopped, and that it is stopped only once running has been cleared for  *)
(* good.  The last needs where main is: nothing sets running after the     *)
(* start, and the server is stopped only after the main loop.  From it     *)
(* follow that a stopped server has answered, and that a stop is final.    *)
(***************************************************************************)
EXTENDS MomDaemon, TLAPS

IInv ==
  /\ TypeOK
  /\ stopping => main \in {"stop_rpc", "join_rpc", "join_engine",
                           "join_manager", "join_host", "ended"}
  /\ main = "stop_rpc" => ~running
  /\ main \in {"loading", "built", "host", "manager", "engine", "rpc"} =>
       rpc = "none" /\ ~server

(* Every state of the start satisfies the invariant.                       *)
LEMMA DaemonInitial == Init => IInv
BY DaemonAssumption DEF Init, IInv, TypeOK

(* Every step of momd keeps it.                                            *)
LEMMA DaemonStep == IInv /\ [Next]_vars => IInv'
<1> SUFFICES ASSUME IInv, [Next]_vars PROVE IInv'
  OBVIOUS
<1> USE DEF IInv, TypeOK, setting, threads
<1>1. CASE Built
  BY <1>1 DEF Built
<1>2. CASE RunBegins
  BY <1>2 DEF RunBegins
<1>3. CASE StartHostMonitor
  BY <1>3 DEF StartHostMonitor
<1>4. CASE StartGuestManager
  BY <1>4 DEF StartGuestManager
<1>5. CASE StartPolicyEngine
  BY <1>5 DEF StartPolicyEngine
<1>6. CASE StartRPCServer
  BY <1>6 DEF StartRPCServer
<1>7. CASE StartFails
  BY <1>7 DEF StartFails
<1>8. CASE Watch
  BY <1>8 DEF Watch, ThreadsOk, RpcOk
<1>9. CASE LeaveLoop
  BY <1>9 DEF LeaveLoop
<1>10. CASE AskServer
  BY <1>10 DEF AskServer
<1>11. CASE ServerStopped
  BY <1>11 DEF ServerStopped
<1>12. CASE JoinAll
  BY <1>12 DEF JoinAll, Join
<1>13. CASE Signal
  <2>1. CASE main = "loading"
    BY <1>13, <2>1 DEF Signal
  <2>2. CASE main # "loading"
    <3>1. /\ running' = FALSE /\ caught' = TRUE
          /\ main' = main /\ stopping' = stopping
      BY <1>13, <2>2 DEF Signal
    <3>2. /\ threaded' = threaded /\ port' = port /\ slow' = slow
          /\ hm' = hm /\ gm' = gm /\ pe' = pe /\ rpc' = rpc
          /\ server' = server
      BY <1>13 DEF Signal
    <3>3. ~running' /\ running' \in BOOLEAN /\ caught' \in BOOLEAN
      BY <3>1, Zenon
    <3>4. main' = main /\ stopping' = stopping
      BY <3>1
    <3> QED
      BY <3>2, <3>3, <3>4
  <2> QED
    BY <2>1, <2>2
<1>14. CASE HostMonitorEnds
  BY <1>14 DEF HostMonitorEnds
<1>15. CASE ManagerChecks
  BY <1>15 DEF ManagerChecks
<1>16. CASE ManagerSpawns
  BY <1>16 DEF ManagerSpawns
<1>17. CASE ManagerReleases
  BY <1>17 DEF ManagerReleases
<1>18. CASE ManagerCrashes
  BY <1>18 DEF ManagerCrashes
<1>19. CASE EngineWakes
  BY <1>19 DEF EngineWakes
<1>20. CASE EngineInterrogates
  BY <1>20 DEF EngineInterrogates
<1>21. CASE EngineControls
  BY <1>21 DEF EngineControls
<1>22. CASE EngineCrashes
  BY <1>22 DEF EngineCrashes
<1>23. CASE CreateServer
  <2>1. CASE rpc' = "dead"
    BY <1>23, <2>1 DEF CreateServer, Alive
  <2>2. CASE rpc' = "serve"
    BY <1>23, <2>2 DEF CreateServer, Alive
  <2> QED
    BY <1>23, <2>1, <2>2 DEF CreateServer
<1>24. CASE Request
  BY <1>24 DEF Request
<1>25. CASE Answer
  BY <1>25 DEF Answer
<1>26. CASE ServerEnds
  BY <1>26 DEF ServerEnds
<1>27. CASE UNCHANGED vars
  BY <1>27 DEF vars
<1> QED
  BY <1>1, <1>2, <1>3, <1>4, <1>5, <1>6, <1>7, <1>8, <1>9, <1>10, <1>11, <1>12, <1>13,
     <1>14, <1>15, <1>16, <1>17, <1>18, <1>19, <1>20, <1>21, <1>22, <1>23, <1>24, <1>25, <1>26, <1>27
  DEF Next, Starting, Stopping, Threads

(* The types of every variable, and when momd has, serves and stops an RPC *)
(* server, for every set of configurations.                                *)
THEOREM DaemonTypeCorrect == Spec => []TypeOK
<1>1. IInv => TypeOK
  BY DEF IInv
<1> QED
  BY DaemonInitial, DaemonStep, <1>1, PTL DEF Spec

-----------------------------------------------------------------------------
(* The end of momd.                                                        *)

(***************************************************************************)
(* A server that is asked to stop has ended, with no request under way,    *)
(* before momd goes on to its other threads.                               *)
(***************************************************************************)
StoppedInv == stopping /\ main # "stop_rpc" => rpc = "dead"

LEMMA StoppedStep == IInv /\ StoppedInv /\ [Next]_vars => StoppedInv'
<1> SUFFICES ASSUME IInv, StoppedInv, [Next]_vars PROVE StoppedInv'
  OBVIOUS
<1> USE DEF StoppedInv, IInv, TypeOK, setting, threads
<1>1. CASE Starting \/ StartFails
  BY <1>1 DEF Starting, Built, RunBegins, StartHostMonitor, StartGuestManager,
    StartPolicyEngine, StartRPCServer, StartFails
<1>2. CASE Watch \/ UNCHANGED vars
  BY <1>2 DEF Watch, vars
<1>3. CASE LeaveLoop \/ AskServer
  BY <1>3 DEF LeaveLoop, AskServer
<1>4. CASE ServerStopped
  BY <1>4 DEF ServerStopped
<1>5. CASE JoinAll
  BY <1>5 DEF JoinAll, Join
<1>6. CASE Signal
  BY <1>6 DEF Signal
<1>7. CASE Threads
  BY <1>7 DEF Threads, HostMonitorEnds, ManagerChecks, ManagerSpawns, ManagerReleases,
    ManagerCrashes, EngineWakes, EngineInterrogates, EngineControls, EngineCrashes,
    CreateServer, Request, Answer, ServerEnds
<1> QED
  BY <1>1, <1>2, <1>3, <1>4, <1>5, <1>6, <1>7 DEF Next, Stopping

(***************************************************************************)
(* The safety side of RequestsAnswered: the threads of momd die with the   *)
(* process, but none of them is then in a request that a server momd has   *)
(* stopped had accepted, and none is when the joins begin.                 *)
(***************************************************************************)
THEOREM StoppedServerHasAnswered == Spec => []StoppedInv
<1>1. Init => StoppedInv
  BY DEF Init, StoppedInv
<1> QED
  BY <1>1, DaemonInitial, DaemonStep, StoppedStep, PTL DEF Spec

(***************************************************************************)
(* The safety side of StopEnds: from the message "MOM starting" on,        *)
(* nothing sets running again once a signal, a dead thread or the start    *)
(* itself has cleared it.                                                  *)
(***************************************************************************)
THEOREM StopIsFinal ==
  Spec => [][main \notin {"loading", "built"} /\ ~running
               => ~running' /\ main' \notin {"loading", "built"}]_vars
<1> DEFINE Final == main \notin {"loading", "built"} /\ ~running
                      => ~running' /\ main' \notin {"loading", "built"}
<1>1. ASSUME IInv, [Next]_vars, main \notin {"loading", "built"}, ~running
      PROVE  ~running' /\ main' \notin {"loading", "built"}
  <2> USE <1>1 DEF IInv, TypeOK, setting, threads
  <2>1. CASE Starting \/ StartFails
    <3>1. CASE StartGuestManager
      <4>1. running' = running \/ running' = FALSE
        BY <3>1 DEF StartGuestManager
      <4>2. ~running'
        BY <1>1, <4>1, Zenon
      <4> QED
        BY <3>1, <4>2 DEF StartGuestManager
    <3>2. CASE ~StartGuestManager
      BY <2>1, <3>2 DEF Starting, Built, RunBegins, StartHostMonitor, StartPolicyEngine,
        StartRPCServer, StartFails
    <3> QED
      BY <3>1, <3>2
  <2>2. CASE Watch \/ UNCHANGED vars
    BY <2>2 DEF Watch, vars
  <2>3. CASE Stopping
    BY <2>3 DEF Stopping, LeaveLoop, AskServer, ServerStopped, JoinAll, Join
  <2>4. CASE Signal
    BY <2>4 DEF Signal
  <2>5. CASE Threads
    BY <2>5 DEF Threads, HostMonitorEnds, ManagerChecks, ManagerSpawns, ManagerReleases,
      ManagerCrashes, EngineWakes, EngineInterrogates, EngineControls, EngineCrashes,
      CreateServer, Request, Answer, ServerEnds
  <2> QED
    BY <2>1, <2>2, <2>3, <2>4, <2>5 DEF Next
<1>2. IInv /\ [Next]_vars => [Final]_vars
  BY <1>1
<1> QED
  BY <1>2, DaemonInitial, DaemonStep, PTL DEF Spec
=============================================================================
