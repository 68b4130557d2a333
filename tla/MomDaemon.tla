----------------------------- MODULE MomDaemon -----------------------------
(***************************************************************************)
(* momd as a whole: MOM.run starting, watching and stopping its threads    *)
(* (mom/__init__.py), the threads as far as their life and the semaphores  *)
(* they wait for go, the RPC server, and the signals momd catches.         *)
(*                                                                         *)
(* A guest that does not answer (slow) makes the calls about it wait for   *)
(* ever: a collection round of the single-threaded GuestManager, which     *)
(* holds guests_sem, and a balloon command of the PolicyEngine.            *)
(***************************************************************************)
EXTENDS Integers

CONSTANTS Modes,     \* values of guest-manager-multi-thread
          RpcPorts,  \* {TRUE}: rpc-port names a port or socket; FALSE: -1
          Slow       \* {TRUE}: some guest does not answer

ASSUME DaemonAssumption ==
  Modes \subseteq BOOLEAN /\ RpcPorts \subseteq BOOLEAN /\ Slow \subseteq BOOLEAN

VARIABLES
  threaded, port, slow,  \* the configuration and the guests
  running,   \* config '__int__' 'running'
  main,      \* where momd's main thread is
  caught,    \* a signal handler has said "shutting down"
  hm,        \* HostMonitor: "unstarted" when it has no collectors
  gm,        \* GuestManager; "collect" holds guests_sem
  pe,        \* PolicyEngine
  rpc,       \* RPCServer; "request" is a call that needs guests_sem
  server,    \* RPCServer.server is not None
  stopping   \* the server's shutdown() was called

setting == <<threaded, port, slow>>
threads == <<hm, gm, pe, rpc, server>>
vars == <<setting, running, main, caught, threads, stopping>>

TypeOK ==
  /\ threaded \in BOOLEAN /\ port \in BOOLEAN /\ slow \in BOOLEAN
  /\ running \in BOOLEAN
  /\ main \in {"loading", "built", "host", "manager", "engine", "rpc", "loop",
               "stop_rpc", "join_rpc", "join_engine", "join_manager",
               "join_host", "ended"}
  /\ caught \in BOOLEAN
  /\ hm \in {"none", "unstarted", "alive", "dead"}
  /\ gm \in {"none", "top", "pass", "collect", "dead"}
  /\ pe \in {"none", "top", "interrogate", "control", "dead"}
  /\ rpc \in {"none", "start", "serve", "request", "dead"}
  /\ server \in BOOLEAN
  /\ server => port /\ rpc # "start"
  /\ stopping \in BOOLEAN
  /\ stopping => server /\ ~running
  /\ rpc \in {"serve", "request"} => server

Init ==
  /\ threaded \in Modes /\ port \in RpcPorts /\ slow \in Slow
  /\ running = FALSE
  /\ main = "loading"
  /\ caught = FALSE
  /\ hm = "none" /\ gm = "none" /\ pe = "none" /\ rpc = "none"
  /\ server = FALSE
  /\ stopping = FALSE

-----------------------------------------------------------------------------
(* momd.main and MOM.run, up to the main loop.                             *)

Built ==
  /\ main = "loading"
  /\ main' = "built"
  /\ UNCHANGED <<setting, running, caught, threads, stopping>>

(* MOM starting.                                                           *)
RunBegins ==
  /\ main = "built"
  /\ main' = "host"
  /\ running' = TRUE
  /\ UNCHANGED <<setting, caught, threads, stopping>>

(* The constructor of HostMonitor starts the thread if it has collectors.  *)
StartHostMonitor ==
  /\ main = "host"
  /\ main' = "manager"
  /\ hm' \in {"alive", "unstarted"}
  /\ UNCHANGED <<setting, running, caught, gm, pe, rpc, server, stopping>>

(* Without a hypervisor interface MOM shuts down, but starts its threads.  *)
StartGuestManager ==
  /\ main = "manager"
  /\ main' = "engine"
  /\ gm' = "top"
  /\ running' \in {running, FALSE}
  /\ UNCHANGED <<setting, caught, hm, pe, rpc, server, stopping>>

StartPolicyEngine ==
  /\ main = "engine"
  /\ main' = "rpc"
  /\ pe' = "top"
  /\ UNCHANGED <<setting, running, caught, hm, gm, rpc, server, stopping>>

StartRPCServer ==
  /\ main = "rpc"
  /\ main' = "loop"
  /\ rpc' = "start"
  /\ UNCHANGED <<setting, running, caught, hm, gm, pe, server, stopping>>

(* The configuration is refused, or a constructor raises: momd exits.      *)
StartFails ==
  /\ main \in {"loading", "built", "host", "manager", "engine", "rpc"}
  /\ main' = "ended"
  /\ UNCHANGED <<setting, running, caught, threads, stopping>>

-----------------------------------------------------------------------------
(* The main loop and the end of MOM.run.                                   *)

(* Faulty variant: the PolicyEngine is not among the threads checked.      *)
ThreadsOkButEngine == hm = "alive" /\ gm # "dead"

(* _threads_ok; a HostMonitor that was not started is not alive.           *)
ThreadsOk == hm = "alive" /\ gm # "dead" /\ pe # "dead"

(* RPCServer.thread_ok.                                                    *)
RpcOk == ~server \/ rpc # "dead"

Watch ==
  /\ main = "loop"
  /\ running
  /\ running' = (ThreadsOk /\ RpcOk)
  /\ UNCHANGED <<setting, main, caught, threads, stopping>>

LeaveLoop ==
  /\ main = "loop"
  /\ ~running
  /\ main' = "stop_rpc"
  /\ UNCHANGED <<setting, running, caught, threads, stopping>>

(* RPCServer.shutdown.  The shutdown of SimpleXMLRPCServer waits, without  *)
(* a time limit, until serve_forever has returned.                         *)
AskServer ==
  /\ main = "stop_rpc"
  /\ server
  /\ ~stopping
  /\ stopping' = TRUE
  /\ UNCHANGED <<setting, running, main, caught, threads>>

(* Faulty variant: the shutdown does not wait for the server.              *)
ServerLeftBehind ==
  /\ main = "stop_rpc"
  /\ main' = "join_rpc"
  /\ UNCHANGED <<setting, running, caught, threads, stopping>>

ServerStopped ==
  /\ main = "stop_rpc"
  /\ server => stopping /\ rpc = "dead"
  /\ main' = "join_rpc"
  /\ UNCHANGED <<setting, running, caught, threads, stopping>>

(* Faulty variant: join without a time limit.                              *)
JoinForEver(from, thread, to) ==
  /\ main = from
  /\ thread \in {"dead", "unstarted"}
  /\ main' = to
  /\ UNCHANGED <<setting, running, caught, threads, stopping>>

(* _wait_for_thread: the thread has ended, or the time limit has passed.   *)
Join(from, thread, to) ==
  /\ main = from
  /\ main' = to
  /\ UNCHANGED <<setting, running, caught, threads, stopping>>

JoinAll == \/ Join("join_rpc", rpc, "join_engine")
           \/ Join("join_engine", pe, "join_manager")
           \/ Join("join_manager", gm, "join_host")
           \/ Join("join_host", hm, "ended")

-----------------------------------------------------------------------------
(* SIGINT and SIGTERM.  mom_instance is None until MOM is constructed: the *)
(* handler raises and momd exits.  Afterwards it sets running to 0.        *)

Signal ==
  /\ main # "ended"
  /\ ~caught
  /\ caught' = TRUE
  /\ IF main = "loading"
     THEN main' = "ended" /\ UNCHANGED running
     ELSE running' = FALSE /\ UNCHANGED main
  /\ UNCHANGED <<setting, threads, stopping>>

-----------------------------------------------------------------------------
(* The threads.  They are daemon threads: they die with the process.       *)

Alive == main # "ended"

SemaphoreFree == gm # "collect"

HostMonitorEnds ==
  /\ Alive /\ hm = "alive"
  /\ hm' = "dead"
  /\ UNCHANGED <<setting, running, main, caught, gm, pe, rpc, server, stopping>>

(* GuestManager.run: the loop's condition; a pass, at the end of which the *)
(* single-threaded mode collects with guests_sem held; or an exception.    *)
ManagerChecks ==
  /\ Alive /\ gm = "top"
  /\ gm' = IF running THEN "pass" ELSE "dead"
  /\ UNCHANGED <<setting, running, main, caught, hm, pe, rpc, server, stopping>>

ManagerSpawns ==
  /\ Alive /\ gm = "pass"
  /\ gm' = IF threaded THEN "top" ELSE "collect"
  /\ UNCHANGED <<setting, running, main, caught, hm, pe, rpc, server, stopping>>

ManagerReleases ==
  /\ Alive /\ gm = "collect"
  /\ gm' = "top"
  /\ UNCHANGED <<setting, running, main, caught, hm, pe, rpc, server, stopping>>

ManagerCrashes ==
  /\ Alive /\ gm \in {"pass", "collect"}
  /\ gm' = "dead"
  /\ UNCHANGED <<setting, running, main, caught, hm, pe, rpc, server, stopping>>

(* PolicyEngine.run: the loop's condition and the sleep; do_controls waits *)
(* for guests_sem, evaluates and runs the controllers; or an exception.    *)
EngineWakes ==
  /\ Alive /\ pe = "top"
  /\ pe' = IF running THEN "interrogate" ELSE "dead"
  /\ UNCHANGED <<setting, running, main, caught, hm, gm, rpc, server, stopping>>

EngineInterrogates ==
  /\ Alive /\ pe = "interrogate" /\ SemaphoreFree
  /\ pe' = "control"
  /\ UNCHANGED <<setting, running, main, caught, hm, gm, rpc, server, stopping>>

EngineControls ==
  /\ Alive /\ pe = "control"
  /\ pe' = "top"
  /\ UNCHANGED <<setting, running, main, caught, hm, gm, rpc, server, stopping>>

EngineCrashes ==
  /\ Alive /\ pe \in {"top", "interrogate", "control"}
  /\ pe' = "dead"
  /\ UNCHANGED <<setting, running, main, caught, hm, gm, rpc, server, stopping>>

(* RPCServer.run: no server (disabled, or the port is taken), or serving.  *)
CreateServer ==
  /\ Alive /\ rpc = "start"
  /\ \/ rpc' = "dead" /\ UNCHANGED server
     \/ port /\ rpc' = "serve" /\ server' = TRUE
  /\ UNCHANGED <<setting, running, main, caught, hm, gm, pe, stopping>>

(* getStatistics or getActiveGuests; other calls do not wait.              *)
Request ==
  /\ Alive /\ rpc = "serve" /\ ~stopping
  /\ rpc' = "request"
  /\ UNCHANGED <<setting, running, main, caught, hm, gm, pe, server, stopping>>

Answer ==
  /\ Alive /\ rpc = "request" /\ SemaphoreFree
  /\ rpc' = "serve"
  /\ UNCHANGED <<setting, running, main, caught, hm, gm, pe, server, stopping>>

(* serve_forever returns between two requests, or raises.                  *)
ServerEnds ==
  /\ Alive /\ rpc = "serve"
  /\ rpc' = "dead"
  /\ UNCHANGED <<setting, running, main, caught, hm, gm, pe, server, stopping>>

-----------------------------------------------------------------------------
Starting == \/ Built \/ RunBegins \/ StartHostMonitor \/ StartGuestManager
            \/ StartPolicyEngine \/ StartRPCServer

Stopping == LeaveLoop \/ AskServer \/ ServerStopped \/ JoinAll

Threads == \/ HostMonitorEnds
           \/ ManagerChecks \/ ManagerSpawns \/ ManagerReleases
           \/ ManagerCrashes
           \/ EngineWakes \/ EngineInterrogates \/ EngineControls \/ EngineCrashes
           \/ CreateServer \/ Request \/ Answer \/ ServerEnds

Next == Starting \/ StartFails \/ Watch \/ Stopping \/ Signal \/ Threads

(***************************************************************************)
(* Every thread runs, except in a call about a guest that does not answer. *)
(* A thread that waits for guests_sem gets it when it is free again and    *)
(* again.  Once running is 0 the loops end.  No thread needs to fail.      *)
(***************************************************************************)
Fairness ==
  /\ WF_vars(Starting) /\ WF_vars(Watch) /\ WF_vars(Stopping)
  /\ WF_vars(~running /\ HostMonitorEnds)
  /\ WF_vars(ManagerChecks)
  /\ WF_vars(~slow /\ (ManagerSpawns \/ ManagerReleases))
  /\ WF_vars(EngineWakes) /\ SF_vars(EngineInterrogates)
  /\ WF_vars(~slow /\ EngineControls)
  /\ WF_vars(CreateServer) /\ SF_vars(Answer)
  /\ WF_vars(stopping /\ ServerEnds)

Spec == Init /\ [][Next]_vars /\ Fairness

-----------------------------------------------------------------------------
(* The shutdown can wait for a request that waits for a guest only here.   *)
Answering == ~slow \/ ~port \/ threaded

(***************************************************************************)
(* Once MOM starting has set running, clearing it ends momd, whoever does  *)
(* it and at any point of the start: even while threads are blocked by a   *)
(* guest that does not answer, since the joins have time limits.           *)
(***************************************************************************)
StopEnds ==
  Answering => (main \notin {"loading", "built"} /\ ~running ~> main = "ended")

(***************************************************************************)
(* When a thread MOM needs has died or was never started, or the thread of *)
(* an RPC server that was created has died, momd does not run on without   *)
(* it.                                                                     *)
(***************************************************************************)
ThreadDeathEnds ==
  Answering =>
    (/\ main = "loop"
     /\ \/ hm # "alive" \/ gm = "dead" \/ pe = "dead"
        \/ server /\ rpc = "dead"
     ~> main = "ended")

(***************************************************************************)
(* A request accepted while MOM runs is answered, also when MOM is told to *)
(* stop before the request has got guests_sem: RPCServer.shutdown waits.   *)
(***************************************************************************)
RequestsAnswered ==
  Answering => (rpc = "request" /\ running ~> rpc # "request")
=============================================================================
