---------------------------- MODULE AgentSession ----------------------------
(***************************************************************************)
(* The collector that reads a guest through its qemu guest agent           *)
(* (mom/Collectors/GuestQemuAgent.py, QemuGuestAgentClient.py), one call of *)
(* Monitor.collect after another.  The channel outlives a connection of    *)
(* the host: requests and answers that nobody waited for stay in it, in    *)
(* order, and each connection drains them with guest-sync.  The agent is   *)
(* external.  connect() tries the libvirt channel first; it never answers, *)
(* since libvirtInterface leaves its connection None.                      *)
(***************************************************************************)
EXTENDS Naturals, Sequences, FiniteSets

CONSTANTS MaxRounds,   \* bound: collections
          MaxRestarts  \* bound: restarts of the guest

ASSUME AgentAssumption == MaxRounds \in Nat /\ MaxRestarts \in Nat

VARIABLES
  round,     \* collections begun; the clock second guest-sync sends
  agent,     \* self.agent is set: one ping was answered
  sock,      \* the client's socket: "none", "open", or "dead" (peer closed)
  synced,    \* guest-sync was answered on this connection (not in the code)
  phase,     \* "idle", "call", "sync" or "answer": what collect is doing
  pc,        \* the call in progress: 0 is the ping, then the six of two files
  fh,        \* the handle getfile holds
  text,      \* what getfile returned for each file
  base,      \* the collection swap_in_cur comes from, 0 for None
  sample,    \* the last result of collect: the span its deltas cover
  requests, answers,         \* the channel, oldest first
  handles, opened, restarts  \* the agent: open files, files ever opened

client == <<round, agent, sock, synced, phase, pc, fh, text, base, sample>>
guest == <<handles, opened, restarts>>
vars == <<client, requests, answers, guest>>

Nothing == [kind |-> "none"]
Error == [kind |-> "error"]
Done == [kind |-> "done"]
Fragment == [kind |-> "fragment"]
Synced(n) == [kind |-> "sync", n |-> n]
Handle(n) == [kind |-> "handle", n |-> n]
Contents(f, n) == [kind |-> "contents", file |-> f, n |-> n]
NoSample == [from |-> 0, to |-> 0, at |-> 0]

Files == {"meminfo", "vmstat"}
FileOf(i) == IF i \in 1 .. 3 THEN "meminfo" ELSE "vmstat"
OpOf(i) == IF i = 0 THEN "ping"
           ELSE CASE i % 3 = 1 -> "open" [] i % 3 = 2 -> "read" [] OTHER -> "close"

TypeOK ==
  /\ round \in 0 .. MaxRounds /\ agent \in BOOLEAN /\ synced \in BOOLEAN
  /\ sock \in {"none", "open", "dead"}
  /\ phase \in {"idle", "call", "sync", "answer"} /\ pc \in 0 .. 6
  /\ base \in 0 .. MaxRounds
  /\ sample \in [from : 0 .. MaxRounds, to : 0 .. MaxRounds, at : 0 .. MaxRounds]
  /\ phase = "sync" => sock # "none" /\ ~synced
  /\ pc > 0 => agent
  /\ opened \in Nat /\ \A h \in handles : h.n \in 1 .. opened /\ h.file \in Files

Init ==
  /\ round = 0 /\ agent = FALSE /\ sock = "none" /\ synced = FALSE
  /\ phase = "idle" /\ pc = 0 /\ fh = Nothing /\ text = [f \in Files |-> Nothing]
  /\ base = 0 /\ sample = NoSample
  /\ requests = <<>> /\ answers = <<>> /\ handles = {} /\ opened = 0 /\ restarts = 0

----------------------------------------------------------------------------
(* The agent (external) answers in order.  A handle it does not know is an error, and *)
(* an open may be refused.                                                 *)
Answer(q) ==
  CASE q.op = "sync" -> {Synced(q.arg)}
    [] q.op = "ping" -> {Done}
    [] q.op = "open" -> {Handle(opened + 1), Error}
    [] OTHER -> {IF \E h \in handles : Handle(h.n) = q.arg
                 THEN IF q.op = "close" THEN Done
                      ELSE Contents((CHOOSE h \in handles : Handle(h.n) = q.arg).file, round)
                 ELSE Error}

Serve ==
  /\ requests # <<>>
  /\ LET q == Head(requests) IN
       \E a \in Answer(q) :
         /\ answers' = Append(answers, a)
         /\ opened' = IF a.kind = "handle" THEN opened + 1 ELSE opened
         /\ handles' =
              CASE a.kind = "handle" -> handles \cup {[n |-> a.n, file |-> q.arg, round |-> q.at]}
                [] q.op = "close" -> {h \in handles : Handle(h.n) # q.arg}
                [] OTHER -> handles
  /\ requests' = Tail(requests)
  /\ UNCHANGED <<client, restarts>>

(* The guest stops and starts: qemu drops the connection and the channel.  *)
Restart ==
  /\ restarts < MaxRestarts
  /\ restarts' = restarts + 1
  /\ sock' = IF sock = "open" THEN "dead" ELSE sock
  /\ requests' = <<>> /\ answers' = <<>> /\ handles' = {}
  /\ UNCHANGED <<round, agent, synced, phase, pc, fh, text, base, sample, opened>>

----------------------------------------------------------------------------
(* Faulty variant: a file that was fetched already is not fetched again.   *)
StartCollectResumes ==
  /\ phase = "idle" /\ round < MaxRounds
  /\ round' = round + 1
  /\ phase' = "call"
  /\ pc' = IF ~agent THEN 0 ELSE IF text["meminfo"] = Nothing THEN 1 ELSE 4
  /\ fh' = Nothing
  /\ UNCHANGED <<agent, sock, synced, text, base, sample, requests, answers, guest>>

(* collect: an agent that answered once is kept for good.                  *)
StartCollect ==
  /\ phase = "idle" /\ round < MaxRounds
  /\ round' = round + 1
  /\ phase' = "call" /\ pc' = IF agent THEN 1 ELSE 0
  /\ fh' = Nothing /\ text' = [f \in Files |-> Nothing]
  /\ UNCHANGED <<agent, sock, synced, base, sample, requests, answers, guest>>

(* The exception ends the collection.  While connect() has no agent yet,   *)
(* the client it made, and its socket, go with it.                         *)
Raise(sk) ==
  /\ phase' = "idle" /\ pc' = IF agent THEN 1 ELSE 0
  /\ sock' = IF agent THEN sk ELSE "none"
  /\ synced' = (synced /\ sock' # "none")
  /\ UNCHANGED <<round, agent, fh, text, base, sample, guest>>

Request(op) ==
  [op |-> op, at |-> round,
   arg |-> CASE op = "sync" -> round [] op = "open" -> FileOf(pc) [] OTHER -> fh]

(* _sock_send of what _call, or _reset_conn, writes.                       *)
Send(op) == requests' = Append(requests, Request(op))

(* What a closed connection leaves in the channel: its socket may have     *)
(* swallowed answers, the last of them in part.                            *)
Left == {SubSeq(answers, i, Len(answers)) : i \in 1 .. Len(answers) + 1}
        \cup {<<Fragment>> \o SubSeq(answers, i, Len(answers)) : i \in 2 .. Len(answers) + 1}

(* _sock_close, sock = None and ProtocolError: a timeout of 2 s, or an     *)
(* error of the socket.                                                    *)
Disconnect ==
  /\ answers' \in Left
  /\ Raise("none")
  /\ UNCHANGED requests

(* _make_connection: a connection begins with guest-sync.                  *)
Connect ==
  /\ phase = "call" /\ sock = "none"
  /\ sock' = "open" /\ synced' = FALSE /\ phase' = "sync"
  /\ Send("sync")
  /\ UNCHANGED <<round, agent, pc, fh, text, base, sample, answers, guest>>

ConnectFails == phase = "call" /\ sock = "none" /\ Disconnect

Call ==
  /\ phase = "call" /\ sock = "open"
  /\ phase' = "answer"
  /\ Send(OpOf(pc))
  /\ UNCHANGED <<round, agent, sock, synced, pc, fh, text, base, sample, answers, guest>>

SendFails == phase = "call" /\ sock = "dead" /\ Disconnect

(* Faulty variant: the timeout is set after guest-sync.                    *)
TimeoutAfterSync == phase = "answer" /\ sock = "open" /\ Disconnect

Timeout == phase \in {"sync", "answer"} /\ sock = "open" /\ Disconnect

(* recv returns '', _sock_recv_until None, and json.loads(None) raises a   *)
(* TypeError that nobody turns into a ProtocolError: the socket is kept.   *)
EndOfFile ==
  /\ phase \in {"sync", "answer"} /\ sock = "dead"
  /\ Raise("dead")
  /\ UNCHANGED <<requests, answers>>

----------------------------------------------------------------------------
Take == answers # <<>> /\ answers' = Tail(answers)

(* Faulty variant: any answer of a guest-sync will do.                     *)
ReadSyncAny ==
  /\ phase = "sync" /\ sock = "open" /\ Take
  /\ LET a == Head(answers) IN
       \/ /\ a = Fragment
          /\ Raise("open") /\ UNCHANGED requests
       \/ /\ a # Fragment /\ a.kind # "sync"
          /\ UNCHANGED <<client, requests, guest>>
       \/ /\ a.kind = "sync"
          /\ synced' = TRUE /\ phase' = "answer" /\ Send(OpOf(pc))
          /\ UNCHANGED <<round, agent, sock, pc, fh, text, base, sample, guest>>

(* _reset_conn: answers are dropped until one returns the number sent.  A  *)
(* part of a line is no JSON: the exception leaves the socket in use.      *)
ReadSync ==
  /\ phase = "sync" /\ sock = "open" /\ Take
  /\ LET a == Head(answers) IN
       \/ /\ a = Fragment
          /\ Raise("open") /\ UNCHANGED requests
       \/ /\ a # Fragment /\ a # Synced(round)
          /\ UNCHANGED <<client, requests, guest>>
       \/ /\ a = Synced(round)
          /\ synced' = TRUE /\ phase' = "answer" /\ Send(OpOf(pc))
          /\ UNCHANGED <<round, agent, sock, pc, fh, text, base, sample, guest>>

(* The rest of collect: /proc/meminfo is parsed first, then the counters,  *)
(* which are kept as the base of the next deltas even when one is missing. *)
Parse(t) ==
  LET ok == t["meminfo"].file = "meminfo" /\ t["vmstat"].file = "vmstat" IN
    /\ base' = IF t["meminfo"].file # "meminfo" THEN base
               ELSE IF t["vmstat"].file # "vmstat" THEN 0 ELSE t["vmstat"].n
    /\ sample' = IF ~ok THEN sample
                 ELSE [from |-> IF base = 0 THEN t["vmstat"].n ELSE base,
                       to |-> t["vmstat"].n, at |-> round]
    /\ phase' = "idle"

(* agent_cmd raises on an error, and json.loads on a part of a line; an    *)
(* answer without buf-b64 raises when it should be the contents of a file. *)
Fails(a) == a \in {Error, Fragment} \/ (OpOf(pc) = "read" /\ a.kind # "contents")

(* Faulty variants: the base of the deltas moves as soon as the counters   *)
(* are read; the first file is not closed.                                 *)
ReadAnswerMovesBase ==
  /\ phase = "answer" /\ sock = "open" /\ Take
  /\ LET a == Head(answers) IN
       \/ Fails(a) /\ Raise("open") /\ UNCHANGED requests
       \/ /\ ~Fails(a)
          /\ agent' = TRUE
          /\ fh' = IF OpOf(pc) = "open" THEN a ELSE fh
          /\ text' = IF OpOf(pc) = "read" THEN [text EXCEPT ![FileOf(pc)] = a] ELSE text
          /\ IF pc = 6 THEN Parse(text) /\ pc' = 1
             ELSE /\ phase' = "call" /\ pc' = pc + 1 /\ sample' = sample
                  /\ base' = IF pc = 5 THEN a.n ELSE base
          /\ UNCHANGED <<round, sock, synced, requests, guest>>

ReadAnswerNoClose ==
  /\ phase = "answer" /\ sock = "open" /\ Take
  /\ LET a == Head(answers) IN
       \/ Fails(a) /\ Raise("open") /\ UNCHANGED requests
       \/ /\ ~Fails(a)
          /\ agent' = TRUE
          /\ fh' = IF OpOf(pc) = "open" THEN a ELSE fh
          /\ text' = IF OpOf(pc) = "read" THEN [text EXCEPT ![FileOf(pc)] = a] ELSE text
          /\ IF pc = 6 THEN Parse(text) /\ pc' = 1
             ELSE phase' = "call" /\ pc' = IF pc = 2 THEN 4 ELSE pc + 1
          /\ (pc # 6 => UNCHANGED <<base, sample>>)
          /\ UNCHANGED <<round, sock, synced, requests, guest>>

(* getfile goes on with any other answer, and reads one chunk: len(ret),   *)
(* the length of a dictionary, is always below 1024.                       *)
ReadAnswer ==
  /\ phase = "answer" /\ sock = "open" /\ Take
  /\ LET a == Head(answers) IN
       \/ Fails(a) /\ Raise("open") /\ UNCHANGED requests
       \/ /\ ~Fails(a)
          /\ agent' = TRUE
          /\ fh' = IF OpOf(pc) = "open" THEN a ELSE fh
          /\ text' = IF OpOf(pc) = "read" THEN [text EXCEPT ![FileOf(pc)] = a] ELSE text
          /\ IF pc = 6 THEN Parse(text) /\ pc' = 1
             ELSE phase' = "call" /\ pc' = pc + 1 /\ UNCHANGED <<base, sample>>
          /\ UNCHANGED <<round, sock, synced, requests, guest>>

ClientStep ==
  \/ Connect \/ ConnectFails \/ Call \/ SendFails
  \/ Timeout \/ EndOfFile \/ ReadSync \/ ReadAnswer

Next == StartCollect \/ ClientStep \/ Serve \/ Restart

(* The monitor thread runs; the agent need never answer.                   *)
Spec == Init /\ [][Next]_vars /\ WF_vars(ClientStep)

----------------------------------------------------------------------------
(* Once guest-sync was answered on a connection, every answer read on it   *)
(* is the answer of the request just sent: the channel holds nothing else. *)
SyncedInStep ==
  synced /\ sock = "open" =>
    Len(requests) + Len(answers) = IF phase = "answer" THEN 1 ELSE 0

AgentInv == TypeOK /\ SyncedInStep

(* Both files of a result were read from the guest during that collection, *)
(* on a connection that is in step.  One that is not mostly fails; three   *)
(* answers behind, it pairs the meminfo of one collection with the vmstat  *)
(* of the next.                                                            *)
SamplesAreFresh ==
  [][sample' # sample /\ synced =>
       sample'.to = round /\ text["meminfo"].n = round]_vars

(* The swap deltas of two results in a row never count any time twice, and *)
(* leave a gap only where a collection out of step has lost the counters,  *)
(* whatever failed in between.                                             *)
DeltasTile ==
  [][/\ sample' # sample /\ sample # NoSample =>
          sample'.from = sample.to \/ (base = 0 /\ sample'.from > sample.to)
     /\ base # 0 /\ base' = 0 => ~synced]_vars

(* A collection on a synchronised connection that succeeds leaves no file  *)
(* of its own open in the guest.                                           *)
SuccessClosesFiles ==
  [][sample' # sample /\ synced => \A h \in handles : h.round # round]_vars

(* A collection ends, with data or without.                                *)
CollectEnds == phase # "idle" ~> phase = "idle"
=============================================================================
