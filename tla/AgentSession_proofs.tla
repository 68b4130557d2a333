------------------------ MODULE AgentSession_proofs -------------------------
(***************************************************************************)
(* Proofs that guest-sync brings a connection in step, and of what the     *)
(* results got on such a connection, and on any, are worth, for any number *)
(* of collections and restarts, whatever earlier connections have left in  *)
(* the channel.                                                            *)
(***************************************************************************)
EXTENDS AgentSession, SequenceTheorems, TLAPS

(***************************************************************************)
(* What the channel may hold after the guest-sync of collection r.         *)
(***************************************************************************)
Texts == {Contents(f, n) : f \in Files, n \in 0 .. MaxRounds}

AnswersUpTo(r) ==
  {Error, Done, Fragment} \cup {Synced(n) : n \in 0 .. r}
  \cup {Handle(n) : n \in Nat} \cup Texts

RequestsUpTo(r) ==
  [op : {"sync"}, at : 0 .. MaxRounds, arg : 0 .. r]
  \cup [op : {"open"}, at : 0 .. MaxRounds, arg : Files]
  \cup [op : {"ping", "read", "close"}, at : 0 .. MaxRounds,
        arg : AnswersUpTo(MaxRounds) \cup {Nothing}]

ChannelUpTo(r) == requests \in Seq(RequestsUpTo(r)) /\ answers \in Seq(AnswersUpTo(r))

(***************************************************************************)
(* While a connection waits for its guest-sync, that request, or its       *)
(* answer, is the last thing in the channel.                               *)
(***************************************************************************)
SyncIsLast ==
  phase = "sync" /\ sock = "open" =>
    /\ \A i \in 1 .. Len(requests) :
         requests[i].op = "sync" /\ requests[i].arg = round => i = Len(requests)
    /\ \A i \in 1 .. Len(answers) :
         answers[i] = Synced(round) => i = Len(answers) /\ requests = << >>

SessionTypes ==
  /\ ChannelUpTo(round)
  /\ phase = "call" /\ sock = "none" => ChannelUpTo(round - 1)
  /\ fh \in AnswersUpTo(MaxRounds) \cup {Nothing}
  /\ text \in [Files -> Texts \cup {Nothing}]
  /\ pc >= 3 => text["meminfo"] \in Texts
  /\ pc = 6 => text["vmstat"] \in Texts

SessionInv == AgentInv /\ SessionTypes /\ SyncIsLast

-----------------------------------------------------------------------------
(***************************************************************************)
(* Sequences over a set are sequences over a larger one.                   *)
(***************************************************************************)
LEMMA SeqOverMore ==
  ASSUME NEW S, NEW T, S \subseteq T, NEW s \in Seq(S)
  PROVE  s \in Seq(T)
<1>1. s \in [1 .. Len(s) -> S] /\ Len(s) \in Nat
  OBVIOUS
<1>2. s \in [1 .. Len(s) -> T]
  BY <1>1
<1> QED
  BY <1>1, <1>2, SeqDef

(***************************************************************************)
(* Every answer has one kind, and a guest-sync answer its number.          *)
(***************************************************************************)
LEMMA AnswerKinds ==
  ASSUME NEW r \in Int, NEW a \in AnswersUpTo(r)
  PROVE  /\ a.kind \in {"error", "done", "fragment", "sync", "handle", "contents"}
         /\ a.kind = "sync" => a.n \in 0 .. r /\ a = Synced(a.n)
         /\ a.kind = "handle" => a.n \in Nat
         /\ a.kind = "contents" => a \in Texts
BY DEF AnswersUpTo, Texts, Error, Done, Fragment, Synced, Handle, Contents

(***************************************************************************)
(* The channel of an earlier collection is one of a later one.             *)
(***************************************************************************)
LEMMA ChannelGrows ==
  ASSUME NEW r \in Int, NEW q \in Int, r =< q
  PROVE  /\ AnswersUpTo(r) \subseteq AnswersUpTo(q)
         /\ RequestsUpTo(r) \subseteq RequestsUpTo(q)
<1>1. 0 .. r \subseteq 0 .. q
  OBVIOUS
<1> QED
  BY <1>1 DEF AnswersUpTo, RequestsUpTo

(***************************************************************************)
(* What the agent answers to a request.                                    *)
(***************************************************************************)
LEMMA AnswerOfRequest ==
  ASSUME TypeOK, NEW r \in Int, NEW q \in RequestsUpTo(r), NEW a \in Answer(q)
  PROVE  /\ a \in AnswersUpTo(r)
         /\ q.op = "sync" => a = Synced(q.arg)
         /\ q.op # "sync" => a.kind # "sync"
         /\ a.kind = "handle" => a.n = opened + 1 /\ q.arg \in Files
<1> USE AgentAssumption
<1>1. CASE q.op = "sync"
  BY <1>1 DEF Answer, RequestsUpTo, AnswersUpTo, Synced
<1>2. CASE q.op = "ping"
  BY <1>2 DEF Answer, AnswersUpTo, Done
<1>3. CASE q.op = "open"
  BY <1>3 DEF Answer, RequestsUpTo, AnswersUpTo, Handle, Error, TypeOK
<1>4. CASE q.op \in {"read", "close"}
  <2>1. CASE \E h \in handles : Handle(h.n) = q.arg
    <3> DEFINE h == CHOOSE h \in handles : Handle(h.n) = q.arg
    <3>1. h \in handles
      BY <2>1
    <3>2. h.file \in Files /\ round \in 0 .. MaxRounds
      BY <3>1 DEF TypeOK
    <3>3. a = IF q.op = "close" THEN Done ELSE Contents(h.file, round)
      BY <1>4, <2>1 DEF Answer
    <3> HIDE DEF h
    <3> QED
      BY <1>4, <3>2, <3>3 DEF AnswersUpTo, Texts, Done, Contents
  <2>2. CASE ~ \E h \in handles : Handle(h.n) = q.arg
    BY <1>4, <2>2 DEF Answer, AnswersUpTo, Error
  <2> QED
    BY <2>1, <2>2
<1>5. q.op \in {"sync", "ping", "open", "read", "close"}
  BY DEF RequestsUpTo
<1> QED
  BY <1>1, <1>2, <1>3, <1>4, <1>5

-----------------------------------------------------------------------------
(***************************************************************************)
(* No connection and an empty channel.                                     *)
(***************************************************************************)
LEMMA SessionInit == Init => SessionInv
<1> SUFFICES ASSUME Init PROVE SessionInv
  OBVIOUS
<1> USE AgentAssumption DEF Init
<1>1. TypeOK
  <2>1. round \in 0 .. MaxRounds /\ base \in 0 .. MaxRounds /\ pc \in 0 .. 6 /\ ~(pc > 0)
    OBVIOUS
  <2>2. sample \in [from : 0 .. MaxRounds, to : 0 .. MaxRounds, at : 0 .. MaxRounds]
    BY DEF NoSample
  <2>3. agent \in BOOLEAN /\ synced \in BOOLEAN
    OBVIOUS
  <2> QED
    BY <2>1, <2>2, <2>3 DEF TypeOK
<1>2. SyncedInStep
  BY DEF SyncedInStep
<1>3. SessionTypes
  BY DEF SessionTypes, ChannelUpTo
<1>4. SyncIsLast
  BY DEF SyncIsLast
<1> QED
  BY <1>1, <1>2, <1>3, <1>4 DEF SessionInv, AgentInv

(***************************************************************************)
(* The agent answers the oldest request.                                   *)
(***************************************************************************)
LEMMA ServeKeeps == SessionInv /\ Serve => SessionInv'
<1> SUFFICES ASSUME SessionInv, Serve PROVE SessionInv'
  OBVIOUS
<1> USE AgentAssumption
<1> DEFINE q == Head(requests)
<1>1. PICK a \in Answer(q) :
        /\ answers' = Append(answers, a)
        /\ opened' = IF a.kind = "handle" THEN opened + 1 ELSE opened
        /\ handles' =
             CASE a.kind = "handle" -> handles \cup {[n |-> a.n, file |-> q.arg, round |-> q.at]}
               [] q.op = "close" -> {h \in handles : Handle(h.n) # q.arg}
               [] OTHER -> handles
  BY DEF Serve
<1>2. requests # << >> /\ requests' = Tail(requests) /\ UNCHANGED <<client, restarts>>
  BY DEF Serve
<1>3. TypeOK /\ SyncedInStep /\ SessionTypes /\ SyncIsLast
  BY DEF SessionInv, AgentInv
<1>4. round \in 0 .. MaxRounds /\ opened \in Nat
  BY <1>3 DEF TypeOK
<1>5. ASSUME NEW r \in Int, ChannelUpTo(r)
      PROVE  /\ ChannelUpTo(r)'
             /\ q.op = "sync" => a = Synced(q.arg)
             /\ q.op # "sync" => a.kind # "sync"
             /\ a.kind = "handle" => a.n = opened + 1 /\ q.arg \in Files
  <2>1. q \in RequestsUpTo(r) /\ requests' \in Seq(RequestsUpTo(r))
    BY <1>2, <1>5 DEF ChannelUpTo
  <2>2. /\ a \in AnswersUpTo(r)
        /\ q.op = "sync" => a = Synced(q.arg)
        /\ q.op # "sync" => a.kind # "sync"
        /\ a.kind = "handle" => a.n = opened + 1 /\ q.arg \in Files
    BY <1>3, <2>1, AnswerOfRequest
  <2>3. answers' \in Seq(AnswersUpTo(r))
    BY <1>1, <1>5, <2>2 DEF ChannelUpTo
  <2> QED
    BY <2>1, <2>2, <2>3 DEF ChannelUpTo
<1>6. /\ ChannelUpTo(round)'
      /\ q.op = "sync" => a = Synced(q.arg)
      /\ q.op # "sync" => a.kind # "sync"
      /\ a.kind = "handle" => a.n = opened + 1 /\ q.arg \in Files
  BY <1>2, <1>3, <1>4, <1>5 DEF SessionTypes, client
<1> HIDE DEF q
<1>7. TypeOK'
  <2>1. opened' \in Nat /\ opened' >= opened
    BY <1>1, <1>4
  <2>2. \A h \in handles' : h.n \in 1 .. opened' /\ h.file \in Files
    <3>1. CASE a.kind = "handle"
      BY <1>1, <1>3, <1>4, <1>6, <3>1 DEF TypeOK
    <3>2. CASE a.kind # "handle"
      BY <1>1, <1>3, <1>4, <2>1, <3>2 DEF TypeOK
    <3> QED
      BY <3>1, <3>2
  <2> QED
    BY <1>2, <1>3, <2>1, <2>2 DEF TypeOK, client
<1>8. SyncedInStep'
  <2>1. requests \in Seq(RequestsUpTo(round)) /\ answers \in Seq(AnswersUpTo(round))
    BY <1>3 DEF SessionTypes, ChannelUpTo
  <2>2. Len(requests') + Len(answers') = Len(requests) + Len(answers)
    BY <1>1, <1>2, <2>1
  <2> QED
    BY <1>2, <1>3, <2>2 DEF SyncedInStep, client
<1>9. SessionTypes'
  BY <1>2, <1>3, <1>4, <1>5, <1>6 DEF SessionTypes, client
<1>10. SyncIsLast'
  <2> SUFFICES ASSUME phase = "sync", sock = "open"
               PROVE  SyncIsLast'
    BY <1>2 DEF SyncIsLast, client
  <2>1. requests \in Seq(RequestsUpTo(round)) /\ answers \in Seq(AnswersUpTo(round))
    BY <1>3 DEF SessionTypes, ChannelUpTo
  <2>2. \A i \in 1 .. Len(requests') :
          requests'[i].op = "sync" /\ requests'[i].arg = round => i = Len(requests')
    <3> SUFFICES ASSUME NEW i \in 1 .. Len(requests'),
                        requests'[i].op = "sync", requests'[i].arg = round
                 PROVE  i = Len(requests')
      OBVIOUS
    <3>1. i + 1 \in 1 .. Len(requests) /\ requests'[i] = requests[i + 1]
      BY <1>2, <2>1
    <3> QED
      BY <1>2, <1>3, <2>1, <3>1 DEF SyncIsLast
  <2>3. \A i \in 1 .. Len(answers') :
          answers'[i] = Synced(round) => i = Len(answers') /\ requests' = << >>
    <3> SUFFICES ASSUME NEW i \in 1 .. Len(answers'), answers'[i] = Synced(round)
                 PROVE  i = Len(answers') /\ requests' = << >>
      OBVIOUS
    <3>1. i = Len(answers) + 1
      BY <1>1, <1>2, <1>3, <2>1 DEF SyncIsLast
    <3>2. a = Synced(round)
      BY <1>1, <2>1, <3>1
    <3>3. q.op = "sync" /\ q.arg = round
      BY <1>6, <3>2 DEF Synced
    <3>4. Len(requests) = 1
      <4>1. 1 \in 1 .. Len(requests) /\ requests[1] = q
        BY <1>2, <2>1 DEF q
      <4> QED
        BY <1>3, <3>3, <4>1 DEF SyncIsLast
    <3> QED
      BY <1>1, <1>2, <2>1, <3>1, <3>4
  <2> QED
    BY <1>2, <2>2, <2>3 DEF SyncIsLast, client
<1> QED
  BY <1>7, <1>8, <1>9, <1>10 DEF SessionInv, AgentInv

(***************************************************************************)
(* A restart of the guest empties the channel and ends the connection.     *)
(***************************************************************************)
LEMMA RestartKeeps == SessionInv /\ Restart => SessionInv'
<1> SUFFICES ASSUME SessionInv, Restart PROVE SessionInv'
  OBVIOUS
<1> USE DEF SessionInv, AgentInv, Restart
<1>1. TypeOK'
  BY DEF TypeOK
<1>2. SyncedInStep'
  BY DEF SyncedInStep, TypeOK
<1>3. SessionTypes'
  BY DEF SessionTypes, ChannelUpTo
<1>4. SyncIsLast'
  BY DEF SyncIsLast
<1> QED
  BY <1>1, <1>2, <1>3, <1>4

(***************************************************************************)
(* A new collection makes every guest-sync in the channel an old one.      *)
(***************************************************************************)
LEMMA StartKeeps == SessionInv /\ StartCollect => SessionInv'
<1> SUFFICES ASSUME SessionInv, StartCollect PROVE SessionInv'
  OBVIOUS
<1> USE AgentAssumption DEF SessionInv, AgentInv
<1>0. round \in 0 .. MaxRounds /\ round < MaxRounds /\ round' = round + 1 /\ phase' = "call"
  BY DEF StartCollect, TypeOK
<1>1. TypeOK'
  BY <1>0 DEF StartCollect, TypeOK, guest
<1>2. SyncedInStep'
  BY DEF SyncedInStep, StartCollect
<1>3. SessionTypes'
  <2>1. ChannelUpTo(round) /\ requests' = requests /\ answers' = answers
    BY DEF SessionTypes, StartCollect
  <2>2. ChannelUpTo(round + 1)
    BY <1>0, <2>1, SeqOverMore, ChannelGrows DEF ChannelUpTo
  <2>3. ChannelUpTo(round)' /\ ChannelUpTo(round - 1)'
    <3>1. round' - 1 = round
      BY <1>0
    <3> QED
      BY <1>0, <2>1, <2>2, <3>1 DEF ChannelUpTo
  <2>4. /\ fh' = Nothing /\ text' = [f \in Files |-> Nothing]
        /\ pc' \in {0, 1}
    BY DEF StartCollect
  <2> QED
    BY <2>3, <2>4 DEF SessionTypes
<1>4. SyncIsLast'
  BY <1>0 DEF SyncIsLast
<1> QED
  BY <1>1, <1>2, <1>3, <1>4

-----------------------------------------------------------------------------
(***************************************************************************)
(* A collection that ends with an exception keeps the invariant, if what   *)
(* it leaves in the channel does: an open synchronised connection must be  *)
(* left with an empty one.                                                 *)
(***************************************************************************)
LEMMA RaiseKeeps ==
  ASSUME SessionInv, NEW sk \in {"none", "open", "dead"}, Raise(sk),
         requests' \in Seq(RequestsUpTo(round)), answers' \in Seq(AnswersUpTo(round)),
         sk = "open" /\ synced => Len(requests') + Len(answers') = 0
  PROVE  SessionInv'
<1> USE AgentAssumption DEF SessionInv, AgentInv
<1>0. phase' = "idle" /\ round' = round
  BY DEF Raise
<1>1. TypeOK'
  <2>1. synced' \in BOOLEAN
    BY DEF Raise
  <2>2. sock' \in {"none", "open", "dead"}
    BY DEF Raise
  <2>3. pc' \in 0 .. 6 /\ (pc' > 0 => agent')
    BY DEF Raise
  <2> QED
    BY <1>0, <2>1, <2>2, <2>3 DEF Raise, TypeOK, guest
<1>2. SyncedInStep'
  BY <1>0 DEF Raise, SyncedInStep
<1>3. SessionTypes'
  <2>1. ChannelUpTo(round)'
    BY <1>0 DEF ChannelUpTo
  <2>2. pc' \in {0, 1}
    BY DEF Raise
  <2> QED
    BY <1>0, <2>1, <2>2 DEF Raise, SessionTypes
<1>4. SyncIsLast'
  BY <1>0 DEF SyncIsLast
<1> QED
  BY <1>1, <1>2, <1>3, <1>4

(***************************************************************************)
(* A closed connection leaves a part of the channel, with nothing new but  *)
(* the rest of a line at its head.                                         *)
(***************************************************************************)
LEMMA DisconnectKeeps == SessionInv /\ Disconnect => SessionInv'
<1> SUFFICES ASSUME SessionInv, Disconnect PROVE SessionInv'
  OBVIOUS
<1> DEFINE S == AnswersUpTo(round)
<1>1. requests \in Seq(RequestsUpTo(round)) /\ answers \in Seq(S)
  BY DEF SessionInv, SessionTypes, ChannelUpTo
<1>2. \A k \in 1 .. Len(answers) + 1 : SubSeq(answers, k, Len(answers)) \in Seq(S)
  BY <1>1
<1>3. <<Fragment>> \in Seq(S)
  BY DEF AnswersUpTo
<1>4. \A t \in Seq(S) : <<Fragment>> \o t \in Seq(S)
  BY <1>3
<1>5. \A k \in 2 .. Len(answers) + 1 : k \in 1 .. Len(answers) + 1
  BY <1>1
<1> HIDE DEF S
<1>6. Left \subseteq Seq(S)
  BY <1>2, <1>4, <1>5 DEF Left
<1>7. answers' \in Seq(S) /\ requests' = requests /\ Raise("none")
  BY <1>6 DEF Disconnect
<1> QED
  BY <1>1, <1>7, RaiseKeeps DEF S

(***************************************************************************)
(* A connection begins with the first guest-sync of its collection.        *)
(***************************************************************************)
LEMMA ConnectKeeps == SessionInv /\ Connect => SessionInv'
<1> SUFFICES ASSUME SessionInv, Connect PROVE SessionInv'
  OBVIOUS
<1> USE AgentAssumption DEF SessionInv, AgentInv
<1>0. /\ round \in 0 .. MaxRounds /\ round' = round /\ phase' = "sync" /\ sock' = "open"
      /\ ~synced' /\ answers' = answers /\ requests' = Append(requests, Request("sync"))
      /\ UNCHANGED <<round, agent, pc, fh, text, base, sample, answers, guest>>
  BY DEF Connect, Send, TypeOK
<1>1. requests \in Seq(RequestsUpTo(round - 1)) /\ answers \in Seq(AnswersUpTo(round - 1))
  BY DEF Connect, SessionTypes, ChannelUpTo
<1>2. /\ Request("sync") \in RequestsUpTo(round)
      /\ Request("sync").op = "sync" /\ Request("sync").arg = round
  BY <1>0 DEF Request, RequestsUpTo
<1>3. ChannelUpTo(round)
  BY DEF SessionTypes
<1>4. TypeOK'
  <2>1. synced' \in BOOLEAN
    BY DEF Connect
  <2> QED
    BY <1>0, <2>1 DEF TypeOK, guest
<1>5. SyncedInStep'
  BY <1>0 DEF SyncedInStep
<1>6. SessionTypes'
  <2>1. ChannelUpTo(round)'
    BY <1>0, <1>2, <1>3 DEF ChannelUpTo
  <2> QED
    BY <1>0, <2>1 DEF SessionTypes
<1>7. SyncIsLast'
  <2>1. \A i \in 1 .. Len(requests') :
          requests'[i].op = "sync" /\ requests'[i].arg = round => i = Len(requests')
    <3> SUFFICES ASSUME NEW i \in 1 .. Len(requests'), i # Len(requests'),
                        requests'[i].op = "sync", requests'[i].arg = round
                 PROVE  FALSE
      OBVIOUS
    <3>1. requests'[i] \in RequestsUpTo(round - 1)
      BY <1>0, <1>1
    <3> QED
      BY <1>0, <3>1 DEF RequestsUpTo
  <2>2. \A i \in 1 .. Len(answers') : answers'[i] # Synced(round)
    <3> SUFFICES ASSUME NEW i \in 1 .. Len(answers'), answers'[i] = Synced(round)
                 PROVE  FALSE
      OBVIOUS
    <3>1. answers'[i] \in AnswersUpTo(round - 1)
      BY <1>0, <1>1
    <3> QED
      BY <1>0, <3>1, AnswerKinds DEF Synced
  <2> QED
    BY <1>0, <2>1, <2>2 DEF SyncIsLast
<1> QED
  BY <1>4, <1>5, <1>6, <1>7

(***************************************************************************)
(* The request of a call is one the channel may hold.                      *)
(***************************************************************************)
LEMMA RequestTyped ==
  ASSUME SessionInv
  PROVE  Request(OpOf(pc)) \in RequestsUpTo(round)
<1> USE DEF SessionInv, AgentInv
<1>1. OpOf(pc) \in {"ping", "open", "read", "close"}
  BY DEF OpOf, TypeOK
<1>2. round \in 0 .. MaxRounds /\ fh \in AnswersUpTo(MaxRounds) \cup {Nothing}
  BY DEF TypeOK, SessionTypes
<1>3. FileOf(pc) \in Files
  BY DEF FileOf, Files
<1> HIDE DEF SessionInv, AgentInv
<1>4. CASE OpOf(pc) = "open"
  BY <1>2, <1>3, <1>4 DEF Request, RequestsUpTo
<1>5. CASE OpOf(pc) # "open"
  BY <1>1, <1>2, <1>5 DEF Request, RequestsUpTo
<1> QED
  BY <1>4, <1>5

(***************************************************************************)
(* A call on an open connection.                                           *)
(***************************************************************************)
LEMMA CallKeeps == SessionInv /\ Call => SessionInv'
<1> SUFFICES ASSUME SessionInv, Call PROVE SessionInv'
  OBVIOUS
<1>0. /\ phase' = "answer" /\ requests' = Append(requests, Request(OpOf(pc)))
      /\ phase = "call" /\ sock = "open"
      /\ UNCHANGED <<round, agent, sock, synced, pc, fh, text, base, sample, answers, guest>>
  BY DEF Call, Send
<1>1. Request(OpOf(pc)) \in RequestsUpTo(round)
  BY RequestTyped
<1> USE DEF SessionInv, AgentInv
<1>2. ChannelUpTo(round)
  BY DEF SessionTypes
<1>3. TypeOK'
  BY <1>0 DEF TypeOK, guest
<1>4. SyncedInStep'
  BY <1>0, <1>1, <1>2 DEF SyncedInStep, ChannelUpTo
<1>5. SessionTypes'
  BY <1>0, <1>1, <1>2 DEF SessionTypes, ChannelUpTo
<1>6. SyncIsLast'
  BY <1>0 DEF SyncIsLast
<1> QED
  BY <1>3, <1>4, <1>5, <1>6

(***************************************************************************)
(* guest-sync: when its answer is read, nothing is behind it, so the call  *)
(* that follows is alone in the channel.                                   *)
(***************************************************************************)
LEMMA ReadSyncKeeps == SessionInv /\ ReadSync => SessionInv'
<1> SUFFICES ASSUME SessionInv, ReadSync PROVE SessionInv'
  OBVIOUS
<1> DEFINE a == Head(answers)
<1>0. phase = "sync" /\ sock = "open" /\ answers # << >> /\ answers' = Tail(answers)
  BY DEF ReadSync, Take
<1>1. /\ TypeOK /\ SyncedInStep /\ SessionTypes /\ SyncIsLast
      /\ requests \in Seq(RequestsUpTo(round)) /\ answers \in Seq(AnswersUpTo(round))
  BY DEF SessionInv, AgentInv, SessionTypes, ChannelUpTo
<1>2. answers' \in Seq(AnswersUpTo(round)) /\ ~synced
  BY <1>0, <1>1 DEF TypeOK
<1>3. CASE Raise("open") /\ UNCHANGED requests
  BY <1>1, <1>2, <1>3, RaiseKeeps
<1>4. CASE UNCHANGED <<client, requests, guest>>
  <2>1. SyncIsLast'
    <3> SUFFICES ASSUME NEW i \in 1 .. Len(answers'), answers'[i] = Synced(round)
                 PROVE  i = Len(answers') /\ requests = << >>
      BY <1>1, <1>4 DEF SyncIsLast, client
    <3>1. i + 1 \in 1 .. Len(answers) /\ answers[i + 1] = Synced(round)
      BY <1>0, <1>1
    <3> QED
      BY <1>0, <1>1, <3>1 DEF SyncIsLast
  <2>2. TypeOK'
    BY <1>1, <1>4 DEF TypeOK, client, guest
  <2>3. SyncedInStep'
    BY <1>2, <1>4 DEF SyncedInStep, client
  <2>4. SessionTypes'
    BY <1>0, <1>1, <1>2, <1>4 DEF SessionTypes, ChannelUpTo, client
  <2> QED
    BY <2>1, <2>2, <2>3, <2>4 DEF SessionInv, AgentInv
<1>5. CASE /\ a = Synced(round)
           /\ synced' = TRUE /\ phase' = "answer" /\ Send(OpOf(pc))
           /\ UNCHANGED <<round, agent, sock, pc, fh, text, base, sample, guest>>
  <2>1. requests = << >> /\ Len(answers) = 1
    <3>1. 1 \in 1 .. Len(answers) /\ answers[1] = a
      BY <1>0, <1>1
    <3> QED
      BY <1>0, <1>1, <1>5, <3>1 DEF SyncIsLast
  <2>2. Request(OpOf(pc)) \in RequestsUpTo(round)
    BY RequestTyped
  <2>3. /\ requests' = Append(requests, Request(OpOf(pc)))
        /\ requests' \in Seq(RequestsUpTo(round))
        /\ Len(requests') = 1 /\ Len(answers') = 0
    BY <1>0, <1>1, <1>5, <2>1, <2>2 DEF Send
  <2>4. TypeOK'
    BY <1>1, <1>5 DEF TypeOK, guest
  <2>5. SyncedInStep'
    BY <1>5, <2>3 DEF SyncedInStep
  <2>6. SessionTypes'
    BY <1>1, <1>2, <1>5, <2>3 DEF SessionTypes, ChannelUpTo
  <2>7. SyncIsLast'
    BY <1>5 DEF SyncIsLast
  <2> QED
    BY <2>4, <2>5, <2>6, <2>7 DEF SessionInv, AgentInv
<1> QED
  BY <1>3, <1>4, <1>5 DEF ReadSync

(***************************************************************************)
(* The answer of a call: the contents of a file when it is a read's.       *)
(***************************************************************************)
LEMMA ReadAnswerKeeps == SessionInv /\ ReadAnswer => SessionInv'
<1> SUFFICES ASSUME SessionInv, ReadAnswer PROVE SessionInv'
  OBVIOUS
<1> USE AgentAssumption
<1> DEFINE a == Head(answers)
<1>0. phase = "answer" /\ sock = "open" /\ answers # << >> /\ answers' = Tail(answers)
  BY DEF ReadAnswer, Take
<1>1. /\ TypeOK /\ SyncedInStep /\ SessionTypes /\ SyncIsLast
      /\ requests \in Seq(RequestsUpTo(round)) /\ answers \in Seq(AnswersUpTo(round))
  BY DEF SessionInv, AgentInv, SessionTypes, ChannelUpTo
<1>2. /\ answers' \in Seq(AnswersUpTo(round)) /\ a \in AnswersUpTo(round)
      /\ synced => Len(requests) + Len(answers') = 0
  BY <1>0, <1>1 DEF SyncedInStep
<1>3. CASE Fails(a) /\ Raise("open") /\ UNCHANGED requests
  BY <1>1, <1>2, <1>3, RaiseKeeps
<1>4. CASE /\ ~Fails(a)
           /\ agent' = TRUE
           /\ fh' = IF OpOf(pc) = "open" THEN a ELSE fh
           /\ text' = IF OpOf(pc) = "read" THEN [text EXCEPT ![FileOf(pc)] = a] ELSE text
           /\ IF pc = 6 THEN Parse(text) /\ pc' = 1
              ELSE phase' = "call" /\ pc' = pc + 1 /\ UNCHANGED <<base, sample>>
           /\ UNCHANGED <<round, sock, synced, requests, guest>>
  <2>0. round \in 0 .. MaxRounds /\ pc \in 0 .. 6
    BY <1>1 DEF TypeOK
  <2>1. OpOf(pc) = "read" => a \in Texts
    BY <1>2, <1>4, <2>0, AnswerKinds DEF Fails
  <2>2. fh' \in AnswersUpTo(MaxRounds) \cup {Nothing}
    BY <1>1, <1>2, <1>4, <2>0, ChannelGrows DEF SessionTypes
  <2>3. /\ text' \in [Files -> Texts \cup {Nothing}]
        /\ pc' >= 3 => text'["meminfo"] \in Texts
        /\ pc' = 6 => text'["vmstat"] \in Texts
    <3>1. /\ pc = 2 => OpOf(pc) = "read" /\ FileOf(pc) = "meminfo"
          /\ pc = 5 => OpOf(pc) = "read" /\ FileOf(pc) = "vmstat"
          /\ OpOf(pc) = "read" => pc \in {2, 5}
      BY <2>0 DEF OpOf, FileOf
    <3>2. CASE pc = 2
      BY <1>1, <1>4, <2>1, <3>1, <3>2 DEF SessionTypes, Files
    <3>3. CASE pc = 5
      BY <1>1, <1>4, <2>1, <3>1, <3>3 DEF SessionTypes, Files
    <3>4. CASE pc \notin {2, 5}
      BY <1>1, <1>4, <2>0, <3>1, <3>4 DEF SessionTypes, Files
    <3> QED
      BY <3>2, <3>3, <3>4
  <2>4. phase' \in {"idle", "call"} /\ pc' \in 0 .. 6
    BY <1>4, <2>0 DEF Parse
  <2>5. /\ base' \in 0 .. MaxRounds
        /\ sample' \in [from : 0 .. MaxRounds, to : 0 .. MaxRounds, at : 0 .. MaxRounds]
    <3>1. CASE pc = 6
      <4>1. /\ text["meminfo"] \in Texts /\ text["vmstat"] \in Texts
            /\ base \in 0 .. MaxRounds
        BY <1>1, <3>1 DEF SessionTypes, TypeOK
      <4>2. text["vmstat"].n \in 0 .. MaxRounds
        BY <4>1 DEF Texts, Contents
      <4> QED
        BY <1>1, <1>4, <2>0, <3>1, <4>1, <4>2 DEF Parse, TypeOK
    <3>2. CASE pc # 6
      BY <1>1, <1>4, <3>2 DEF TypeOK
    <3> QED
      BY <3>1, <3>2
  <2>6. TypeOK'
    BY <1>1, <1>4, <2>4, <2>5 DEF TypeOK, guest
  <2>7. SyncedInStep'
    BY <1>2, <1>4, <2>4 DEF SyncedInStep
  <2>8. SessionTypes'
    BY <1>0, <1>1, <1>2, <1>4, <2>2, <2>3 DEF SessionTypes, ChannelUpTo
  <2>9. SyncIsLast'
    BY <2>4 DEF SyncIsLast
  <2> QED
    BY <2>6, <2>7, <2>8, <2>9 DEF SessionInv, AgentInv
<1> QED
  BY <1>3, <1>4 DEF ReadAnswer

-----------------------------------------------------------------------------
(***************************************************************************)
(* Every step keeps the invariant.                                         *)
(***************************************************************************)
LEMMA SessionNext == SessionInv /\ [Next]_vars => SessionInv'
<1> SUFFICES ASSUME SessionInv, [Next]_vars PROVE SessionInv'
  OBVIOUS
<1>1. CASE StartCollect
  BY <1>1, StartKeeps
<1>2. CASE Serve \/ Restart
  BY <1>2, ServeKeeps, RestartKeeps
<1>3. CASE ConnectFails \/ SendFails \/ Timeout
  BY <1>3, DisconnectKeeps DEF ConnectFails, SendFails, Timeout
<1>4. CASE Connect \/ Call
  BY <1>4, ConnectKeeps, CallKeeps
<1>5. CASE EndOfFile
  <2>1. requests \in Seq(RequestsUpTo(round)) /\ answers \in Seq(AnswersUpTo(round))
    BY DEF SessionInv, SessionTypes, ChannelUpTo
  <2> QED
    BY <1>5, <2>1, RaiseKeeps DEF EndOfFile
<1>6. CASE ReadSync \/ ReadAnswer
  BY <1>6, ReadSyncKeeps, ReadAnswerKeeps
<1>7. CASE UNCHANGED vars
  BY <1>7 DEF vars, client, guest, SessionInv, AgentInv, TypeOK, SyncedInStep,
    SessionTypes, ChannelUpTo, SyncIsLast
<1> QED
  BY <1>1, <1>2, <1>3, <1>4, <1>5, <1>6, <1>7 DEF Next, ClientStep

(***************************************************************************)
(* Once guest-sync was answered, a connection is in step: the channel      *)
(* holds the request of the call in progress, or its answer, and nothing   *)
(* else, whatever timeouts, closed sockets and restarts came before.       *)
(***************************************************************************)
THEOREM SyncKeepsInStep == Spec => []AgentInv
<1>1. SessionInv => AgentInv
  BY DEF SessionInv
<1> QED
  BY <1>1, SessionInit, SessionNext, PTL DEF Spec
-----------------------------------------------------------------------------
(***************************************************************************)
(* Which files the agent holds open.  Every handle has its own number, and *)
(* none was opened for the collection in progress before its first open.   *)
(***************************************************************************)
Untouched ==
  /\ \A h \in handles : h.round < round
  /\ \A i \in 1 .. Len(requests) : requests[i].op = "open" => requests[i].at < round

HandlesInv ==
  /\ \A g \in handles, h \in handles : g.n = h.n => g = h
  /\ \A h \in handles : h.round \in 0 .. round
  /\ \A i \in 1 .. Len(requests) : requests[i].at \in 0 .. round
  /\ phase # "idle" => round > 0
  /\ phase = "sync" \/ (phase = "call" /\ sock = "none") => pc \in {0, 1}
  /\ phase # "idle" /\ (pc = 0 \/ (pc = 1 /\ phase # "answer")) => Untouched

NoneOpen == \A g \in handles : g.round # round

OnlyOpen(a) ==
  \E h \in handles :
    /\ a = Handle(h.n) /\ h.file = FileOf(pc)
    /\ \A g \in handles : g.round = round => g = h

(***************************************************************************)
(* A synchronised connection is in step with the agent call by call: what  *)
(* the channel holds is the request of the call in progress, or its        *)
(* answer, and the texts read so far are those of this collection.         *)
(***************************************************************************)
InStep ==
  synced /\ sock = "open" /\ phase \in {"call", "answer"} =>
    /\ requests # << >> => requests[1] = Request(OpOf(pc))
    /\ answers = << >> =>
         IF OpOf(pc) \in {"ping", "open"} THEN NoneOpen ELSE OnlyOpen(fh)
    /\ answers # << >> =>
         \/ OpOf(pc) \in {"ping", "close"} /\ NoneOpen
         \/ OpOf(pc) = "open" /\ (answers[1] = Error \/ OnlyOpen(answers[1]))
         \/ OpOf(pc) = "read" /\ OnlyOpen(fh) /\ answers[1] = Contents(FileOf(pc), round)
    /\ pc >= 3 => text["meminfo"] = Contents("meminfo", round)
    /\ pc = 6 => text["vmstat"] = Contents("vmstat", round)

(***************************************************************************)
(* On any connection, contents are answered in the order of time, after    *)
(* everything that was read before.                                        *)
(***************************************************************************)
AtLeast(k) ==
  \A i \in 1 .. Len(answers) : answers[i].kind = "contents" => answers[i].n >= k

InOrder ==
  /\ \A i \in 1 .. Len(answers), j \in 1 .. Len(answers) :
       i < j /\ answers[i].kind = "contents" /\ answers[j].kind = "contents" =>
         answers[i].n =< answers[j].n
  /\ \A i \in 1 .. Len(answers) : answers[i].kind = "contents" => answers[i].n =< round
  /\ AtLeast(sample.to) /\ sample.to =< round
  /\ text["vmstat"] # Nothing =>
       /\ AtLeast(text["vmstat"].n)
       /\ sample.to =< text["vmstat"].n /\ text["vmstat"].n =< round
  /\ base # 0 => base = sample.to

ResultInv == SessionInv /\ HandlesInv /\ InStep /\ InOrder

(***************************************************************************)
(* The calls of a collection, in order.                                    *)
(***************************************************************************)
LEMMA CallsInOrder ==
  ASSUME NEW i \in 0 .. 6
  PROVE  /\ OpOf(i) \in {"ping", "open", "read", "close"}
         /\ OpOf(i) = "ping" <=> i = 0
         /\ OpOf(i) = "open" <=> i \in {1, 4}
         /\ OpOf(i) = "read" <=> i \in {2, 5}
         /\ OpOf(i) = "close" <=> i \in {3, 6}
         /\ FileOf(i) \in Files
         /\ i \in {1, 2, 3} <=> FileOf(i) = "meminfo"
         /\ i \in {0, 4, 5, 6} <=> FileOf(i) = "vmstat"
<1>1. i \in {0, 1, 2, 3, 4, 5, 6}
  OBVIOUS
<1> QED
  BY <1>1 DEF OpOf, FileOf, Files

(***************************************************************************)
(* Files are opened for a collection by its own requests.                  *)
(***************************************************************************)
LEMMA HandlesStart == Init => HandlesInv
BY DEF Init, HandlesInv

LEMMA HandlesServe == SessionInv /\ HandlesInv /\ Serve => HandlesInv'
<1> SUFFICES ASSUME SessionInv, HandlesInv, Serve PROVE HandlesInv'
  OBVIOUS
<1> DEFINE q == Head(requests)
<1>1. PICK a \in Answer(q) :
        /\ opened' = IF a.kind = "handle" THEN opened + 1 ELSE opened
        /\ handles' =
             CASE a.kind = "handle" -> handles \cup {[n |-> a.n, file |-> q.arg, round |-> q.at]}
               [] q.op = "close" -> {h \in handles : Handle(h.n) # q.arg}
               [] OTHER -> handles
  BY DEF Serve
<1>2. /\ requests # << >> /\ requests' = Tail(requests)
      /\ UNCHANGED <<round, phase, pc, sock>>
  BY DEF Serve, client
<1>3. TypeOK /\ requests \in Seq(RequestsUpTo(round)) /\ round \in Nat /\ opened \in Nat
  BY AgentAssumption DEF SessionInv, AgentInv, SessionTypes, ChannelUpTo, TypeOK
<1>4. q \in RequestsUpTo(round) /\ q = requests[1] /\ 1 \in 1 .. Len(requests)
  BY <1>2, <1>3
<1>5. a.kind = "handle" => a.n = opened + 1 /\ q.op = "open"
  <2>1. a.kind = "handle" => a.n = opened + 1 /\ q.arg \in Files
    BY <1>3, <1>4, AnswerOfRequest
  <2>2. a.kind = "handle" => q.op = "open"
    BY DEF Answer, Synced, Done, Contents, Error
  <2> QED
    BY <2>1, <2>2
<1>6. q.at \in 0 .. round
  BY <1>4 DEF HandlesInv
<1>7. \A i \in 1 .. Len(requests') :
        i + 1 \in 1 .. Len(requests) /\ requests'[i] = requests[i + 1]
  BY <1>2, <1>3
<1>8. \A h \in handles' :
        h \in handles \/ (a.kind = "handle" /\ h = [n |-> a.n, file |-> q.arg, round |-> q.at])
  BY <1>1
<1> HIDE DEF q
<1>9. \A h \in handles : h.n < opened + 1
  BY <1>3 DEF TypeOK
<1>10. \A g \in handles', h \in handles' : g.n = h.n => g = h
  <2> DEFINE new == [n |-> a.n, file |-> q.arg, round |-> q.at]
  <2>1. \A h \in handles' : h \in handles \/ (a.kind = "handle" /\ h = new)
    BY <1>8
  <2>2. a.kind = "handle" => new.n = opened + 1
    BY <1>5
  <2>3. \A h \in handles : a.kind = "handle" => h.n # new.n
    BY <1>3, <1>9, <2>2 DEF TypeOK
  <2> HIDE DEF new
  <2> QED
    BY <2>1, <2>3 DEF HandlesInv
<1>11. \A h \in handles' : h.round \in 0 .. round
  BY <1>6, <1>8 DEF HandlesInv
<1>12. \A i \in 1 .. Len(requests') : requests'[i].at \in 0 .. round
  BY <1>7 DEF HandlesInv
<1>13. ASSUME Untouched PROVE Untouched'
  BY <1>2, <1>4, <1>5, <1>7, <1>8, <1>13 DEF Untouched
<1> QED
  BY <1>2, <1>10, <1>11, <1>12, <1>13 DEF HandlesInv

LEMMA HandlesNext == SessionInv /\ HandlesInv /\ [Next]_vars => HandlesInv'
<1> SUFFICES ASSUME SessionInv, HandlesInv, [Next]_vars PROVE HandlesInv'
  OBVIOUS
<1>0. /\ TypeOK /\ requests \in Seq(RequestsUpTo(round)) /\ round \in Nat
      /\ opened \in Nat /\ pc \in 0 .. 6
  BY AgentAssumption DEF SessionInv, AgentInv, SessionTypes, ChannelUpTo, TypeOK
<1>1. CASE Serve
  BY <1>1, HandlesServe
<1>2. CASE Restart
  BY <1>2 DEF Restart, HandlesInv, Untouched
<1>3. CASE StartCollect
  <2>1. /\ round' = round + 1 /\ pc' \in {0, 1} /\ requests' = requests /\ handles' = handles
        /\ phase' # "idle"
    BY <1>3 DEF StartCollect, guest
  <2>2. Untouched'
    BY <1>0, <2>1 DEF HandlesInv, Untouched
  <2> QED
    BY <1>0, <2>1, <2>2 DEF HandlesInv
<1>4. ASSUME NEW sk, Raise(sk), requests' = requests PROVE HandlesInv'
  BY <1>4 DEF Raise, HandlesInv, guest
<1>5. ASSUME NEW op \in {"sync", OpOf(pc)}, Send(op), UNCHANGED <<round, pc, handles>>,
             phase \in {"call", "sync"},
             phase' = "sync" => op = "sync" /\ phase = "call" /\ sock = "none",
             phase' \in {"sync", "answer"}
      PROVE  HandlesInv'
  <2>1. requests' = Append(requests, Request(op)) /\ Request(op).at = round /\ Request(op).op = op
    BY <1>5 DEF Send, Request
  <2>2. \A i \in 1 .. Len(requests') :
          (i \in 1 .. Len(requests) /\ requests'[i] = requests[i]) \/ requests'[i] = Request(op)
    BY <1>0, <2>1
  <2>3. \A i \in 1 .. Len(requests') : requests'[i].at \in 0 .. round
    BY <1>0, <2>1, <2>2 DEF HandlesInv
  <2>4. op # "open" /\ Untouched => Untouched'
    BY <1>5, <2>1, <2>2 DEF Untouched
  <2>5. pc = 0 => op # "open"
    BY <1>5, CallsInOrder
  <2>6. phase' = "sync" => pc \in {0, 1}
    BY <1>5 DEF HandlesInv
  <2>7. (pc = 0 \/ (pc = 1 /\ phase' # "answer")) => Untouched'
    <3>1. CASE pc = 0
      BY <1>5, <2>4, <2>5, <3>1 DEF HandlesInv
    <3>2. CASE pc = 1 /\ phase' # "answer"
      BY <1>5, <2>4, <3>2 DEF HandlesInv
    <3> QED
      BY <3>1, <3>2
  <2> QED
    BY <1>5, <2>3, <2>6, <2>7 DEF HandlesInv
<1>6. CASE ConnectFails \/ SendFails \/ Timeout \/ EndOfFile
  BY <1>4, <1>6 DEF ConnectFails, SendFails, Timeout, EndOfFile, Disconnect
<1>7. CASE Connect \/ Call
  BY <1>5, <1>7 DEF Connect, Call, guest
<1>8. CASE ReadSync
  <2>1. CASE Raise("open") /\ UNCHANGED requests
    BY <1>4, <2>1
  <2>2. CASE UNCHANGED <<client, requests, guest>>
    BY <2>2 DEF client, guest, HandlesInv, Untouched
  <2>3. CASE phase' = "answer" /\ Send(OpOf(pc)) /\ UNCHANGED <<round, pc, guest>>
    BY <1>5, <1>8, <2>3 DEF ReadSync, guest
  <2> QED
    BY <1>8, <2>1, <2>2, <2>3 DEF ReadSync
<1>9. CASE ReadAnswer
  <2> DEFINE a == Head(answers)
  <2>1. CASE Fails(a) /\ Raise("open") /\ UNCHANGED requests
    BY <1>4, <2>1
  <2>2. CASE /\ IF pc = 6 THEN Parse(text) /\ pc' = 1 ELSE phase' = "call" /\ pc' = pc + 1
             /\ UNCHANGED <<round, sock, requests, guest>>
    <3>1. phase = "answer" /\ sock = "open"
      BY <1>9 DEF ReadAnswer
    <3>2. CASE pc = 6
      BY <2>2, <3>2 DEF Parse, HandlesInv, guest
    <3>3. CASE pc = 0
      BY <2>2, <3>1, <3>3 DEF HandlesInv, Untouched, guest
    <3>4. CASE pc \in 1 .. 5
      BY <2>2, <3>1, <3>4 DEF HandlesInv, guest
    <3> QED
      BY <1>0, <3>2, <3>3, <3>4
  <2> QED
    BY <1>9, <2>1, <2>2 DEF ReadAnswer
<1>10. CASE UNCHANGED vars
  BY <1>10 DEF vars, client, guest, HandlesInv, Untouched
<1> QED
  BY <1>1, <1>2, <1>3, <1>6, <1>7, <1>8, <1>9, <1>10 DEF Next, ClientStep
-----------------------------------------------------------------------------
(***************************************************************************)
(* A part of the answers, from some place on, is in order like the whole.  *)
(***************************************************************************)
PartFrom(k) ==
  /\ Len(answers') \in Nat
  /\ \A i \in 1 .. Len(answers') :
       answers'[i] = Fragment \/ (i + k \in 1 .. Len(answers) /\ answers'[i] = answers[i + k])

LEMMA PartInOrder ==
  ASSUME SessionInv, InOrder, NEW k \in Int, PartFrom(k),
         round' \in {round, round + 1}, UNCHANGED <<base, sample>>,
         text' = text \/ text'["vmstat"] = Nothing
  PROVE  InOrder'
<1>0. /\ round \in Int /\ sample.to \in Int
      /\ text["vmstat"] # Nothing => text["vmstat"].n \in Int
      /\ \A i \in 1 .. Len(answers) : answers[i].kind = "contents" => answers[i].n \in Int
  <2>1. /\ TypeOK /\ answers \in Seq(AnswersUpTo(round)) /\ round \in Int
        /\ text \in [Files -> Texts \cup {Nothing}]
    BY AgentAssumption DEF SessionInv, AgentInv, SessionTypes, ChannelUpTo, TypeOK
  <2>2. \A t \in Texts : t.n \in Int
    BY AgentAssumption DEF Texts, Contents
  <2>3. \A i \in 1 .. Len(answers) : answers[i].kind = "contents" => answers[i].n \in Int
    BY <2>1, <2>2, AnswerKinds
  <2>4. text["vmstat"] # Nothing => text["vmstat"].n \in Int
    BY <2>1, <2>2 DEF Files
  <2> QED
    BY <2>1, <2>3, <2>4, AgentAssumption DEF TypeOK
<1>1. \A i \in 1 .. Len(answers') : answers'[i].kind = "contents" =>
        i + k \in 1 .. Len(answers) /\ answers'[i] = answers[i + k]
  BY DEF Fragment, PartFrom
<1>2. Len(answers') \in Nat
  BY DEF PartFrom
<1>3. \A n : AtLeast(n) =>
        \A i \in 1 .. Len(answers') : answers'[i].kind = "contents" => answers'[i].n >= n
  BY <1>1 DEF AtLeast
<1>4. \A i \in 1 .. Len(answers'), j \in 1 .. Len(answers') :
        i < j /\ answers'[i].kind = "contents" /\ answers'[j].kind = "contents" =>
          answers'[i].n =< answers'[j].n
  BY <1>1, <1>2 DEF InOrder
<1>5. \A i \in 1 .. Len(answers') :
        answers'[i].kind = "contents" => answers'[i].n =< round'
  BY <1>0, <1>1 DEF InOrder
<1>6. AtLeast(sample.to)' /\ sample.to' =< round'
  BY <1>0, <1>3 DEF InOrder, AtLeast
<1>7. text'["vmstat"] # Nothing =>
        /\ AtLeast(text["vmstat"].n)'
        /\ sample'.to =< text'["vmstat"].n /\ text'["vmstat"].n =< round'
  BY <1>0, <1>3 DEF InOrder, AtLeast
<1> QED
  BY <1>4, <1>5, <1>6, <1>7 DEF InOrder

(***************************************************************************)
(* What a closed connection leaves is such a part.                         *)
(***************************************************************************)
LEMMA LeftIsPart ==
  ASSUME NEW S, answers \in Seq(S), answers' \in Left
  PROVE  \E k \in Int : PartFrom(k)
<1>0. Len(answers) \in Nat
  OBVIOUS
<1>1. ASSUME NEW b \in 1 .. Len(answers) + 1, answers' = SubSeq(answers, b, Len(answers))
      PROVE  b - 1 \in Int /\ PartFrom(b - 1)
  <2>1. /\ Len(answers') \in Nat
        /\ \A i \in 1 .. Len(answers') :
             i + (b - 1) \in 1 .. Len(answers) /\ answers'[i] = answers[i + (b - 1)]
    BY <1>0, <1>1
  <2> QED
    BY <1>0, <2>1 DEF PartFrom
<1>2. ASSUME NEW b \in 2 .. Len(answers) + 1,
             answers' = <<Fragment>> \o SubSeq(answers, b, Len(answers))
      PROVE  b - 2 \in Int /\ PartFrom(b - 2)
  <2> DEFINE t == SubSeq(answers, b, Len(answers))
  <2>1. /\ t \in Seq(S) /\ Len(t) = Len(answers) - b + 1
        /\ \A i \in 1 .. Len(t) : t[i] = answers[i + b - 1]
    BY <1>0
  <2> HIDE DEF t
  <2>2. /\ Len(answers') = Len(t) + 1
        /\ \A i \in 1 .. Len(answers') : answers'[i] = IF i = 1 THEN Fragment ELSE t[i - 1]
    <3>1. <<Fragment>> \in Seq({Fragment}) /\ Len(<<Fragment>>) = 1
      OBVIOUS
    <3>2. answers' = <<Fragment>> \o t
      BY <1>2 DEF t
    <3> QED
      BY <2>1, <3>1, <3>2
  <2>3. Len(t) \in Nat /\ Len(answers') \in Nat
    BY <2>1, <2>2
  <2>4. ASSUME NEW i \in 1 .. Len(answers'), i # 1
        PROVE  i + (b - 2) \in 1 .. Len(answers) /\ answers'[i] = answers[i + (b - 2)]
    <3>1. i - 1 \in 1 .. Len(t) /\ i - 1 + b - 1 = i + (b - 2)
      BY <2>2, <2>3, <2>4
    <3>2. answers'[i] = answers[i + (b - 2)]
      BY <2>1, <2>2, <2>4, <3>1
    <3> QED
      BY <1>0, <2>1, <3>1, <3>2
  <2>5. \A i \in 1 .. Len(answers') : i = 1 => answers'[i] = Fragment
    BY <2>2
  <2> QED
    BY <1>0, <2>3, <2>4, <2>5 DEF PartFrom
<1>3. \/ \E b \in 1 .. Len(answers) + 1 : answers' = SubSeq(answers, b, Len(answers))
      \/ \E b \in 2 .. Len(answers) + 1 :
           answers' = <<Fragment>> \o SubSeq(answers, b, Len(answers))
  BY DEF Left
<1> QED
  BY <1>1, <1>2, <1>3

(***************************************************************************)
(* Contents are answered, read and counted in the order of time.           *)
(***************************************************************************)
LEMMA InOrderStart == Init => InOrder
BY DEF Init, InOrder, AtLeast, NoSample, Files

LEMMA InOrderServe == SessionInv /\ InOrder /\ Serve => InOrder'
<1> SUFFICES ASSUME SessionInv, InOrder, Serve PROVE InOrder'
  OBVIOUS
<1>1. PICK a \in Answer(Head(requests)) : answers' = Append(answers, a)
  BY DEF Serve
<1>2. UNCHANGED <<round, text, base, sample>>
  BY DEF Serve, client
<1>3. answers \in Seq(AnswersUpTo(round)) /\ round \in Int
  BY AgentAssumption DEF SessionInv, AgentInv, TypeOK, SessionTypes, ChannelUpTo
<1>4. a.kind = "contents" => a.n = round
  BY DEF Answer, Synced, Done, Handle, Error, Contents
<1>5. \A i \in 1 .. Len(answers') :
        \/ i \in 1 .. Len(answers) /\ answers'[i] = answers[i]
        \/ i = Len(answers) + 1 /\ answers'[i] = a
  BY <1>1, <1>3
<1>6. Len(answers) \in Nat
  BY <1>3
<1>7. \A n \in Int : AtLeast(n) /\ n =< round => AtLeast(n)'
  BY <1>3, <1>4, <1>5 DEF AtLeast
<1>8. sample.to \in Int /\ (text["vmstat"] # Nothing => text["vmstat"].n \in Int)
  <2>1. \A t \in Texts : t.n \in Int
    BY AgentAssumption DEF Texts, Contents
  <2>2. text["vmstat"] \in Texts \cup {Nothing}
    BY DEF SessionInv, SessionTypes, Files
  <2>3. sample.to \in Int
    BY AgentAssumption DEF SessionInv, AgentInv, TypeOK
  <2> QED
    BY <2>1, <2>2, <2>3
<1>9. \A i \in 1 .. Len(answers'), j \in 1 .. Len(answers') :
        i < j /\ answers'[i].kind = "contents" /\ answers'[j].kind = "contents" =>
          answers'[i].n =< answers'[j].n
  BY <1>4, <1>5, <1>6 DEF InOrder
<1>10. \A i \in 1 .. Len(answers') : answers'[i].kind = "contents" => answers'[i].n =< round
  BY <1>3, <1>4, <1>5 DEF InOrder
<1> QED
  BY <1>2, <1>7, <1>8, <1>9, <1>10 DEF InOrder

LEMMA InOrderReadAnswer == SessionInv /\ InOrder /\ ReadAnswer => InOrder'
<1> SUFFICES ASSUME SessionInv, InOrder, ReadAnswer PROVE InOrder'
  OBVIOUS
<1> DEFINE a == Head(answers)
<1>0. /\ TypeOK /\ SessionTypes /\ pc \in 0 .. 6
      /\ answers \in Seq(AnswersUpTo(round)) /\ round \in Int
  BY AgentAssumption DEF SessionInv, AgentInv, TypeOK, SessionTypes, ChannelUpTo
<1>1. answers # << >> /\ answers' = Tail(answers)
  BY DEF ReadAnswer, Take
<1>2. /\ a \in AnswersUpTo(round) /\ a = answers[1] /\ 1 \in 1 .. Len(answers)
      /\ Len(answers') \in Nat
      /\ \A i \in 1 .. Len(answers') :
           i + 1 \in 1 .. Len(answers) /\ 1 < i + 1 /\ answers'[i] = answers[i + 1]
  BY <1>0, <1>1
<1>3. PartFrom(1)
  BY <1>2 DEF PartFrom
<1>4. CASE Fails(a) /\ Raise("open") /\ UNCHANGED requests
  <2>1. UNCHANGED <<round, base, sample, text>>
    BY <1>4 DEF Raise
  <2> QED
    BY <1>3, <2>1, PartInOrder
<1>5. CASE /\ ~Fails(a)
           /\ text' = IF OpOf(pc) = "read" THEN [text EXCEPT ![FileOf(pc)] = a] ELSE text
           /\ IF pc = 6 THEN Parse(text) /\ pc' = 1
              ELSE phase' = "call" /\ pc' = pc + 1 /\ UNCHANGED <<base, sample>>
           /\ UNCHANGED round
  <2> HIDE DEF a
  <2>1. /\ \A i \in 1 .. Len(answers'), j \in 1 .. Len(answers') :
             i < j /\ answers'[i].kind = "contents" /\ answers'[j].kind = "contents" =>
               answers'[i].n =< answers'[j].n
        /\ \A i \in 1 .. Len(answers') : answers'[i].kind = "contents" => answers'[i].n =< round'
    BY <1>2, <1>5 DEF InOrder
  <2>2. \A n : AtLeast(n) =>
           \A i \in 1 .. Len(answers') : answers'[i].kind = "contents" => answers'[i].n >= n
    BY <1>2 DEF AtLeast
  <2>3. CASE pc \notin {5, 6}
    <3>1. text'["vmstat"] = text["vmstat"]
      BY <1>0, <1>5, <2>3, CallsInOrder DEF SessionTypes, Files
    <3>2. UNCHANGED <<base, sample>>
      BY <1>5, <2>3
    <3>3. AtLeast(sample.to)' /\ sample'.to =< round'
      BY <1>5, <2>2, <3>2 DEF InOrder, AtLeast
    <3>4. text'["vmstat"] # Nothing =>
            /\ AtLeast(text["vmstat"].n)'
            /\ sample'.to =< text'["vmstat"].n /\ text'["vmstat"].n =< round'
      BY <1>5, <2>2, <3>1, <3>2 DEF InOrder, AtLeast
    <3> QED
      BY <2>1, <3>2, <3>3, <3>4 DEF InOrder
  <2>4. CASE pc = 5
    <3>1. a \in Texts /\ a.kind = "contents" /\ a.n \in Int
      <4>1. a.kind = "contents"
        BY <1>0, <1>5, <2>4, CallsInOrder DEF Fails
      <4>2. a \in Texts
        BY <1>0, <1>2, <4>1, AnswerKinds
      <4> QED
        BY <4>1, <4>2, AgentAssumption DEF Texts, Contents
    <3>2. text'["vmstat"] = a
      BY <1>0, <1>5, <2>4, CallsInOrder DEF SessionTypes, Files
    <3>3. UNCHANGED <<base, sample>>
      BY <1>5, <2>4
    <3>4. \A i \in 1 .. Len(answers') : answers'[i].kind = "contents" => answers'[i].n >= a.n
      <4> SUFFICES ASSUME NEW i \in 1 .. Len(answers'), answers'[i].kind = "contents"
                   PROVE  answers'[i].n >= a.n
        OBVIOUS
      <4>1. i + 1 \in 1 .. Len(answers) /\ 1 < i + 1 /\ answers'[i] = answers[i + 1]
        BY <1>2
      <4>2. answers[1].n =< answers[i + 1].n
        BY <1>2, <3>1, <4>1 DEF InOrder
      <4>3. answers[i + 1].n \in Int
        <5>0. answers[i + 1] \in AnswersUpTo(round) /\ answers[i + 1].kind = "contents"
          BY <1>0, <4>1
        <5>1. \A b \in AnswersUpTo(round) : b.kind = "contents" => b \in Texts
          BY <1>0, AnswerKinds
        <5>2. answers[i + 1] \in Texts
          BY <5>0, <5>1
        <5>3. \A t \in Texts : t.n \in Int
          BY AgentAssumption DEF Texts, Contents
        <5> QED
          BY <5>2, <5>3
      <4> QED
        BY <1>2, <3>1, <4>1, <4>2, <4>3
    <3>5. sample.to =< a.n /\ a.n =< round
      BY <1>2, <3>1 DEF InOrder, AtLeast
    <3>6. AtLeast(sample.to)' /\ sample'.to =< round'
      BY <1>5, <2>2, <3>3 DEF InOrder, AtLeast
    <3>7. /\ AtLeast(text["vmstat"].n)'
          /\ sample'.to =< text'["vmstat"].n /\ text'["vmstat"].n =< round'
      BY <1>5, <3>2, <3>3, <3>4, <3>5 DEF AtLeast
    <3>8. base' # 0 => base' = sample'.to
      BY <3>3 DEF InOrder
    <3> QED
      BY <2>1, <3>6, <3>7, <3>8 DEF InOrder
  <2>5. CASE pc = 6
    <3>1. text' = text /\ Parse(text)
      BY <1>0, <1>5, <2>5, CallsInOrder
    <3>2. text["vmstat"] \in Texts /\ text["vmstat"] # Nothing
      BY <1>0, <2>5 DEF SessionTypes, Texts, Contents, Nothing
    <3>3. \/ sample' = sample /\ base' \in {base, 0}
          \/ sample'.to = text["vmstat"].n /\ base' = text["vmstat"].n
      BY <3>1 DEF Parse
    <3>4. text["vmstat"].n \in Int
      BY <3>2, AgentAssumption DEF Texts, Contents
    <3>5. /\ AtLeast(text["vmstat"].n)'
          /\ text'["vmstat"].n =< round' /\ text'["vmstat"] = text["vmstat"]
      BY <1>5, <2>2, <3>1, <3>2 DEF InOrder, AtLeast
    <3>6. /\ AtLeast(sample.to)' /\ sample'.to =< round'
          /\ sample'.to =< text'["vmstat"].n
          /\ base' # 0 => base' = sample'.to
      <4>1. CASE sample' = sample /\ base' \in {base, 0}
        BY <1>5, <2>2, <3>2, <3>5, <4>1 DEF InOrder, AtLeast
      <4>2. CASE sample'.to = text["vmstat"].n /\ base' = text["vmstat"].n
        BY <1>5, <3>2, <3>4, <3>5, <4>2 DEF InOrder, AtLeast
      <4> QED
        BY <3>3, <4>1, <4>2
    <3> QED
      BY <2>1, <3>5, <3>6 DEF InOrder
  <2> QED
    BY <2>3, <2>4, <2>5
<1> QED
  BY <1>4, <1>5 DEF ReadAnswer

LEMMA InOrderNext == SessionInv /\ InOrder /\ [Next]_vars => InOrder'
<1> SUFFICES ASSUME SessionInv, InOrder, [Next]_vars PROVE InOrder'
  OBVIOUS
<1>0. answers \in Seq(AnswersUpTo(round)) /\ Len(answers) \in Nat /\ round \in Int
  BY AgentAssumption DEF SessionInv, AgentInv, TypeOK, SessionTypes, ChannelUpTo
<1>1. ASSUME answers' = answers, round' \in {round, round + 1}, UNCHANGED <<base, sample>>,
             text' = text \/ text'["vmstat"] = Nothing
      PROVE  InOrder'
  <2>1. PartFrom(0)
    BY <1>0, <1>1 DEF PartFrom
  <2> QED
    BY <1>1, <2>1, PartInOrder
<1>2. CASE Serve
  BY <1>2, InOrderServe
<1>3. CASE Restart
  <2>1. PartFrom(0) /\ UNCHANGED <<round, text, base, sample>>
    BY <1>3 DEF Restart, PartFrom
  <2> QED
    BY <2>1, PartInOrder
<1>4. CASE StartCollect
  <2>1. text'["vmstat"] = Nothing
    BY <1>4 DEF StartCollect, Files
  <2> QED
    BY <1>1, <1>4, <2>1 DEF StartCollect
<1>5. ASSUME Disconnect PROVE InOrder'
  <2>1. answers' \in Left /\ UNCHANGED <<round, text, base, sample>>
    BY <1>5 DEF Disconnect, Raise
  <2> QED
    BY <1>0, <2>1, LeftIsPart, PartInOrder
<1>6. CASE ConnectFails \/ SendFails \/ Timeout
  BY <1>5, <1>6 DEF ConnectFails, SendFails, Timeout
<1>7. CASE EndOfFile \/ Connect \/ Call
  BY <1>1, <1>7 DEF EndOfFile, Raise, Connect, Call
<1>8. CASE ReadSync
  <2>1. answers # << >> /\ answers' = Tail(answers)
    BY <1>8 DEF ReadSync, Take
  <2>2. PartFrom(1)
    BY <1>0, <2>1 DEF PartFrom
  <2>3. UNCHANGED <<round, text, base, sample>>
    BY <1>8 DEF ReadSync, Raise, client
  <2> QED
    BY <2>2, <2>3, PartInOrder
<1>9. CASE ReadAnswer
  BY <1>9, InOrderReadAnswer
<1>10. CASE UNCHANGED vars
  BY <1>1, <1>10 DEF vars, client
<1> QED
  BY <1>2, <1>3, <1>4, <1>6, <1>7, <1>8, <1>9, <1>10 DEF Next, ClientStep
-----------------------------------------------------------------------------
(***************************************************************************)
(* The agent answers the call in progress, and nothing else.               *)
(***************************************************************************)
LEMMA InStepServe == SessionInv /\ HandlesInv /\ InStep /\ Serve => InStep'
<1> SUFFICES ASSUME SessionInv, HandlesInv, InStep, Serve,
                    synced', sock' = "open", phase' \in {"call", "answer"}
             PROVE  InStep'
  BY DEF InStep
<1> DEFINE q == Head(requests)
<1>1. PICK a \in Answer(q) :
        /\ answers' = Append(answers, a)
        /\ handles' =
             CASE a.kind = "handle" -> handles \cup {[n |-> a.n, file |-> q.arg, round |-> q.at]}
               [] q.op = "close" -> {h \in handles : Handle(h.n) # q.arg}
               [] OTHER -> handles
  BY DEF Serve
<1>2. /\ requests # << >> /\ requests' = Tail(requests)
      /\ UNCHANGED <<round, pc, fh, text, sock, synced, phase>>
  BY DEF Serve, client
<1>3. /\ TypeOK /\ SyncedInStep /\ pc \in 0 .. 6
      /\ requests \in Seq(RequestsUpTo(round)) /\ answers \in Seq(AnswersUpTo(round))
  BY DEF SessionInv, AgentInv, SessionTypes, ChannelUpTo, TypeOK
<1>4. phase = "answer" /\ Len(requests) = 1 /\ answers = << >>
  <2>1. Len(requests) \in Nat /\ Len(requests) # 0 /\ Len(answers) \in Nat
    BY <1>2, <1>3
  <2>2. Len(requests) + Len(answers) = IF phase = "answer" THEN 1 ELSE 0
    <3>1. synced /\ sock = "open"
      BY <1>2
    <3> QED
      BY <1>3, <3>1 DEF SyncedInStep
  <2>3. phase = "answer"
    BY <2>1, <2>2
  <2>4. Len(requests) = 1 /\ Len(answers) = 0
    <3> DEFINE m == Len(requests)
               n == Len(answers)
    <3>1. m \in Nat /\ n \in Nat /\ m # 0 /\ m + n = 1
      BY <2>1, <2>2, <2>3
    <3> HIDE DEF m, n
    <3>2. m = 1 /\ n = 0
      BY <3>1
    <3> QED
      BY <3>2 DEF m, n
  <2> QED
    BY <1>3, <2>3, <2>4
<1>5. requests' = << >> /\ answers' # << >> /\ answers'[1] = a
  BY <1>1, <1>2, <1>3, <1>4
<1>6. q = Request(OpOf(pc))
  BY <1>2, <1>3, <1>4 DEF InStep
<1> HIDE DEF q
<1>7. q.op = OpOf(pc) /\ q.at = round
  BY <1>6 DEF Request
<1>8. /\ pc >= 3 => text["meminfo"] = Contents("meminfo", round)
      /\ pc = 6 => text["vmstat"] = Contents("vmstat", round)
      /\ IF OpOf(pc) \in {"ping", "open"} THEN NoneOpen ELSE OnlyOpen(fh)
  BY <1>2, <1>4 DEF InStep
<1>9. CASE OpOf(pc) = "ping"
  <2>1. handles' = handles
    BY <1>1, <1>7, <1>9 DEF Answer, Done
  <2>2. NoneOpen'
    BY <1>2, <1>8, <1>9, <2>1 DEF NoneOpen
  <2> QED
    BY <1>2, <1>5, <1>8, <1>9, <2>2 DEF InStep
<1>10. CASE OpOf(pc) = "open"
  <2>1. q.arg = FileOf(pc)
    BY <1>6, <1>10 DEF Request
  <2>2. CASE a = Error
    BY <1>2, <1>5, <1>8, <1>10, <2>2 DEF InStep
  <2>3. CASE a # Error
    <3> DEFINE new == [n |-> a.n, file |-> q.arg, round |-> q.at]
    <3>1. a = Handle(opened + 1)
      BY <1>7, <1>10, <2>3 DEF Answer
    <3>2. handles' = handles \cup {new}
      <4>1. a.kind = "handle"
        BY <3>1 DEF Handle
      <4>2. q.op = "open"
        BY <1>7, <1>10
      <4> QED
        BY <1>1, <4>1, <4>2
    <3>3. a = Handle(new.n) /\ new.file = FileOf(pc)
      BY <2>1, <3>1 DEF Handle
    <3>4. \A g \in handles' : g.round = round => g = new
      BY <1>8, <1>10, <3>2 DEF NoneOpen
    <3> HIDE DEF new
    <3>5. OnlyOpen(a)'
      BY <1>2, <3>2, <3>3, <3>4 DEF OnlyOpen
    <3> QED
      BY <1>2, <1>5, <1>8, <1>10, <3>5 DEF InStep, OnlyOpen
  <2> QED
    BY <2>2, <2>3
<1>11. CASE OpOf(pc) \in {"read", "close"}
  <2>1. q.arg = fh
    BY <1>6, <1>11 DEF Request
  <2>2. PICK h \in handles :
          /\ fh = Handle(h.n) /\ h.file = FileOf(pc)
          /\ \A g \in handles : g.round = round => g = h
    BY <1>8, <1>11 DEF OnlyOpen
  <2>3. \A g \in handles : Handle(g.n) = fh => g = h
    BY <2>2 DEF HandlesInv, Handle
  <2>4. (CHOOSE g \in handles : Handle(g.n) = q.arg) = h
    BY <2>1, <2>2, <2>3
  <2>5. CASE OpOf(pc) = "read"
    <3>1. a = Contents(FileOf(pc), round)
      <4>1. q.op = "read" /\ \E g \in handles : Handle(g.n) = q.arg
        BY <1>7, <2>1, <2>2, <2>5
      <4>2. a = Contents((CHOOSE g \in handles : Handle(g.n) = q.arg).file, round)
        BY <4>1 DEF Answer
      <4> QED
        BY <2>2, <2>4, <4>2
    <3>2. handles' = handles
      BY <1>1, <1>7, <2>5, <3>1 DEF Contents
    <3>3. OnlyOpen(fh)'
      BY <1>2, <1>8, <2>5, <3>2 DEF OnlyOpen
    <3> QED
      BY <1>2, <1>5, <1>8, <2>5, <3>1, <3>3 DEF InStep
  <2>6. CASE OpOf(pc) = "close"
    <3>1. a.kind # "handle"
      BY <1>7, <2>1, <2>2, <2>6 DEF Answer, Done
    <3>2. handles' = {g \in handles : Handle(g.n) # fh}
      BY <1>1, <1>7, <2>1, <2>6, <3>1
    <3>3. NoneOpen'
      BY <1>2, <2>2, <3>2 DEF NoneOpen
    <3> QED
      BY <1>2, <1>5, <1>8, <2>6, <3>3 DEF InStep
  <2> QED
    BY <1>11, <2>5, <2>6
<1> QED
  BY <1>3, <1>9, <1>10, <1>11, CallsInOrder

(***************************************************************************)
(* The collector reads the answer of its call and goes on to the next.     *)
(***************************************************************************)
LEMMA InStepReadAnswer == SessionInv /\ InStep /\ ReadAnswer => InStep'
<1> SUFFICES ASSUME SessionInv, InStep, ReadAnswer,
                    synced', sock' = "open", phase' \in {"call", "answer"}
             PROVE  InStep'
  BY DEF InStep
<1> DEFINE a == Head(answers)
<1>0. /\ TypeOK /\ SyncedInStep /\ SessionTypes /\ pc \in 0 .. 6
      /\ requests \in Seq(RequestsUpTo(round)) /\ answers \in Seq(AnswersUpTo(round))
  BY DEF SessionInv, AgentInv, TypeOK, SessionTypes, ChannelUpTo
<1>1. /\ ~Fails(a)
      /\ fh' = IF OpOf(pc) = "open" THEN a ELSE fh
      /\ text' = IF OpOf(pc) = "read" THEN [text EXCEPT ![FileOf(pc)] = a] ELSE text
      /\ pc # 6 /\ phase' = "call" /\ pc' = pc + 1
      /\ UNCHANGED <<round, sock, synced, requests, guest>>
  BY DEF ReadAnswer, Raise, Parse
<1>2. phase = "answer" /\ sock = "open" /\ answers # << >> /\ answers' = Tail(answers)
  BY DEF ReadAnswer, Take
<1>3. requests = << >> /\ requests' = << >> /\ answers' = << >> /\ a = answers[1]
  BY <1>0, <1>1, <1>2 DEF SyncedInStep
<1> HIDE DEF a
<1>4. /\ \/ OpOf(pc) \in {"ping", "close"} /\ NoneOpen
         \/ OpOf(pc) = "open" /\ (a = Error \/ OnlyOpen(a))
         \/ OpOf(pc) = "read" /\ OnlyOpen(fh) /\ a = Contents(FileOf(pc), round)
      /\ pc >= 3 => text["meminfo"] = Contents("meminfo", round)
  BY <1>1, <1>2, <1>3 DEF InStep
<1>5. handles' = handles /\ round' = round
  BY <1>1 DEF guest
<1>6. CASE pc \in {0, 3}
  <2>1. OpOf(pc') = "open" /\ text' = text /\ NoneOpen
    BY <1>0, <1>1, <1>4, <1>6, CallsInOrder DEF OpOf
  <2>2. NoneOpen'
    BY <1>5, <2>1 DEF NoneOpen
  <2> QED
    BY <1>1, <1>3, <1>4, <1>5, <1>6, <2>1, <2>2 DEF InStep
<1>7. CASE pc \in {1, 4}
  <2>1. OpOf(pc) = "open" /\ OpOf(pc') = "read" /\ FileOf(pc') = FileOf(pc) /\ text' = text
    BY <1>0, <1>1, <1>7 DEF OpOf, FileOf
  <2>2. OnlyOpen(a) /\ fh' = a
    BY <1>1, <1>4, <2>1 DEF Fails
  <2>3. OnlyOpen(fh)'
    BY <1>5, <2>1, <2>2 DEF OnlyOpen
  <2> QED
    BY <1>1, <1>3, <1>4, <1>5, <1>7, <2>1, <2>3 DEF InStep
<1>8. CASE pc \in {2, 5}
  <2>1. OpOf(pc) = "read" /\ OpOf(pc') = "close" /\ FileOf(pc') = FileOf(pc) /\ fh' = fh
    BY <1>0, <1>1, <1>8 DEF OpOf, FileOf
  <2>2. OnlyOpen(fh) /\ a = Contents(FileOf(pc), round)
    BY <1>4, <2>1
  <2>3. OnlyOpen(fh)'
    BY <1>5, <2>1, <2>2 DEF OnlyOpen
  <2>4. text' = [text EXCEPT ![FileOf(pc)] = Contents(FileOf(pc), round)]
    BY <1>1, <2>1, <2>2
  <2>5. CASE pc = 2
    <3>1. text'["meminfo"] = Contents("meminfo", round) /\ pc' = 3
      BY <1>0, <1>1, <2>4, <2>5, CallsInOrder DEF SessionTypes, Files
    <3> QED
      BY <1>3, <1>5, <2>1, <2>3, <3>1 DEF InStep
  <2>6. CASE pc = 5
    <3>1. text'["meminfo"] = text["meminfo"] /\ text'["vmstat"] = Contents("vmstat", round)
      BY <1>0, <2>4, <2>6, CallsInOrder DEF SessionTypes, Files
    <3> QED
      BY <1>1, <1>3, <1>4, <1>5, <2>1, <2>3, <2>6, <3>1 DEF InStep
  <2> QED
    BY <1>8, <2>5, <2>6
<1> QED
  BY <1>0, <1>1, <1>6, <1>7, <1>8

LEMMA InStepNext ==
  SessionInv /\ SessionInv' /\ HandlesInv /\ InStep /\ [Next]_vars => InStep'
<1> SUFFICES ASSUME SessionInv, SessionInv', HandlesInv, InStep, [Next]_vars,
                    synced', sock' = "open", phase' \in {"call", "answer"}
             PROVE  InStep'
  BY DEF InStep
<1>0. /\ TypeOK /\ SyncedInStep /\ SyncedInStep' /\ pc \in 0 .. 6 /\ round \in Nat
      /\ requests \in Seq(RequestsUpTo(round)) /\ answers \in Seq(AnswersUpTo(round))
      /\ answers' \in Seq(AnswersUpTo(round'))
  BY AgentAssumption DEF SessionInv, AgentInv, TypeOK, SessionTypes, ChannelUpTo
<1>1. CASE Serve
  BY <1>1, InStepServe
<1>2. CASE ReadAnswer
  BY <1>2, InStepReadAnswer
<1>3. CASE StartCollect
  <2>1. /\ round' = round + 1 /\ pc' \in {0, 1} /\ phase = "idle"
        /\ UNCHANGED <<sock, synced, requests, answers, handles>>
    BY <1>3 DEF StartCollect, guest
  <2>2. requests' = << >> /\ answers' = << >>
    BY <1>0, <2>1 DEF SyncedInStep
  <2>3. NoneOpen' /\ OpOf(pc') \in {"ping", "open"}
    BY <1>0, <2>1 DEF HandlesInv, NoneOpen, OpOf
  <2> QED
    BY <2>1, <2>2, <2>3 DEF InStep
<1>4. CASE Call
  <2>1. /\ phase = "call" /\ requests' = Append(requests, Request(OpOf(pc)))
        /\ UNCHANGED <<round, pc, fh, text, answers, handles, sock, synced>>
    BY <1>4 DEF Call, Send, guest
  <2>2. requests = << >> /\ answers = << >>
    BY <1>0, <1>4, <2>1 DEF SyncedInStep, Call
  <2>3. requests'[1] = Request(OpOf(pc))'
    BY <1>0, <2>1, <2>2 DEF Request
  <2> QED
    BY <1>4, <2>1, <2>2, <2>3 DEF InStep, NoneOpen, OnlyOpen, Call
<1>5. CASE ReadSync
  <2>1. /\ phase = "sync" /\ phase' = "answer" /\ requests' = Append(requests, Request(OpOf(pc)))
        /\ UNCHANGED <<round, pc, fh, handles>>
    BY <1>5 DEF ReadSync, Raise, Send, client, guest
  <2>2. requests = << >> /\ answers' = << >>
    BY <1>0, <2>1 DEF SyncedInStep
  <2>3. requests'[1] = Request(OpOf(pc))'
    BY <1>0, <2>1, <2>2 DEF Request
  <2>4. pc \in {0, 1} /\ Untouched
    BY <2>1 DEF HandlesInv
  <2>5. NoneOpen' /\ OpOf(pc') \in {"ping", "open"}
    BY <1>0, <2>1, <2>4 DEF Untouched, NoneOpen, OpOf, HandlesInv
  <2> QED
    BY <2>1, <2>2, <2>3, <2>4, <2>5 DEF InStep
<1>6. CASE Restart \/ ConnectFails \/ SendFails \/ Timeout \/ EndOfFile \/ Connect
  BY <1>6 DEF Restart, ConnectFails, SendFails, Timeout, EndOfFile, Disconnect, Raise, Connect
<1>7. CASE UNCHANGED vars
  BY <1>7 DEF vars, client, guest, InStep, NoneOpen, OnlyOpen, Request
<1> QED
  BY <1>1, <1>2, <1>3, <1>4, <1>5, <1>6, <1>7 DEF Next, ClientStep

-----------------------------------------------------------------------------
LEMMA ResultInvariant == Spec => []ResultInv
<1>1. Init => ResultInv
  BY SessionInit, HandlesStart, InOrderStart DEF ResultInv, InStep, Init
<1>2. ResultInv /\ [Next]_vars => ResultInv'
  BY SessionNext, HandlesNext, InStepNext, InOrderNext DEF ResultInv
<1> QED
  BY <1>1, <1>2, PTL DEF Spec

(***************************************************************************)
(* A result comes from the last answer of a collection: when the           *)
(* connection is in step, both texts are those of this collection, and the *)
(* files they came from are closed.                                        *)
(***************************************************************************)
LEMMA ResultStep ==
  ASSUME ResultInv, [Next]_vars, sample' # sample \/ base' # base
  PROVE  /\ ReadAnswer /\ pc = 6 /\ Parse(text)
         /\ text["vmstat"] \in Texts
         /\ text["vmstat"].n \in Int /\ sample.to \in Int
         /\ sample.to =< text["vmstat"].n
         /\ synced => /\ text["meminfo"] = Contents("meminfo", round)
                      /\ text["vmstat"] = Contents("vmstat", round)
                      /\ NoneOpen
<1> USE DEF ResultInv
<1>1. ReadAnswer
  BY DEF Next, ClientStep, vars, client, StartCollect, Serve, Restart, Connect, ConnectFails,
    Call, SendFails, Timeout, EndOfFile, ReadSync, Disconnect, Raise
<1>2. pc = 6 /\ Parse(text)
  BY <1>1 DEF ReadAnswer, Raise
<1>3. /\ text["vmstat"] \in Texts /\ text["vmstat"] # Nothing /\ sample.to \in Int
      /\ \A t \in Texts : t.n \in Int
  BY <1>2, AgentAssumption DEF SessionInv, AgentInv, TypeOK, SessionTypes, Texts, Contents, Nothing
<1>4. sample.to =< text["vmstat"].n
  BY <1>3 DEF InOrder
<1>5. phase = "answer" /\ sock = "open" /\ answers # << >>
  BY <1>1 DEF ReadAnswer, Take
<1>6. OpOf(pc) = "close"
  BY <1>2 DEF OpOf
<1>7. synced => /\ text["meminfo"] = Contents("meminfo", round)
                /\ text["vmstat"] = Contents("vmstat", round)
                /\ NoneOpen
  BY <1>2, <1>5, <1>6 DEF InStep
<1> QED
  BY <1>1, <1>2, <1>3, <1>4, <1>7

(***************************************************************************)
(* A result got on a connection in step was read, all of it, during its    *)
(* own collection.                                                         *)
(***************************************************************************)
THEOREM ResultsAreFresh == Spec => SamplesAreFresh
<1>1. ResultInv /\ [Next]_vars =>
        [sample' # sample /\ synced => sample'.to = round /\ text["meminfo"].n = round]_vars
  BY ResultStep DEF Parse, Contents
<1> QED
  BY <1>1, ResultInvariant, PTL DEF Spec, SamplesAreFresh

(***************************************************************************)
(* The swap deltas of results in a row tile time: nothing is counted twice *)
(* on any connection, and the counters are lost on one out of step only.   *)
(***************************************************************************)
THEOREM DeltasNeverOverlap == Spec => DeltasTile
<1>1. ResultInv /\ [Next]_vars =>
        [/\ sample' # sample /\ sample # NoSample =>
              sample'.from = sample.to \/ (base = 0 /\ sample'.from > sample.to)
         /\ base # 0 /\ base' = 0 => ~synced]_vars
  <2> SUFFICES ASSUME ResultInv, [Next]_vars
               PROVE  /\ sample' # sample =>
                           sample'.from = sample.to \/ (base = 0 /\ sample'.from > sample.to)
                      /\ base # 0 /\ base' = 0 => ~synced
    OBVIOUS
  <2>1. ASSUME sample' # sample
        PROVE  sample'.from = sample.to \/ (base = 0 /\ sample'.from > sample.to)
    <3>1. base # 0 => base = sample.to
      BY DEF ResultInv, InOrder
    <3>2. sample'.from = IF base = 0 THEN text["vmstat"].n ELSE base
      BY <2>1, ResultStep DEF Parse
    <3>3. text["vmstat"].n \in Int /\ sample.to \in Int /\ sample.to =< text["vmstat"].n
      BY <2>1, ResultStep
    <3> QED
      BY <3>1, <3>2, <3>3
  <2>2. ASSUME base # 0, base' = 0, synced PROVE FALSE
    <3>1. /\ Parse(text) /\ text["meminfo"] = Contents("meminfo", round)
          /\ text["vmstat"] = Contents("vmstat", round) /\ ReadAnswer
      BY <2>2, ResultStep
    <3>2. base' = round
      BY <3>1 DEF Parse, Contents
    <3>3. round > 0 /\ round \in Int
      BY <3>1, AgentAssumption DEF ReadAnswer, ResultInv, HandlesInv, SessionInv, AgentInv, TypeOK
    <3> QED
      BY <2>2, <3>2, <3>3
  <2> QED
    BY <2>1, <2>2
<1> QED
  BY <1>1, ResultInvariant, PTL DEF Spec, DeltasTile

(***************************************************************************)
(* A successful collection on a connection in step leaves no file open.    *)
(***************************************************************************)
THEOREM SuccessLeavesNoFileOpen == Spec => SuccessClosesFiles
<1>1. ResultInv /\ [Next]_vars =>
        [sample' # sample /\ synced => \A h \in handles : h.round # round]_vars
  BY ResultStep DEF NoneOpen
<1> QED
  BY <1>1, ResultInvariant, PTL DEF Spec, SuccessClosesFiles
=============================================================================
