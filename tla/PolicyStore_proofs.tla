------------------------ MODULE PolicyStore_proofs -------------------------
(***************************************************************************)
(* The policy store keeps its texts and its code together, for every       *)
(* number of names, texts and callers.  CodeIsOfStore alone is not         *)
(* inductive: it speaks of the text a call has replaced, so the invariant  *)
(* adds that the thread holding policy_sem is in a set_policy whose text   *)
(* is the one in the store, and what an evaluation runs.                   *)
(***************************************************************************)
EXTENDS PolicyStore, SequenceTheorems, TLAPS

Holding ==
  sem \in Callers =>
    /\ todo[sem] # << >>
    /\ Head(todo[sem]).op = "set"
    /\ strings[Head(todo[sem]).name] = Head(todo[sem]).text

IInv == /\ TypeOK /\ Holding /\ CodeIsOfStore /\ RepliesNeverRefused
        /\ EvaluatesStoredPolicy

(* No text at all compiles.                                                *)
LEMMA NothingCompiles == Compiles(NoStrings)
<1>1. \A n \in Names : NoStrings[n] = NoText
  BY DEF NoStrings
<1>2. NoText \notin Bad \cup Garbled \cup Commented \cup Blank
  BY StoreAssumption DEF Texts
<1> QED
  BY <1>1, <1>2 DEF Compiles, Refused, Raises, Unscannable, NoTokens

(* A compilation has one of three outcomes.                                *)
LEMMA Outcomes ==
  ASSUME NEW texts
  PROVE  /\ Compiles(texts) \/ Refused(texts) \/ Raises(texts)
         /\ Compiles(texts) => ~Refused(texts) /\ ~Raises(texts)
         /\ Raises(texts) => ~Refused(texts)
BY DEF Compiles, Refused

(* The first operation of a call is an operation, the others a call.       *)
LEMMA NextOperation ==
  ASSUME TypeOK, NEW c \in Callers, todo[c] # << >>
  PROVE  Head(todo[c]) \in Operations /\ Tail(todo[c]) \in Seq(Operations)
BY HeadTailProperties DEF TypeOK

(* A set operation has a name and a text.                                  *)
LEMMA SetOperation ==
  ASSUME NEW o \in Operations, o.op = "set"
  PROVE  o.name \in Names /\ o.text \in Texts \cup {NoText}
BY DEF Operations

(* The operations of setNamedPolicy, setPolicy and getPolicy are           *)
(* operations.                                                             *)
LEMMA SetCalls ==
  ASSUME NEW n \in Names, NEW text \in Texts \cup {NoText}
  PROVE  <<SetOp(n, text)>> \in Seq(Operations)
         /\ <<ClearOp, SetOp(n, text)>> \in Seq(Operations)
         /\ <<[op |-> "get"]>> \in Seq(Operations)
<1>1. SetOp(n, text) \in Operations
  BY DEF SetOp, Operations
<1>2. ClearOp \in Operations /\ [op |-> "get"] \in Operations
  BY DEF ClearOp, Operations
<1> QED
  BY <1>1, <1>2

(* So are those of resetPolicies.                                          *)
LEMMA CallOperations ==
  ASSUME NEW f \in PolicyFiles
  PROVE  <<ClearOp>> \o LoadOps(f) \in Seq(Operations)
<1>1. LoadOps(f) \in [Names -> Operations]
  BY StoreAssumption DEF LoadOps, SetOp, Operations
<1>2. LoadOps(f) \in Seq(Operations)
  BY <1>1, StoreAssumption, IsASeq DEF Names
<1>3. <<ClearOp>> \in Seq(Operations)
  BY DEF ClearOp, Operations
<1> QED
  BY <1>2, <1>3, ConcatProperties

LEMMA InitialStore == Init => IInv
<1> SUFFICES ASSUME Init PROVE IInv
  OBVIOUS
<1>1. TypeOK
  BY StoreAssumption DEF Init, TypeOK, NoStrings
<1>2. sem \notin Callers /\ Committed = strings
  BY StoreAssumption DEF Init, Committed
<1>3. ~Refused(NoStrings)
  BY NothingCompiles, Outcomes
<1> QED
  BY <1>1, <1>2, <1>3, StoreAssumption
     DEF Init, IInv, Holding, CodeIsOfStore, RepliesNeverRefused, EvaluatesStoredPolicy

(* Every step keeps the invariant.                                         *)
LEMMA StoreStep == IInv /\ [Next]_vars => IInv'
<1> SUFFICES ASSUME IInv, [Next]_vars PROVE IInv'
  OBVIOUS
<1> USE StoreAssumption DEF IInv
<1>1. ASSUME NEW c \in Callers, Call(c) PROVE IInv'
  <2>1. PICK operations \in Seq(Operations) : Begin(c, operations)
    <3>1. CASE setNamedPolicy(c)
      BY <3>1, SetCalls DEF setNamedPolicy
    <3>2. CASE setPolicy(c)
      BY <3>2, SetCalls DEF setPolicy
    <3>3. CASE resetPolicies(c)
      BY <3>3, CallOperations DEF resetPolicies
    <3>4. CASE getPolicies(c)
      BY <3>4, SetCalls DEF getPolicies
    <3> QED
      BY <1>1, <3>1, <3>2, <3>3, <3>4 DEF Call
  <2>2. TypeOK'
    BY <2>1 DEF Begin, TypeOK, NoStrings
  <2>3. sem # c
    BY <2>1 DEF Begin, Holding
  <2>4. sem \in Callers => todo'[sem] = todo[sem]
    BY <2>1, <2>3 DEF Begin, TypeOK
  <2>5. Committed' = Committed
    BY <2>1, <2>4 DEF Begin, Committed
  <2>6. ~Refused(NoStrings)
    BY NothingCompiles, Outcomes
  <2> QED
    BY <2>1, <2>2, <2>4, <2>5, <2>6
       DEF Begin, Holding, CodeIsOfStore, RepliesNeverRefused, EvaluatesStoredPolicy
<1>2. ASSUME NEW c \in Callers, clear_policy(c) PROVE IInv'
  <2>1. TypeOK'
    BY <1>2, NextOperation DEF clear_policy, TypeOK, NoStrings
  <2>2. Committed' = NoStrings
    BY <1>2 DEF clear_policy, Committed
  <2>3. ~Refused(NoStrings)
    BY NothingCompiles, Outcomes
  <2> QED
    BY <1>2, <2>1, <2>2, <2>3
       DEF clear_policy, Holding, CodeIsOfStore, RepliesNeverRefused, EvaluatesStoredPolicy
<1>3. ASSUME NEW c \in Callers, set_policy_store(c) PROVE IInv'
  <2> DEFINE o == Head(todo[c])
  <2>1. o.name \in Names /\ o.text \in Texts \cup {NoText}
    BY <1>3, NextOperation, SetOperation DEF set_policy_store
  <2>2. TypeOK'
    BY <1>3, <2>1 DEF set_policy_store, TypeOK
  <2>3. Committed' = strings
    BY <1>3, <2>1 DEF set_policy_store, Committed, TypeOK
  <2>4. Committed = strings
    BY <1>3 DEF set_policy_store, Committed
  <2>5. Holding'
    BY <1>3, <2>1 DEF set_policy_store, Holding, TypeOK
  <2> QED
    BY <1>3, <2>2, <2>3, <2>4, <2>5
       DEF set_policy_store, CodeIsOfStore, RepliesNeverRefused, EvaluatesStoredPolicy
<1>4. ASSUME NEW c \in Callers, set_policy_compile(c) PROVE IInv'
  <2> DEFINE o == Head(todo[c])
  <2>1. todo[c] # << >> /\ o.op = "set" /\ sem = c
    BY <1>4 DEF set_policy_compile, Holding
  <2>2. o.name \in Names /\ o.text \in Texts \cup {NoText}
    BY <2>1, NextOperation, SetOperation
  <2>3. TypeOK'
    <3>1. strings' \in [Names -> Texts \cup {NoText}]
          /\ code' \in [Names -> Texts \cup {NoText}] \cup {NoCode}
      BY <1>4, <2>2 DEF set_policy_compile, accept, refuse, raise, TypeOK
    <3>2. todo' \in [Callers -> Seq(Operations)]
      <4>1. Tail(todo[c]) \in Seq(Operations) /\ << >> \in Seq(Operations)
        BY <2>1, NextOperation
      <4> QED
        BY <1>4, <4>1 DEF set_policy_compile, accept, refuse, raise, TypeOK
    <3> QED
      BY <1>4, <3>1, <3>2 DEF set_policy_compile, TypeOK
  <2>4. Committed' = strings'
    BY <1>4 DEF set_policy_compile, Committed
  <2>5. ASSUME accept(c) PROVE CodeIsOfStore'
    <3>1. Compiles(strings) /\ strings' = strings /\ code' = strings
      BY <2>5 DEF accept
    <3> QED
      BY <2>4, <3>1, Outcomes DEF CodeIsOfStore
  <2>6. ASSUME refuse(c) PROVE CodeIsOfStore'
    <3>1. strings' = Committed /\ code' = code
      BY <2>1, <2>6 DEF refuse, Committed
    <3> QED
      BY <2>4, <3>1 DEF CodeIsOfStore
  <2>7. ASSUME raise(c) PROVE CodeIsOfStore'
    <3>1. Raises(strings) /\ strings' = strings /\ code' = code
      BY <2>7 DEF raise
    <3> QED
      BY <2>4, <3>1, Outcomes DEF CodeIsOfStore
  <2>8. CodeIsOfStore'
    BY <1>4, <2>5, <2>6, <2>7 DEF set_policy_compile
  <2> QED
    BY <1>4, <2>3, <2>8
       DEF set_policy_compile, Holding, RepliesNeverRefused, EvaluatesStoredPolicy
<1>5. ASSUME NEW c \in Callers, get_strings(c) PROVE IInv'
  <2>1. TypeOK'
    BY <1>5, NextOperation DEF get_strings, TypeOK
  <2>2. Committed = strings /\ Committed' = strings
    BY <1>5 DEF get_strings, Committed
  <2> QED
    BY <1>5, <2>1, <2>2
       DEF get_strings, Holding, CodeIsOfStore, RepliesNeverRefused, EvaluatesStoredPolicy
<1>6. ASSUME NEW c \in Callers, skip_file(c) PROVE IInv'
  <2>1. TypeOK'
    BY <1>6, NextOperation DEF skip_file, TypeOK
  <2>2. sem # c
    BY <1>6 DEF skip_file, Holding
  <2>3. sem \in Callers => todo'[sem] = todo[sem]
    BY <1>6, <2>2 DEF skip_file, TypeOK
  <2>4. Committed' = Committed
    BY <1>6, <2>3 DEF skip_file, Committed
  <2> QED
    BY <1>6, <2>1, <2>3, <2>4
       DEF skip_file, Holding, CodeIsOfStore, RepliesNeverRefused, EvaluatesStoredPolicy
<1>7. CASE evaluate_begin
  <2>1. Committed = strings /\ Committed' = strings
    BY <1>7 DEF evaluate_begin, Committed
  <2> QED
    BY <1>7, <2>1 DEF evaluate_begin, TypeOK, Holding, CodeIsOfStore,
                      RepliesNeverRefused, EvaluatesStoredPolicy
<1>8. CASE evaluate_text
  <2>1. Committed' = Committed
    BY <1>8 DEF evaluate_text, Committed
  <2> QED
    BY <1>8, <2>1 DEF evaluate_text, TypeOK, Holding, CodeIsOfStore,
                      RepliesNeverRefused, EvaluatesStoredPolicy
<1>9. CASE evaluate_end
  <2>1. Committed = strings /\ Committed' = strings
    BY <1>9 DEF evaluate_end, Committed
  <2> QED
    BY <1>9, <2>1 DEF evaluate_end, TypeOK, Holding, CodeIsOfStore,
                      RepliesNeverRefused, EvaluatesStoredPolicy
<1>10. CASE UNCHANGED vars
  <2>1. Committed' = Committed
    BY <1>10 DEF vars, Committed
  <2> QED
    BY <1>10, <2>1 DEF vars, TypeOK, Holding, CodeIsOfStore,
                       RepliesNeverRefused, EvaluatesStoredPolicy
<1> QED
  BY <1>1, <1>2, <1>3, <1>4, <1>5, <1>6, <1>7, <1>8, <1>9, <1>10
     DEF Next, Operate, Evaluate

-----------------------------------------------------------------------------
LEMMA Invariance == Spec => []IInv
BY InitialStore, StoreStep, PTL DEF Spec

(* The texts, the code and the calls stay what they are declared to be.    *)
THEOREM TypeCorrect == Spec => []TypeOK
BY Invariance, PTL DEF IInv

(* The stored texts are none that are refused; the code evaluated next is  *)
(* theirs when they compile, and that of an earlier store when an escaped  *)
(* exception left texts that do not.                                       *)
THEOREM CodeMatchesStore == Spec => []CodeIsOfStore
BY Invariance, PTL DEF IInv

(* Whoever asks for the policies never gets texts that are refused.        *)
THEOREM RepliesAreAccepted == Spec => []RepliesNeverRefused
BY Invariance, PTL DEF IInv

(* An evaluation runs the stored policy from beginning to end.             *)
THEOREM EvaluationIsIsolated == Spec => []EvaluatesStoredPolicy
BY Invariance, PTL DEF IInv

(* Deleting a name that is not stored never raises KeyError: the texts are *)
(* those of before, and these are not refused.                             *)
THEOREM DeletionIsSafe == Spec => []DeleteNeverFaults
<1>1. IInv => DeleteNeverFaults
  <2> SUFFICES ASSUME IInv, NEW c \in Callers,
                      sem = c, old = NoText, Head(todo[c]).text = NoText
               PROVE  ~Refused(strings)
    BY DEF DeleteNeverFaults
  <2>1. strings[Head(todo[c]).name] = NoText
    BY DEF IInv, Holding
  <2>2. Committed = strings
    BY <2>1 DEF Committed, IInv, TypeOK
  <2> QED
    BY <2>2 DEF IInv, CodeIsOfStore
<1> QED
  BY <1>1, Invariance, PTL

(* The store implements the abstract map: clear_policy is Clear, the end   *)
(* of a set_policy that compiles or raises is Set, and nothing else shows. *)
THEOREM ImplementsMap == Spec => MapSpec
<1>1. Init => Map!Init
  BY StoreAssumption DEF Init, Committed, Map!Init, Map!Empty, NoStrings
<1>2. IInv /\ [Next]_vars => [Map!Next]_<<Committed, code>>
  <2> SUFFICES ASSUME IInv, [Next]_vars PROVE [Map!Next]_<<Committed, code>>
    OBVIOUS
  <2> USE StoreAssumption DEF IInv
  <2>1. ASSUME NEW c \in Callers, Call(c) \/ skip_file(c)
        PROVE  UNCHANGED <<Committed, code>>
    <3>1. sem' = sem /\ strings' = strings /\ old' = old /\ code' = code
      BY <2>1 DEF Call, setNamedPolicy, setPolicy, resetPolicies, getPolicies,
                  Begin, skip_file
    <3>2. sem # c
      BY <2>1 DEF Call, setNamedPolicy, setPolicy, resetPolicies, getPolicies,
                  Begin, skip_file, Holding
    <3>3. sem \in Callers => todo'[sem] = todo[sem]
      BY <2>1, <3>2 DEF Call, setNamedPolicy, setPolicy, resetPolicies,
                        getPolicies, Begin, skip_file, TypeOK
    <3> QED
      BY <3>1, <3>3 DEF Committed
  <2>2. ASSUME NEW c \in Callers, clear_policy(c) PROVE Map!Clear
    BY <2>2 DEF clear_policy, Committed, Map!Clear, Map!Empty, NoStrings
  <2>3. ASSUME NEW c \in Callers, set_policy_store(c)
        PROVE  UNCHANGED <<Committed, code>>
    <3>1. Head(todo[c]).name \in Names
      BY <2>3, NextOperation, SetOperation DEF set_policy_store
    <3> QED
      BY <2>3, <3>1 DEF set_policy_store, Committed, TypeOK
  <2>4. ASSUME NEW c \in Callers, set_policy_compile(c)
        PROVE  Map!Next \/ UNCHANGED <<Committed, code>>
    <3> DEFINE o == Head(todo[c])
    <3>1. todo[c] # << >> /\ o.op = "set" /\ sem = c /\ strings[o.name] = o.text
      BY <2>4 DEF set_policy_compile, Holding
    <3>2. o.name \in Names /\ o.text \in Texts \cup {NoText}
      BY <3>1, NextOperation, SetOperation
    <3>3. Committed = [strings EXCEPT ![o.name] = old] /\ Committed' = strings'
      BY <2>4, <3>1 DEF set_policy_compile, Committed
    <3>4. strings = [Committed EXCEPT ![o.name] = o.text]
      BY <3>1, <3>2, <3>3 DEF TypeOK
    <3>5. CASE accept(c) \/ raise(c)
      <4>1. Map!Set(o.name, o.text)
        BY <3>3, <3>4, <3>5 DEF accept, raise, Map!Set
      <4> QED
        BY <3>2, <4>1 DEF Map!Next
    <3>6. CASE refuse(c)
      BY <3>3, <3>6 DEF refuse
    <3> QED
      BY <2>4, <3>5, <3>6 DEF set_policy_compile
  <2>5. ASSUME NEW c \in Callers, get_strings(c)
        PROVE  UNCHANGED <<Committed, code>>
    BY <2>5 DEF get_strings, Committed
  <2>6. CASE evaluate_begin \/ Evaluate
    BY <2>6 DEF evaluate_begin, Evaluate, evaluate_text, evaluate_end, Committed
  <2>7. CASE UNCHANGED vars
    BY <2>7 DEF vars, Committed
  <2> QED
    BY <2>1, <2>2, <2>3, <2>4, <2>5, <2>6, <2>7 DEF Next, Operate, Map!Next
<1> QED
  BY <1>1, <1>2, Invariance, PTL DEF Spec, MapSpec, Map!Spec
=============================================================================
