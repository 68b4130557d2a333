---------------------------- MODULE PolicyStore -----------------------------
(***************************************************************************)
(* The policies of a running momd (mom/Policy/Policy.py and the part of    *)
(* PolicyEngine.py that loads them): a set of named texts, compiled as one *)
(* text in the order of their names.  RPC calls replace, add and delete    *)
(* texts while the PolicyEngine thread evaluates the code; policy_sem      *)
(* protects one operation at a time, a call may take several.              *)
(*                                                                         *)
(* A text is good, bad (a syntax error: get_code raises PolicyError),      *)
(* garbled (a character no token begins with) or commented (its last line  *)
(* is a comment without a newline).  GenericScanner.tokenize calls         *)
(* t_default with one argument too many, so what no token matches is no    *)
(* PolicyError but a TypeError; and the parser of an empty list of tokens  *)
(* ends in an IndexError.  set_policy catches neither: the new text stays  *)
(* stored, the code stays as it was and the call ends.                     *)
(***************************************************************************)
EXTENDS Integers, Sequences

CONSTANTS LastName,     \* names are 1 .. LastName, in sorted order
          DefaultName,  \* "50_main_"
          Callers,      \* threads that call the exported functions
          Engine,       \* the PolicyEngine thread
          Free,         \* policy_sem is not held
          Good, Bad, Garbled, Commented,
          Blank,        \* those of Good and Commented without a token
          EmptyText,    \* ''
          NoText,       \* None
          NoCode,       \* the empty list of clear_policy
          PolicyFiles   \* functions from names to texts: what the configured
                        \* file or directory may hold

Names == 1 .. LastName
Texts == Good \cup Bad \cup Garbled \cup Commented

ASSUME StoreAssumption ==
  /\ LastName \in Nat
  /\ DefaultName \in Names
  /\ Engine \notin Callers /\ Free \notin Callers \cup {Engine}
  /\ Blank \subseteq Good \cup Commented /\ EmptyText \in Blank \ Commented
  /\ NoText \notin Texts
  /\ NoCode \notin [Names -> Texts \cup {NoText}]
  /\ \A f \in PolicyFiles :
       DOMAIN f \subseteq Names /\ \A n \in DOMAIN f : f[n] \in Texts

VARIABLES
  strings,  \* policy_strings
  code,     \* the texts it was compiled from
  sem,      \* who holds policy_sem
  todo,     \* the operations each call has still to perform
  old,      \* oldStr of the call that holds policy_sem
  running,  \* the code the current evaluation works through ...
  at,       \* ... and the last name it has passed
  reply     \* what getPolicy or getNamedPolicies returned, till the next call

vars == <<strings, code, sem, todo, old, running, at, reply>>

Operations == [op : {"clear", "get", "skip"}] \cup
              [op : {"set"}, name : Names, text : Texts \cup {NoText}]

NoStrings == [n \in Names |-> NoText]

(***************************************************************************)
(* get_code(Evaluator(), self._cat_policies()), the texts joined in the    *)
(* order of their names: what follows a comment closes it.  Joined texts   *)
(* that are '' are compiled as '0'; several blank ones are not ''.         *)
(***************************************************************************)
Unscannable(texts) ==  \* TypeError in tokenize
  \E n \in Names :
    \/ texts[n] \in Garbled
    \/ texts[n] \in Commented /\ \A m \in Names : m > n => texts[m] = NoText

NoTokens(texts) ==     \* IndexError in parse
  \E n \in Names :
    /\ texts[n] \in Blank
    /\ \A m \in Names \ {n} : texts[m] \in Blank \cup {NoText}
    /\ texts[n] = EmptyText => \E m \in Names \ {n} : texts[m] # NoText

Raises(texts) == Unscannable(texts) \/ NoTokens(texts)

Refused(texts) ==      \* PolicyError
  ~Raises(texts) /\ \E n \in Names : texts[n] \in Bad

Compiles(texts) == ~Raises(texts) /\ ~Refused(texts)

Init ==
  /\ strings = NoStrings
  /\ code = NoCode
  /\ sem = Free
  /\ todo = [c \in Callers |-> << >>]
  /\ old = NoText
  /\ running = NoCode
  /\ at = 0
  /\ reply = NoStrings

-----------------------------------------------------------------------------
(* The calls, as the operations they perform one after the other.          *)

ClearOp == [op |-> "clear"]
SetOp(n, text) == [op |-> "set", name |-> n, text |-> text]

Begin(c, operations) ==
  /\ todo[c] = << >>
  /\ todo' = [todo EXCEPT ![c] = operations]
  /\ reply' = NoStrings
  /\ UNCHANGED <<strings, code, sem, old, running, at>>

setNamedPolicy(c) ==
  \E n \in Names, text \in Texts \cup {NoText} : Begin(c, <<SetOp(n, text)>>)

setPolicy(c) ==
  \E text \in Texts \cup {NoText} :
    Begin(c, <<ClearOp, SetOp(DefaultName, text)>>)

(* load_policy: the files in sorted order.  A file that is unreadable or   *)
(* no .policy file is skipped; one that is refused does not stop the       *)
(* loading.                                                                *)
LoadOps(f) ==
  [n \in Names |-> IF n \in DOMAIN f THEN SetOp(n, f[n]) ELSE [op |-> "skip"]]

resetPolicies(c) ==
  \E f \in PolicyFiles : Begin(c, <<ClearOp>> \o LoadOps(f))

getPolicies(c) == Begin(c, <<[op |-> "get"]>>)

-----------------------------------------------------------------------------
(* The operations of class Policy.                                         *)

(* Faulty variant: policy_sem is not waited for.                           *)
clear_policy_unlocked(c) ==
  /\ todo[c] # << >> /\ Head(todo[c]).op = "clear"
  /\ strings' = NoStrings
  /\ code' = NoCode
  /\ todo' = [todo EXCEPT ![c] = Tail(@)]
  /\ UNCHANGED <<sem, old, running, at, reply>>

(* Faulty variant: the compiled code stays.                                *)
clear_policy_strings(c) ==
  /\ todo[c] # << >> /\ Head(todo[c]).op = "clear"
  /\ sem = Free
  /\ strings' = NoStrings
  /\ todo' = [todo EXCEPT ![c] = Tail(@)]
  /\ UNCHANGED <<code, sem, old, running, at, reply>>

clear_policy(c) ==
  /\ todo[c] # << >> /\ Head(todo[c]).op = "clear"
  /\ sem = Free
  /\ strings' = NoStrings
  /\ code' = NoCode
  /\ todo' = [todo EXCEPT ![c] = Tail(@)]
  /\ UNCHANGED <<sem, old, running, at, reply>>

(* set_policy up to the compilation: the text is stored or deleted.        *)
set_policy_store(c) ==
  /\ todo[c] # << >> /\ Head(todo[c]).op = "set"
  /\ sem = Free
  /\ sem' = c
  /\ old' = strings[Head(todo[c]).name]
  /\ strings' = [strings EXCEPT ![Head(todo[c]).name] = Head(todo[c]).text]
  /\ UNCHANGED <<code, todo, running, at, reply>>

skip_file(c) ==
  /\ todo[c] # << >> /\ Head(todo[c]).op = "skip"
  /\ todo' = [todo EXCEPT ![c] = Tail(@)]
  /\ UNCHANGED <<strings, code, sem, old, running, at, reply>>

(* Faulty variant: policy_sem is not waited for.                           *)
get_strings_unlocked(c) ==
  /\ todo[c] # << >> /\ Head(todo[c]).op = "get"
  /\ reply' = strings
  /\ todo' = [todo EXCEPT ![c] = Tail(@)]
  /\ UNCHANGED <<strings, code, sem, old, running, at>>

(* get_strings; get_string gives the same texts joined.                    *)
get_strings(c) ==
  /\ todo[c] # << >> /\ Head(todo[c]).op = "get"
  /\ sem = Free
  /\ reply' = strings
  /\ todo' = [todo EXCEPT ![c] = Tail(@)]
  /\ UNCHANGED <<strings, code, sem, old, running, at>>

(* Faulty variant: a refused text stays in the store.                      *)
refuse_keep(c) ==
  /\ Refused(strings)
  /\ todo' = [todo EXCEPT ![c] = Tail(@)]
  /\ UNCHANGED <<strings, code>>

(* Faulty variant: a refused text is tried again.                          *)
refuse_retry(c) ==
  /\ Refused(strings)
  /\ strings' = [strings EXCEPT ![Head(todo[c]).name] = old]
  /\ UNCHANGED <<code, todo>>

(* The rest of set_policy: the code or, after PolicyError, the old text    *)
(* again.  Any other exception ends the whole call.                        *)
accept(c) ==
  /\ Compiles(strings)
  /\ code' = strings
  /\ todo' = [todo EXCEPT ![c] = Tail(@)]
  /\ UNCHANGED strings

refuse(c) ==
  /\ Refused(strings)
  /\ strings' = [strings EXCEPT ![Head(todo[c]).name] = old]
  /\ todo' = [todo EXCEPT ![c] = Tail(@)]
  /\ UNCHANGED code

raise(c) ==
  /\ Raises(strings)
  /\ todo' = [todo EXCEPT ![c] = << >>]
  /\ UNCHANGED <<strings, code>>

set_policy_compile(c) ==
  /\ sem = c
  /\ accept(c) \/ refuse(c) \/ raise(c)
  /\ sem' = Free
  /\ old' = NoText
  /\ UNCHANGED <<running, at, reply>>

(* evaluate holds policy_sem for all texts; an expression that raises ends *)
(* the evaluation.                                                         *)
evaluate_begin ==
  /\ sem = Free
  /\ sem' = Engine
  /\ running' = code
  /\ at' = 0
  /\ UNCHANGED <<strings, code, todo, old, reply>>

evaluate_text ==
  /\ sem = Engine
  /\ running # NoCode /\ at < LastName
  /\ at' = at + 1
  /\ UNCHANGED <<strings, code, sem, todo, old, running, reply>>

evaluate_end ==
  /\ sem = Engine  \* at the end of the code or by an exception
  /\ sem' = Free
  /\ running' = NoCode
  /\ at' = 0
  /\ UNCHANGED <<strings, code, todo, old, reply>>

-----------------------------------------------------------------------------
Call(c) ==
  setNamedPolicy(c) \/ setPolicy(c) \/ resetPolicies(c) \/ getPolicies(c)

Operate(c) ==
  \/ clear_policy(c) \/ set_policy_store(c) \/ set_policy_compile(c)
  \/ get_strings(c) \/ skip_file(c)

Evaluate == evaluate_text \/ evaluate_end

Next == evaluate_begin \/ Evaluate \/ \E c \in Callers : Call(c) \/ Operate(c)

(* A thread waiting for policy_sem gets it: the engine sleeps between two  *)
(* evaluations, a caller between two calls (strong fairness).              *)
Fairness == /\ \A c \in Callers : SF_vars(Operate(c))
            /\ WF_vars(evaluate_end)

Spec == Init /\ [][Next]_vars /\ Fairness

-----------------------------------------------------------------------------
TypeOK ==
  /\ strings \in [Names -> Texts \cup {NoText}]
  /\ code \in [Names -> Texts \cup {NoText}] \cup {NoCode}
  /\ sem \in Callers \cup {Engine, Free}
  /\ todo \in [Callers -> Seq(Operations)]
  /\ old \in Texts \cup {NoText}
  /\ running \in [Names -> Texts \cup {NoText}] \cup {NoCode}
  /\ at \in 0 .. LastName
  /\ reply \in [Names -> Texts \cup {NoText}]

(* The texts as the last finished operation left them.                     *)
Committed ==
  IF sem \in Callers
  THEN [strings EXCEPT ![Head(todo[sem]).name] = old]
  ELSE strings

(***************************************************************************)
(* Outside set_policy the stored texts are none that get PolicyError, and  *)
(* when they compile at all, the code that will be evaluated next is       *)
(* theirs, or empty after clear_policy.  When they do not (an exception    *)
(* escaped from set_policy and left its text), the code is that of an      *)
(* earlier store as a whole.                                               *)
(***************************************************************************)
CodeIsOfStore ==
  /\ ~Refused(Committed)
  /\ Compiles(Committed) =>
       code = Committed \/ (code = NoCode /\ Committed = NoStrings)
  /\ code # NoCode => Compiles(code)

(***************************************************************************)
(* set_policy that deletes a name not in the store never gets to           *)
(* "del self.policy_strings[name]", which would raise KeyError: what is    *)
(* stored may raise, but PolicyError is never what it raises.              *)
(***************************************************************************)
DeleteNeverFaults ==
  \A c \in Callers :
    sem = c /\ old = NoText /\ Head(todo[c]).text = NoText => ~Refused(strings)

(***************************************************************************)
(* getPolicy and getNamedPolicies never return texts that setPolicy would  *)
(* refuse: never one that a concurrent call is trying out.                 *)
(***************************************************************************)
RepliesNeverRefused == ~Refused(reply)

(***************************************************************************)
(* The code being evaluated is the policy's from its first text to its     *)
(* last: no call changes it under an evaluation.                           *)
(***************************************************************************)
EvaluatesStoredPolicy == sem = Engine => running = code

(***************************************************************************)
(* The store implements the abstract map: texts that compile change        *)
(* together with their code, texts that raise change alone, and refused    *)
(* texts change nothing.                                                   *)
(***************************************************************************)
Map == INSTANCE PolicyMap WITH store <- Committed

MapSpec == Map!Spec

(***************************************************************************)
(* Every call returns, whatever texts it and the other callers bring.      *)
(***************************************************************************)
CallReturns == \A c \in Callers : todo[c] # << >> ~> todo[c] = << >>
=============================================================================
