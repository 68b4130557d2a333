----------------------------- MODULE RuleEngine -----------------------------
(***************************************************************************)
(* momd with one policy text: set_policy compiles it, and every tick       *)
(* (PolicyEngine.do_controls) evaluates it with a fresh Evaluator on what  *)
(* the guests report.  The texts are short token sequences, the programs   *)
(* of tests/ParserTests.py, and rules/testopt_adp_step.rules, the step     *)
(* policy of Entity.opt_policy_step written in the rule language, whole    *)
(* and with a function missing (as change_big_enough is missing from       *)
(* rules/balloon.rules).                                                   *)
(*                                                                         *)
(* A guest that was given a target has its size by the next tick; only the *)
(* memory it uses changes in between.                                      *)
(***************************************************************************)
EXTENDS RuleLanguage

CONSTANTS Guests, GuestOrder,  \* guest_list
          BalloonMin, BalloonMax, Den,
          GrowStep, ShrinkStep, StepGap,  \* the constants of the rule file ...
          GrowThreshold, ShrinkThreshold, \* ... these two in units of 1 / Den
          InitialHostFree, InitialCur,
          UnusedLevels,
          ShortTexts,  \* token sequences
          Programs,    \* [rules, expect]: trees and what they evaluate to
          NoCode, NoResults, Raised

ASSUME EngineAssumption ==
  /\ BalloonMin =< BalloonMax /\ BalloonMin > 0 /\ StepGap > 0
  /\ ShrinkThreshold =< GrowThreshold
  /\ InitialCur \in [Guests -> BalloonMin .. BalloonMax]
  /\ \A g \in Guests : \E i \in DOMAIN GuestOrder : GuestOrder[i] = g

VARIABLES tokens, code,      \* the text of the policy and its code
          cur, unused,       \* the sample of each guest
          hostFree,          \* host_free.txt
          results, scopes,   \* of the last evaluation, and the depth it left
          failed,            \* some evaluation has raised
          due                \* the next tick is due

vars == <<tokens, code, cur, unused, hostFree, results, scopes, failed, due>>

-----------------------------------------------------------------------------
(* rules/testopt_adp_step.rules                                            *)

Do(name, args) == List(<<Sym(name)>> \o args)
On(object, method, args) == List(<<Dot(object, method)>> \o args)
Let2(name, value) == Do("defvar", <<Sym(name), value>>)
Block(trees) == List(<<Sym("eval")>> \o trees)
Define(name, params, body) ==
  Do("def", <<Sym(name), List([i \in DOMAIN params |-> Sym(params[i])]), Block(body)>>)
Cur == Dot("guest", "balloon_cur")
Charged == List(<<Op("sub"), Sym("hostfree"), List(<<Op("sub"), Sym("target"), Cur>>)>>)

Constants ==
  << Let2("grow_threshold", Float(GrowThreshold, Den)),
     Let2("shrink_threshold", Float(ShrinkThreshold, Den)),
     Let2("grow_step", Int_(GrowStep)), Let2("shrink_step", Int_(ShrinkStep)),
     Let2("step_gap", Int_(StepGap)) >>

mem_control ==
  Define("mem_control", <<"guest", "target", "new_hostfree">>,
    << Let2("hostfree", On("Host", "Opt_policy_set_command",
                           <<Text("set_hostpressure"), Sym("new_hostfree")>>)),
       Let2("tmp", On("guest", "Control", <<Text("balloon_target"), Sym("target")>>)) >>)

(* Faulty variant: new_hostfree is that of grow_guest, found by the        *)
(* dynamic scopes.                                                         *)
retry_grow_guest_inherits ==
  Define("retry_grow_guest", <<"guest", "hostfree">>,
    << Let2("new_step", List(<<Op("div"), Sym("hostfree"), Sym("step_gap")>>)),
       Do("set", <<Sym("new_step"), List(<<Op("mul"), Sym("new_step"), Sym("step_gap")>>)>>),
       Let2("target", List(<<Op("add"), Cur, Sym("new_step")>>)),
       Let2("tmp", Do("mem_control", <<Sym("guest"), Sym("target"), Sym("new_hostfree")>>)) >>)

retry_grow_guest ==
  Define("retry_grow_guest", <<"guest", "hostfree">>,
    << Let2("new_step", List(<<Op("div"), Sym("hostfree"), Sym("step_gap")>>)),
       Do("set", <<Sym("new_step"), List(<<Op("mul"), Sym("new_step"), Sym("step_gap")>>)>>),
       Let2("target", List(<<Op("add"), Cur, Sym("new_step")>>)),
       Let2("new_hostfree", Charged),
       Let2("tmp", Do("mem_control", <<Sym("guest"), Sym("target"), Sym("new_hostfree")>>)) >>)

GetHostFree == On("Host", "Opt_policy_get_command", <<Text("get_hostpressure")>>)

(* Faulty variant: the whole step, whatever balloon_max and host_free.txt. *)
grow_guest_unchecked ==
  Define("grow_guest", <<"guest">>,
    << Let2("target", List(<<Op("add"), Cur, Sym("grow_step")>>)),
       Let2("hostfree", GetHostFree),
       Let2("new_hostfree", Charged),
       Do("mem_control", <<Sym("guest"), Sym("target"), Sym("new_hostfree")>>) >>)

grow_guest ==
  Define("grow_guest", <<"guest">>,
    << Let2("tmp", On("Host", "Opt_policy_print_zero", <<Text("growing guest...")>>)),
       Let2("target", List(<<Op("add"), Cur, Sym("grow_step")>>)),
       Do("if", <<List(<<Op("gt"), Sym("target"), Dot("guest", "balloon_max")>>),
                  Do("set", <<Sym("target"), Dot("guest", "balloon_max")>>), Int_(0)>>),
       Let2("hostfree", GetHostFree),
       Let2("new_hostfree", Charged),
       Do("if", <<List(<<Op("gt"), Sym("new_hostfree"), Int_(0)>>),
                  Do("mem_control", <<Sym("guest"), Sym("target"), Sym("new_hostfree")>>),
                  Do("retry_grow_guest", <<Sym("guest"), Sym("hostfree")>>)>>) >>)

shrink_guest ==
  Define("shrink_guest", <<"guest">>,
    << Let2("tmp", On("Host", "Opt_policy_print_zero", <<Text("shrinking guest...")>>)),
       Let2("target", List(<<Op("sub"), Cur, Sym("shrink_step")>>)),
       Do("if", <<List(<<Op("lt"), Sym("target"), Dot("guest", "balloon_min")>>),
                  Do("set", <<Sym("target"), Dot("guest", "balloon_min")>>), Int_(0)>>),
       Let2("hostfree", GetHostFree),
       Let2("new_hostfree", Charged),
       Let2("tmp", Do("mem_control", <<Sym("guest"), Sym("target"), Sym("new_hostfree")>>)) >>)

apply_guest ==
  Define("apply_guest", <<"guest">>,
    << Let2("name", On("guest", "Opt_policy_prop", <<Sym("guest"), Text("name")>>)),
       Let2("tmp", On("Host", "Opt_policy_print_two",
                      <<Text("%s -- balloon_cur:%d"), Sym("name"), Cur>>)),
       Let2("guest_used_percent", On("guest", "Opt_policy_used_percent", <<Sym("guest")>>)),
       Do("if", <<List(<<Op("lt"), Sym("guest_used_percent"), Sym("shrink_threshold")>>),
                  Do("shrink_guest", <<Sym("guest")>>), Int_(0)>>),
       Do("if", <<List(<<Op("gt"), Sym("guest_used_percent"), Sym("grow_threshold")>>),
                  Do("grow_guest", <<Sym("guest")>>), Int_(0)>>) >>)

Main == Do("with", <<Sym("Guests"), Sym("guest"), Do("apply_guest", <<Sym("guest")>>)>>)

adp_step_rules ==
  Constants \o <<mem_control, retry_grow_guest, grow_guest, shrink_guest, apply_guest, Main>>

without_retry_rules ==
  Constants \o <<mem_control, grow_guest, shrink_guest, apply_guest, Main>>

-----------------------------------------------------------------------------
(* Trees as the text of a rule file; a list that begins with eval is { }.  *)
RECURSIVE Write(_)
AsText(trees) == FlattenSeq([i \in DOMAIN trees |-> Write(trees[i])])
Write(tree) ==
  IF tree[1] # "list" THEN <<tree>>
  ELSE IF tree[2] # << >> /\ Head(tree[2]) = Sym("eval")
  THEN << <<"{">> >> \o AsText(Tail(tree[2])) \o << <<"}">> >>
  ELSE << <<"(">> >> \o AsText(tree[2]) \o << <<")">> >>

RuleFiles == {AsText(adp_step_rules), AsText(without_retry_rules)}

Init ==
  /\ tokens \in ShortTexts \cup {AsText(p.rules) : p \in Programs} \cup RuleFiles
  /\ code = NoCode
  /\ cur = InitialCur
  /\ unused = [g \in Guests |-> 0]
  /\ hostFree = Float(InitialHostFree, 1)
  /\ results = NoResults
  /\ scopes = 1
  /\ failed = FALSE
  /\ due = TRUE

(* What get_code gives is kept, its exceptions as well: a policy whose     *)
(* text raised one has no code to evaluate.                                *)
set_policy ==
  /\ code = NoCode
  /\ code' = get_code(tokens)
  /\ UNCHANGED <<tokens, cur, unused, hostFree, results, scopes, failed, due>>

(* interrogate: what an evaluation finds in the entities.                  *)
Seen == [e \in Guests \cup {Host} |->
          IF e = Host THEN [mem_free |-> Int_(0)]
          ELSE [balloon_cur |-> Int_(cur[e]), mem_unused |-> Int_(unused[e]),
                balloon_min |-> Int_(BalloonMin), balloon_max |-> Int_(BalloonMax)]]

(* A new Evaluator, with the external functions, Host and Guests.          *)
Globals ==
  [n \in {<<"abs">>, <<"debug">>, <<"Host">>, <<"Guests">>} |->
    CASE n = <<"Host">> -> Entity(Host)
      [] n = <<"Guests">> -> Values([i \in DOMAIN GuestOrder |-> Entity(GuestOrder[i])])
      [] OTHER -> <<"external", n[1]>>]

Evaluation ==
  EvalAll(code,
    [stack |-> <<Globals>>, funcs |-> [n \in {} |-> Nil], raised |-> FALSE,
     hostFree |-> hostFree, control |-> [g \in Guests |-> NoTarget], seen |-> Seen])

(* One tick: the policy, then the Balloon controller unless it raised.     *)
do_controls ==
  /\ due
  /\ code \notin {NoCode, PolicyError, IndexError}
  /\ LET e == Evaluation
     IN  /\ hostFree' = e.st.hostFree
         /\ scopes' = Len(e.st.stack)
         /\ failed' = (failed \/ e.st.raised)
         /\ results' = IF e.st.raised THEN Raised ELSE e.val
         /\ cur' = [g \in Guests |->
                     IF e.st.raised \/ e.st.control[g] = NoTarget
                     THEN cur[g] ELSE e.st.control[g][2]]
  /\ due' = FALSE
  /\ UNCHANGED <<tokens, code, unused>>

(* The guests until the next sample.                                       *)
Use ==
  /\ ~due /\ tokens \in RuleFiles
  /\ unused' \in [Guests -> UnusedLevels]
  /\ \A g \in Guests : unused'[g] =< cur[g]
  /\ due' = TRUE
  /\ results' = NoResults
  /\ UNCHANGED <<tokens, code, cur, hostFree, scopes, failed>>

Next == set_policy \/ do_controls \/ Use

Spec == Init /\ [][Next]_vars

-----------------------------------------------------------------------------
Sum(sizes) == FoldFunction(LAMBDA a, b : a + b, 0, sizes)

TypeOK ==
  /\ cur \in [Guests -> BalloonMin .. BalloonMax]
  /\ unused \in [Guests -> UnusedLevels \cup {0}]
  /\ hostFree = Float(hostFree[2], hostFree[3])
  /\ scopes \in Nat /\ failed \in BOOLEAN /\ due \in BOOLEAN

RECURSIVE Balanced(_)
Balanced(text) ==
  LET brackets == SelectSeq(text, LAMBDA t : Len(t) = 1)
      pairs == {i \in 1 .. Len(brackets) - 1 :
                  IsOpening(brackets[i]) /\ brackets[i + 1] = Closing(brackets[i])}
  IN  \/ brackets = << >>
      \/ pairs # {} /\ Balanced(RemoveAt(RemoveAt(brackets, Min(pairs)), Min(pairs)))

(* The text with ( ) for [ ].                                              *)
Plain(text) ==
  [i \in DOMAIN text |->
    CASE text[i] = <<"[">> -> <<"(">> [] text[i] = <<"]">> -> <<")">> [] OTHER -> text[i]]

(***************************************************************************)
(* A text with tokens compiles exactly when every bracket is closed by one *)
(* of its kind, and the code then nests every token as the text does:      *)
(* nothing is dropped, moved or taken into another list (get_code and its  *)
(* grammar).  PolicyError is the answer to every other text with tokens;   *)
(* a text without any raises what no caller of get_code expects.           *)
(***************************************************************************)
CompiledAsWritten ==
  code # NoCode =>
    CASE tokens = << >> -> code = IndexError
      [] tokens # << >> /\ Balanced(tokens) ->
           code # PolicyError /\ AsText(code) = Plain(tokens)
      [] OTHER -> code = PolicyError

(***************************************************************************)
(* Calls, let and with leave every scope they entered: after an evaluation *)
(* that did not raise only the globals are left.                           *)
(***************************************************************************)
ScopesBalanced == results \notin {NoResults, Raised} => scopes = 1

RuleInv == TypeOK /\ ScopesBalanced

(***************************************************************************)
(* The programs taken from tests/ParserTests.py evaluate to what the tests *)
(* expect, and the calls of a function of two parameters with every pair   *)
(* of arguments to what it makes of them, where the second argument sees   *)
(* the first parameter instead of the caller's variable of that name.      *)
(***************************************************************************)
ProgramsEvaluate ==
  \A p \in Programs :
    tokens = AsText(p.rules) /\ results # NoResults => results = p.expect

(***************************************************************************)
(* As long as no evaluation has raised, what host_free.txt and the guests  *)
(* hold together stays the same; a rule that raises half way leaves the    *)
(* charges of the guests before it, and only that does.                    *)
(***************************************************************************)
LedgerExact ==
  ~failed => hostFree = Float(InitialHostFree + Sum(InitialCur) - Sum(cur), 1)

StepPolicy == INSTANCE BalloonPolicy WITH Chunk <- 1, MB <- 1

Parameters == [grow_threshold |-> GrowThreshold, shrink_threshold |-> ShrinkThreshold,
               grow_step |-> GrowStep, shrink_step |-> ShrinkStep]

(* opt_policy_step for one guest after the other.                          *)
StepTick ==
  FoldLeft(LAMBDA acc, g :
      LET target == StepPolicy!opt_policy_step(
                      <<[cur |-> cur[g], unused |-> unused[g]]>>, acc.free, Parameters)
      IN  IF target = NoTarget THEN acc
          ELSE [free |-> acc.free - (target - cur[g]),
                cur |-> [acc.cur EXCEPT ![g] = target]],
    [free |-> hostFree[2], cur |-> cur], GuestOrder)

(***************************************************************************)
(* A tick of testopt_adp_step.rules does what opt_policy_step does, guest  *)
(* by guest over the same ledger, if the latter's reduced grow step is not *)
(* rounded to chunks: the rule divides and multiplies a float.             *)
(***************************************************************************)
AgreesWithOptStep ==
  [][tokens = AsText(adp_step_rules) /\ due /\ ~due' =>
       cur' = StepTick.cur /\ hostFree' = Float(StepTick.free, 1)]_vars
=============================================================================
