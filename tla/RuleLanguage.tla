---------------------------- MODULE RuleLanguage ----------------------------
(***************************************************************************)
(* The language of the rule files (mom/Policy/Parser.py): get_code turns   *)
(* tokens into trees, Eval walks a tree.  Scopes are dynamic, functions    *)
(* live in one global table, an exception ends the whole evaluation.       *)
(*                                                                         *)
(* A token is <<bracket>>, <<"symbol", parts>> (x.y has two parts),        *)
(* <<"operator", name>> (already mapped by operator_map), a string or a    *)
(* number; a tree is a token or <<"list", trees>>.  Numbers are fractions  *)
(* marked as float or not; evaluating a number or a string token gives     *)
(* the token.                                                              *)
(***************************************************************************)
EXTENDS Integers, Sequences, SequencesExt, FiniteSetsExt, Functions

CONSTANTS Host, NoTarget, PolicyError, IndexError

Sym(name) == <<"symbol", <<name>>>>
Dot(object, attribute) == <<"symbol", <<object, attribute>>>>
Op(name) == <<"operator", name>>
Text(s) == <<"string", s>>
Ratio(n, d, float) ==
  LET g == Max({k \in 1 .. d : n % k = 0 /\ d % k = 0})
  IN  <<"number", n \div g, d \div g, float>>
Int_(n) == Ratio(n, 1, FALSE)
Float(n, d) == Ratio(n, d, TRUE)
List(trees) == <<"list", trees>>

Nil == <<"none">>
Bool(b) == <<"bool", b>>
Entity(e) == <<"entity", e>>
Values(vs) == <<"values", vs>>

-----------------------------------------------------------------------------
(* get_code: the grammar of class Parser.                                  *)

Brackets == {"(", "[", "{"}
IsOpening(token) == Len(token) = 1 /\ token[1] \in Brackets
IsClosing(token) == Len(token) = 1 /\ token[1] \notin Brackets
Closing(token) ==
  <<CASE token[1] = "(" -> ")" [] token[1] = "[" -> "]" [] token[1] = "{" -> "}">>

(* { ... } is a list that begins with eval.                                *)
Bracketed(token, trees) ==
  List(IF token[1] = "{" THEN <<Sym("eval")>> \o trees ELSE trees)

RECURSIVE Value(_, _), ValueList(_, _)

(* Faulty variant: any closing bracket ends a list.                        *)
Value_lax(tokens, i) ==
  IF IsOpening(tokens[i])
  THEN LET inner == ValueList(tokens, i + 1)
       IN  [tree |-> Bracketed(tokens[i], inner.trees),
            next |-> inner.next + 1,
            ok   |-> inner.ok /\ inner.next =< Len(tokens)]
  ELSE [tree |-> tokens[i], next |-> i + 1, ok |-> TRUE]

(* p_value, p_list, p_bracket_list and p_curly_list at position i.         *)
Value(tokens, i) ==
  IF IsOpening(tokens[i])
  THEN LET inner == ValueList(tokens, i + 1)
       IN  [tree |-> Bracketed(tokens[i], inner.trees),
            next |-> inner.next + 1,
            ok   |-> /\ inner.ok /\ inner.next =< Len(tokens)
                     /\ tokens[inner.next] = Closing(tokens[i])]
  ELSE [tree |-> tokens[i], next |-> i + 1, ok |-> TRUE]

(* p_value_list: the values from position i to a closing bracket or the end. *)
ValueList(tokens, i) ==
  IF i > Len(tokens) \/ IsClosing(tokens[i])
  THEN [trees |-> << >>, next |-> i, ok |-> TRUE]
  ELSE LET first == Value(tokens, i)
           rest  == ValueList(tokens, first.next)
       IN  IF first.ok
           THEN [trees |-> <<first.tree>> \o rest.trees,
                 next |-> rest.next, ok |-> rest.ok]
           ELSE [trees |-> << >>, next |-> i, ok |-> FALSE]

(* The parser reports an error at the last token it accepted; of no tokens *)
(* at all there is none, and the exception is not the one get_code expects. *)
get_code(tokens) ==
  LET all == ValueList(tokens, 1)
  IN  CASE tokens = << >> -> IndexError
        [] tokens # << >> /\ all.ok /\ all.next > Len(tokens) -> all.trees
        [] OTHER -> PolicyError

-----------------------------------------------------------------------------
(***************************************************************************)
(* The state of an evaluation: stack (innermost scope first, functions     *)
(* from names to values), funcs, whether an exception was raised, and what *)
(* the entities' methods change: the ledger and the controls.  seen has    *)
(* the attributes each entity was given.                                   *)
(***************************************************************************)
Return(v, st) == [val |-> v, st |-> st]
Raise(st) == [val |-> Nil, st |-> [st EXCEPT !.raised = TRUE]]
Then(r, Continue(_, _)) == IF r.st.raised THEN r ELSE Continue(r.val, r.st)

enter_scope(st) == [st EXCEPT !.stack = <<[n \in {} |-> Nil]>> \o @]

(* Faulty variant: the scope stays.                                        *)
leave_scope_late(st) == st

leave_scope(st) == [st EXCEPT !.stack = Tail(@)]

(* hasattr and getattr of what a policy may hold; the attributes of other  *)
(* Python objects than entities are left out.                              *)
Methods == {"Control", "Opt_policy_get_command", "Opt_policy_set_command",
            "Opt_policy_used_percent", "Opt_policy_prop",
            "Opt_policy_print_zero", "Opt_policy_print_two"}
HasAttribute(v, a, st) ==
  v[1] = "entity" /\ (a \in Methods \/ a \in DOMAIN st.seen[v[2]])
Attribute(v, a, st) ==
  IF a \in Methods THEN <<"method", v[2], a>> ELSE st.seen[v[2]][a]

Undefined == <<"undefined">>

(* VariableStack.get: a scope whose object lacks the attribute is passed   *)
(* over.                                                                   *)
Lookup(name, st) ==
  LET object == <<Head(name)>>
      hits == {i \in DOMAIN st.stack :
                 /\ object \in DOMAIN st.stack[i]
                 /\ Len(name) > 1 => HasAttribute(st.stack[i][object], name[2], st)}
      found == st.stack[Min(hits)][object]
  IN  IF hits = {} THEN Undefined
      ELSE IF Len(name) > 1 THEN Attribute(found, name[2], st) ELSE found

Bind(scope, name, v) == [n \in DOMAIN scope \cup {name} |-> IF n = name THEN v ELSE scope[n]]

(* VariableStack.set with alloc: setdefault in the innermost scope.        *)
Allocate(name, v, st) ==
  IF name \in DOMAIN st.stack[1]
  THEN Return(st.stack[1][name], st)
  ELSE Return(v, [st EXCEPT !.stack[1] = Bind(@, name, v)])

(* Faulty variant: always in the innermost scope.                          *)
Assign_local(name, v, st) ==
  Return(v, [st EXCEPT !.stack[1] = Bind(@, name, v)])

(* VariableStack.set: the innermost scope that has the name.               *)
Assign(name, v, st) ==
  LET hits == {i \in DOMAIN st.stack : name \in DOMAIN st.stack[i]}
  IN  IF hits = {} THEN Raise(st)
      ELSE Return(v, [st EXCEPT !.stack[Min(hits)] = Bind(@, name, v)])

-----------------------------------------------------------------------------
(* The values of Python 2, as far as rules compute with them.              *)

IsNumber(v) == v[1] \in {"number", "bool"}
Number(v) == IF v[1] = "bool" THEN Int_(IF v[2] THEN 1 ELSE 0) ELSE v

Truth(v) ==
  CASE v[1] = "none"   -> FALSE
    [] v[1] = "bool"   -> v[2]
    [] v[1] = "number" -> v[2] # 0
    [] v[1] = "string" -> v[2] # ""
    [] v[1] = "values" -> v[2] # << >>
    [] OTHER -> TRUE

(* Different types are ordered as well: None, numbers, the rest (within    *)
(* which the order, of two strings for instance, is left out).             *)
Rank(v) == IF v = Nil THEN 0 ELSE IF IsNumber(v) THEN 1 ELSE 2
Less(v, w) ==
  IF IsNumber(v) /\ IsNumber(w)
  THEN Number(v)[2] * Number(w)[3] < Number(w)[2] * Number(v)[3]
  ELSE Rank(v) < Rank(w)
Equal(v, w) ==
  IF IsNumber(v) /\ IsNumber(w)
  THEN Number(v)[2] * Number(w)[3] = Number(w)[2] * Number(v)[3]
  ELSE v = w

(* + joins two strings or two lists, * repeats one; a count below one      *)
(* leaves the empty one.                                                   *)
IsSequence(v) == v[1] \in {"string", "values"}
IsCount(v) == IsNumber(v) /\ ~Number(v)[4]
Join(v, w) == <<v[1], v[2] \o w[2]>>
Repeat(v, count) ==
  LET times[k \in Nat] ==
        IF k = 0 THEN <<v[1], IF v[1] = "string" THEN "" ELSE << >>>>
        ELSE Join(times[k - 1], v)
  IN  times[Max({0, Number(count)[2]})]

(* c_add to c_shr on numbers; / of two integers rounds down.               *)
OnNumbers(op, v, w, st) ==
  LET a == Number(v)
      b == Number(w)
      float == a[4] \/ b[4]
  IN  IF ~IsNumber(v) \/ ~IsNumber(w) \/ (op = "div" /\ Number(w)[2] = 0)
         \/ (op \in {"shl", "shr"} /\ (float \/ Number(w)[2] < 0))
      THEN Raise(st)
      ELSE Return(
        CASE op = "add" -> Ratio(a[2] * b[3] + b[2] * a[3], a[3] * b[3], float)
          [] op = "sub" -> Ratio(a[2] * b[3] - b[2] * a[3], a[3] * b[3], float)
          [] op = "mul" -> Ratio(a[2] * b[2], a[3] * b[3], float)
          [] op = "div" /\ ~float /\ b[2] > 0 -> Int_(a[2] \div b[2])
          [] op = "div" /\ ~float /\ b[2] < 0 -> Int_((-a[2]) \div (-b[2]))
          [] op = "div" /\ float /\ b[2] > 0 -> Float(a[2] * b[3], a[3] * b[2])
          [] op = "div" /\ float /\ b[2] < 0 -> Float(-a[2] * b[3], a[3] * (-b[2]))
          [] op = "shl" -> Int_(a[2] * 2 ^ b[2])
          [] op = "shr" -> Int_(a[2] \div 2 ^ b[2]), st)

Arithmetic(op, v, w, st) ==
  CASE op = "add" /\ IsSequence(v) /\ v[1] = w[1]   -> Return(Join(v, w), st)
    [] op = "mul" /\ IsSequence(v) /\ IsCount(w)    -> Return(Repeat(v, w), st)
    [] op = "mul" /\ IsCount(v) /\ IsSequence(w)    -> Return(Repeat(w, v), st)
    [] OTHER -> OnNumbers(op, v, w, st)

Compare(op, v, w) ==
  CASE op = "lt"  -> Less(v, w)
    [] op = "gt"  -> Less(w, v)
    [] op = "lte" -> ~Less(w, v)
    [] op = "gte" -> ~Less(v, w)
    [] op = "eq"  -> Equal(v, w)
    [] op = "neq" -> ~Equal(v, w)

(* c_and and c_or: all arguments have been evaluated.                      *)
FirstOr(args, truth) ==
  LET hits == {i \in DOMAIN args : Truth(args[i]) = truth}
  IN  args[IF hits = {} THEN Len(args) ELSE Min(hits)]

(* c_min and c_max: the first of the least or greatest.                    *)
Extreme(args, op) ==
  args[Min({i \in DOMAIN args : \A j \in DOMAIN args : ~Compare(op, args[j], args[i])})]

(* c_null; a number is not null, an entity has no length at all.           *)
Null(args, st) ==
  LET stops == {i \in DOMAIN args : args[i] \notin {Nil, Text(""), Values(<< >>)}}
  IN  IF stops # {} /\ args[Min(stops)][1] = "entity" THEN Raise(st)
      ELSE Return(Bool(stops = {}), st)

-----------------------------------------------------------------------------
(***************************************************************************)
(* The methods of Entity the rules of testopt_adp_step.rules call, on an   *)
(* entity whose history is its last sample.                                *)
(***************************************************************************)
Invoke(e, method, args, st) ==
  CASE method = "Control" /\ Len(args) = 2 ->
         Return(Nil, [st EXCEPT !.control[e] = args[2]])
    [] method = "Opt_policy_get_command" /\ Len(args) = 1 -> Return(st.hostFree, st)
    [] method = "Opt_policy_set_command" /\ Len(args) = 2 ->
         LET v == Float(args[2][2], args[2][3])
         IN  Return(v, [st EXCEPT !.hostFree = v])
    [] method = "Opt_policy_used_percent" /\ Len(args) = 1 ->
         LET cur == st.seen[e]["balloon_cur"]
         IN  Arithmetic("div", Float(cur[2] - st.seen[e]["mem_unused"][2], 1), cur, st)
    [] method = "Opt_policy_prop" /\ Len(args) = 2 -> Return(Text("name"), st)
    [] method = "Opt_policy_print_zero" /\ Len(args) = 1 -> Return(Nil, st)
    [] method = "Opt_policy_print_two" /\ Len(args) = 3 -> Return(Nil, st)
    [] OTHER -> Raise(st)

(* The call of what the stack holds under the name of a function.       *)
Call(func, args, st) ==
  CASE func[1] = "method" -> Invoke(func[2], func[3], args, st)
    [] func = <<"external", "abs">> /\ Len(args) = 1 /\ IsNumber(args[1]) ->
         LET a == Number(args[1])
         IN  Return(Ratio(IF a[2] < 0 THEN -a[2] ELSE a[2], a[3], a[4]), st)
    [] func = <<"external", "debug">> /\ args # << >> -> Return(Last(args), st)
    [] OTHER -> Raise(st)

-----------------------------------------------------------------------------
(* What the docstrings of the c_ methods say of their arguments.           *)
Comparisons == {"lt", "gt", "lte", "gte", "eq", "neq"}
Operations == {"add", "sub", "mul", "div", "shl", "shr"}
Doc(name) ==
  CASE name \in {"def", "defun"}           -> <<"symbol", "code", "code">>
    [] name \in {"set", "setq", "defvar"}  -> <<"symbol", "value">>
    [] name = "let"                        -> <<"code", "code", "...">>
    [] name = "with"                       -> <<"symbol", "symbol", "code">>
    [] name = "if"                         -> <<"value", "code", "code">>
    [] name \in Comparisons \cup Operations -> <<"value", "value">>
    [] name \in {"and", "or", "min", "max"} -> <<"value", "...">>
    [] name = "not"                        -> <<"value">>
    [] name \in {"null", "valid"}          -> <<"...">>
    [] OTHER                               -> << >>

ArityFits(doc, n) ==
  IF Last(doc) = "..." THEN Len(doc) =< n + 1 ELSE Len(doc) = n

(* The last type before ... goes on for the arguments that follow.         *)
TypeOfArgument(doc, i) ==
  CASE i =< Len(doc) /\ doc[i] # "..." -> doc[i]
    [] Len(doc) > 1 -> doc[Len(doc) - 1]
    [] OTHER -> "value"

RECURSIVE Eval(_, _)

(* map(self.eval, trees)                                                   *)
EvalAll(trees, st) ==
  FoldLeft(LAMBDA r, tree : Then(r, LAMBDA vs, s :
             Then(Eval(tree, s), LAMBDA v, t : Return(Append(vs, v), t))),
           Return(<< >>, st), trees)

(* The arguments of a c_ method, left to right.                            *)
EvalArguments(doc, args, st) ==
  FoldLeftDomain(LAMBDA r, i : Then(r, LAMBDA vs, s :
      CASE TypeOfArgument(doc, i) = "code" -> Return(Append(vs, args[i]), s)
        [] TypeOfArgument(doc, i) = "symbol" ->
             IF args[i][1] = "symbol" THEN Return(Append(vs, args[i][2]), s)
             ELSE Raise(s)
        [] OTHER -> Then(Eval(args[i], s), LAMBDA v, t : Return(Append(vs, v), t))),
    Return(<< >>, st), args)

(* c_let: each value is evaluated in the new scope, after the earlier      *)
(* names of the list have been bound.                                      *)
BindPairs(pairs, st) ==
  FoldLeft(LAMBDA r, pair : Then(r, LAMBDA u, s :
      IF pair[1] # "list" \/ Len(pair[2]) # 2 \/ pair[2][1][1] # "symbol"
      THEN Raise(s)
      ELSE Then(Eval(pair[2][2], s), LAMBDA v, t : Allocate(pair[2][1][2], v, t))),
    Return(Nil, st), pairs)

Let(pairs, body, st) ==
  IF pairs[1] # "list" THEN Raise(st)
  ELSE Then(BindPairs(pairs[2], enter_scope(st)), LAMBDA u, s :
         Then(EvalAll(body, s), LAMBDA vs, t : Return(Last(vs), leave_scope(t))))

(* c_with: the body once for each item, each time in a scope of its own.   *)
With(iterable, iterator, body, st) ==
  LET list == Lookup(iterable, st)
  IN  IF list[1] # "values" THEN Raise(st)
      ELSE Then(FoldLeft(LAMBDA r, item : Then(r, LAMBDA vs, s :
                    Then(Allocate(iterator, item, enter_scope(s)), LAMBDA u, t :
                      Then(Eval(body, t), LAMBDA v, w :
                        Return(Append(vs, v), leave_scope(w))))),
                  Return(<< >>, st), list[2]),
                LAMBDA vs, s : Return(Values(vs), s))

(* The c_ methods on their arguments.                                      *)
BuiltIn(name, a, st) ==
  CASE name \in {"def", "defun"} ->
         Return(Text(Head(a[1])),
                [st EXCEPT !.funcs = Bind(@, a[1], [params |-> a[2], code |-> a[3]])])
    [] name \in {"set", "setq"} -> Assign(a[1], a[2], st)
    [] name = "defvar" -> Allocate(a[1], a[2], st)
    [] name = "let"    -> Let(a[1], Tail(a), st)
    [] name = "with"   -> With(a[1], a[2], a[3], st)
    [] name = "if"     -> Eval(IF Truth(a[1]) THEN a[2] ELSE a[3], st)
    [] name \in Operations  -> Arithmetic(name, a[1], a[2], st)
    [] name \in Comparisons -> Return(Bool(Compare(name, a[1], a[2])), st)
    [] name = "and"    -> Return(FirstOr(a, FALSE), st)
    [] name = "or"     -> Return(FirstOr(a, TRUE), st)
    [] name = "not"    -> Return(Bool(~Truth(a[1])), st)
    [] name = "min"    -> Return(Extreme(a, "lt"), st)
    [] name = "max"    -> Return(Extreme(a, "gt"), st)
    [] name = "null"   -> Null(a, st)
    [] name = "valid"  -> Return(Bool(\A i \in DOMAIN a : a[i] # Nil), st)

(* default: eval, or a function of the rules as a let of its parameters.   *)
CallDefined(name, args, st) ==
  IF name = <<"eval">>
  THEN IF args = << >> THEN Raise(st)
       ELSE Then(EvalAll(args, st), LAMBDA vs, s : Return(Last(vs), s))
  ELSE IF name \notin DOMAIN st.funcs \/ st.funcs[name].params[1] # "list"
          \/ Len(st.funcs[name].params[2]) # Len(args)
  THEN Raise(st)
  ELSE LET f == st.funcs[name]
       IN  Eval(List(<<Sym("let"),
                       List([i \in DOMAIN args |-> List(<<f.params[2][i], args[i]>>)]),
                       f.code>>), st)

(* A variable hides a c_ method, and that a function of the rules.         *)
EvalList(trees, st) ==
  LET node == Head(trees)
      name == IF node[1] = "operator" THEN <<node[2]>> ELSE node[2]
      args == Tail(trees)
      func == Lookup(name, st)
  IN  IF trees = << >> THEN Raise(st)
      ELSE IF node[1] \notin {"symbol", "operator"} THEN Raise(st)
      ELSE IF func \notin {Undefined, Nil}
      THEN Then(EvalAll(args, st), LAMBDA vs, s : Call(func, vs, s))
      ELSE IF Len(name) = 1 /\ Doc(name[1]) # << >>
      THEN IF ArityFits(Doc(name[1]), Len(args))
           THEN Then(EvalArguments(Doc(name[1]), args, st),
                     LAMBDA a, s : BuiltIn(name[1], a, s))
           ELSE Raise(st)
      ELSE CallDefined(name, args, st)

Eval(tree, st) ==
  CASE tree[1] = "list"   -> EvalList(tree[2], st)
    [] tree[1] \in {"number", "string"} -> Return(tree, st)
    [] tree = Sym("nil")  -> Return(Nil, st)
    [] tree[1] = "symbol" ->
         IF Lookup(tree[2], st) = Undefined THEN Raise(st)
         ELSE Return(Lookup(tree[2], st), st)
    [] OTHER -> Raise(st)
=============================================================================
