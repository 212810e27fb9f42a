----------------------------- MODULE CPrograms -----------------------------
(***************************************************************************)
(* Programs in the compiler's C dialect as trees, one record per AST node, *)
(* and what C says that they compute.  All values are int.  What is only   *)
(* compiled here, and never run against C, has no meaning: the bitwise and *)
(* logical operators but <<, the other unary ones, built-in operands and   *)
(* calls.  A state s has                                                   *)
(*   scopes   the values of the variables by scope, the innermost last     *)
(*   value    the value of the last expression                             *)
(*   how      how the last statement ended: next, break, continue, return  *)
(*   fuel     how many more iterations of loops are looked at              *)
(***************************************************************************)
EXTENDS Integers, SequencesExt

Constant(v) == [kind |-> "constant", value |-> v]
Identifier(x) == [kind |-> "identifier", id |-> x]
Binary(op, l, r) == [kind |-> "binary", op |-> op, left |-> l, right |-> r]
Index(x, position) == [kind |-> "index", id |-> x, position |-> position]
Unary(op, e) == [kind |-> "unary", op |-> op, operand |-> e]
Step(op, x) == Unary(op, Identifier(x))
BuiltIn(number) == [kind |-> "builtin", number |-> number]
Call(arguments) == [kind |-> "call", arguments |-> arguments]
Conditional(e, a, b) == [kind |-> "conditional", condition |-> e, then |-> a, else |-> b]
Assign(target, e) == [kind |-> "assign", target |-> target, value |-> e]

Declaration(x, n, array, es) ==
  [kind |-> "declaration", id |-> x, size |-> n, array |-> array, initial |-> es]
Declared(x) == Declaration(x, 1, FALSE, <<>>)
Initialised(x, e) == Declaration(x, 1, FALSE, <<e>>)
Array(x, n) == Declaration(x, n, TRUE, <<>>)
Listed(x, es) == Declaration(x, Len(es), TRUE, es)

Block(declarations, statements) ==
  [kind |-> "compound", declarations |-> declarations, statements |-> statements]
Evaluate(e) == [kind |-> "expression", expression |-> e]
If(e, a, b) == [kind |-> "if", condition |-> e, then |-> a, else |-> b]
While(e, body) == [kind |-> "while", condition |-> e, body |-> body]
For(init, e, update, body) ==
  [kind |-> "for", init |-> init, condition |-> e, update |-> update, body |-> body]
DoWhile(body, e) == [kind |-> "do", condition |-> e, body |-> body]
Break == [kind |-> "break"]
Continue == [kind |-> "continue"]
Return(e) == [kind |-> "return", expression |-> e]
Switch(e, cases) == [kind |-> "switch", condition |-> e, cases |-> cases]
Case(e, statements) == [values |-> <<e>>, statements |-> statements]
Default(statements) == [values |-> <<>>, statements |-> statements]
Kernel(threads, body) == [kind |-> "kernel", threads |-> threads, body |-> body]
Out(x) == [kind |-> "out", id |-> x]
Sync == [kind |-> "sync"]

-----------------------------------------------------------------------------
Truth(b) == IF b THEN 1 ELSE 0

Result(op, x, y) ==
  CASE op = "+" -> x + y
    [] op = "-" -> x - y
    [] op = "*" -> x * y
    [] op = "<" -> Truth(x < y)
    [] op = ">" -> Truth(x > y)
    [] op = "<=" -> Truth(x <= y)
    [] op = ">=" -> Truth(x >= y)
    [] op = "==" -> Truth(x = y)
    [] op = "!=" -> Truth(x # y)
    [] op = "<<" -> x * 2^y

Home(s, x) == SelectLastInSeq(s.scopes, LAMBDA scope : x \in DOMAIN scope)
Valued(s, v) == [s EXCEPT !.value = v]
Written(s, x, k, v) == Valued([s EXCEPT !.scopes[Home(s, x)][x][k] = v], v)

RECURSIVE Value(_, _), Element(_, _)

\* the element of its variable that e names
Element(s, e) == IF e.kind = "index" THEN Value(s, e.position).value + 1 ELSE 1

Value(s, e) ==
  CASE e.kind = "constant" -> Valued(s, e.value)
    [] e.kind \in {"identifier", "index"} ->
         Valued(s, s.scopes[Home(s, e.id)][e.id][Element(s, e)])
    [] e.kind = "binary" -> LET l == Value(s, e.left)
                                r == Value(l, e.right)
                            IN Valued(r, Result(e.op, l.value, r.value))
    [] e.kind = "unary" /\ e.op \in {"++", "--"} ->
         Written(s, e.operand.id, 1, Value(s, e.operand).value + IF e.op = "++" THEN 1 ELSE -1)
    [] e.kind = "conditional" ->
         LET c == Value(s, e.condition)
         IN Value(c, IF c.value # 0 THEN e.then ELSE e.else)
    [] e.kind = "assign" ->
         LET t == Value(s, e.value)
         IN Written(t, e.target.id, Element(t, e.target), t.value)

\* values that C leaves open are 0
Initially(s, d) ==
  LET values == FoldLeft(LAMBDA vs, e : Append(vs, Value(s, e).value), <<>>, d.initial)
      all == [k \in 1 .. d.size |-> IF k <= Len(values) THEN values[k] ELSE 0]
      scope == [x \in DOMAIN Last(s.scopes) \cup {d.id} |->
                  IF x = d.id THEN all ELSE Last(s.scopes)[x]]
  IN [s EXCEPT !.scopes = Append(Front(@), scope)]

(***************************************************************************)
(* A kernel is what each of its threads executes.  The threads of the      *)
(* kernels here all do the same, however often.                            *)
(***************************************************************************)
RECURSIVE Executed(_, _), Looped(_, _, _)

InOrder(s, statements) ==
  FoldLeft(LAMBDA t, x : IF t.how = "next" THEN Executed(t, x) ELSE t, s, statements)

\* the loop l from the test of its condition on; update is evaluated between iterations
Looped(s, l, update) ==
  LET c == Value(s, l.condition)
      b == Executed([c EXCEPT !.fuel = @ - 1], l.body)
  IN CASE s.fuel = 0 -> s
       [] s.fuel # 0 /\ c.value = 0 -> c
       [] s.fuel # 0 /\ c.value # 0 /\ b.how = "break" -> [b EXCEPT !.how = "next"]
       [] s.fuel # 0 /\ c.value # 0 /\ b.how = "return" -> b
       [] OTHER -> Looped(FoldLeft(Value, [b EXCEPT !.how = "next"], update), l, update)

Executed(s, x) ==
  CASE x.kind = "expression" -> Value(s, x.expression)
    [] x.kind = "compound" ->
         LET opened == [s EXCEPT !.scopes = Append(@, <<>>)]
             t == InOrder(FoldLeft(Initially, opened, x.declarations), x.statements)
         IN [t EXCEPT !.scopes = Front(@)]
    [] x.kind = "if" -> LET c == Value(s, x.condition)
                        IN InOrder(c, IF c.value # 0 THEN <<x.then>> ELSE x.else)
    [] x.kind = "while" -> Looped(s, x, <<>>)
    [] x.kind = "for" -> Looped(Value(s, x.init), x, <<x.update>>)
    [] x.kind \in {"break", "continue"} -> [s EXCEPT !.how = x.kind]
    [] x.kind = "return" -> [Value(s, x.expression) EXCEPT !.how = "return"]
    [] x.kind = "kernel" -> Executed(s, x.body)

(***************************************************************************)
(* The end of a function: its variables, and its value if it returned one. *)
(***************************************************************************)
Outcome(body, fuel) ==
  LET start == [scopes |-> <<<<>>>>, value |-> 0, how |-> "next", fuel |-> fuel]
  IN InOrder(FoldLeft(Initially, start, body.declarations), body.statements)
=============================================================================
