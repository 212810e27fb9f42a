----------------------------- MODULE MCCompiler -----------------------------
(***************************************************************************)
(* Functions of the C dialect: expressions two operators deep, loops with  *)
(* break and continue in blocks in loops, arrays, and what is refused.     *)
(***************************************************************************)
EXTENDS Compiler

x == Identifier("x")
y == Identifier("y")
i == Identifier("i")

Less(l, r) == Binary("<", l, r)
Equal(l, r) == Binary("==", l, r)
Plus(l, r) == Binary("+", l, r)
Set(target, e) == Evaluate(Assign(target, e))
Body(statements) == Block(<<>>, statements)

\* F of every element of s, as a sequence
Each(s, F(_)) == [k \in DOMAIN s |-> F(s[k])]

Locals == <<Initialised("x", Constant(3)), Initialised("y", Constant(1)),
            Listed("a", <<Constant(5), Plus(x, y)>>), Initialised("z", x), Declared("i")>>

\* The test benches answer 0 or 0xDEADBEEF where nobody has written to memory.
Pattern == -559038737

Program(kind_, body_, fills) ==
  [kind |-> kind_, parameters |-> <<>>, body |-> body_, fills |-> fills]
Meant(statements) == Program("function", Block(Locals, statements), {0})
Other(statements) == Program("open", Block(Locals, statements), {0})

-----------------------------------------------------------------------------
Leaves == <<Constant(2), x, Index("a", y)>>
Sums == FlattenSeq(Each(<<"+", "-", "*", "<", "==">>, LAMBDA op :
          FlattenSeq(Each(Leaves, LAMBDA l :
            Each(Append(Leaves, Step("--", "z")), LAMBDA r : Binary(op, l, r))))))

Calculations ==
  Each(Sums \o Each(Sums, LAMBDA e : Binary("-", Plus(x, y), e))
            \o Each(Sums, LAMBDA e : Binary("*", e, Plus(x, y)))
            \o Each(Sums, LAMBDA e : Conditional(e, Less(x, y), Conditional(x, e, y))),
       LAMBDA e : Meant(<<Set(i, e), Set(Index("a", Constant(0)), Plus(x, i)), Return(i)>>))

-----------------------------------------------------------------------------
Endings == <<Break, Continue, Return(Plus(x, i)), Set(y, Binary("*", y, Constant(2)))>>

\* with an x of its own, which hides the other one
Nested(s) == Block(<<Initialised("x", Plus(i, y))>>,
                   <<If(Equal(x, Constant(2)), Body(<<s>>), <<>>)>>)

Bodies == Each(Endings, LAMBDA s : Body(<<If(Less(i, y), Body(<<Set(x, i)>>), <<Body(<<s>>)>>)>>))
            \o Each(Endings, Nested)

Counting(s) == For(Assign(i, Constant(0)), Less(i, Constant(3)), Step("++", "i"), s)
Countdown(s) == While(x, Block(<<Initialised("n", x)>>,
                               <<Set(x, Binary("-", Identifier("n"), Constant(1))), s>>))

Loops ==
  Each(Bodies, LAMBDA s : Meant(<<Counting(s), Return(y)>>))
    \o Each(Bodies, LAMBDA s : Meant(<<Set(i, Constant(1)), While(Less(y, Constant(3)),
         Body(<<Set(y, Plus(y, Constant(1))), s>>))>>))
    \o Each(Endings, LAMBDA s : Meant(<<Counting(Countdown(s)), Return(x)>>))
    \o Each(Endings, LAMBDA s : Meant(<<Set(i, y), Countdown(Counting(Nested(s)))>>))

-----------------------------------------------------------------------------
\* Variables without a value up to the end of the slack.
Crowded == Program("function",
  Block(<<Declared("b"), Initialised("x", Constant(4)), Declared("c")>>,
        <<Set(Identifier("b"), x), Set(Identifier("c"), Binary("<<", x, x)),
          Block(<<Declared("d")>>, <<Set(Identifier("d"), x)>>)>>), {0})

Refused ==
  <<Other(<<Set(i, Binary("!=", x, y))>>),
    Other(<<Set(i, Binary(">", x, y))>>), Other(<<Set(i, Binary("<=", x, y))>>),
    Other(<<DoWhile(Body(<<Set(x, y), Continue>>), x)>>),
    Other(<<Switch(x, <<Case(Constant(3), <<Set(x, y), Break>>), Default(<<Set(x, i)>>)>>)>>),
    Other([k \in 1 .. 8 |-> Evaluate(Step("++", "x"))])>>

-----------------------------------------------------------------------------
(***************************************************************************)
(* Kernels.  Their bodies do the same in every thread.  The variables that *)
(* they read are the function's, the places that they write its array's.   *)
(***************************************************************************)
a(k) == Index("a", Constant(k))
OfThreads(n, statements, fills) ==
  Program("kernel", Block(Locals, <<Kernel(n, Body(statements))>>), fills)

Copying == <<Set(a(0), Plus(x, a(1)))>>
Summing == <<Counting(Body(<<Set(a(1), Plus(Binary("*", x, y), i))>>))>>
Branching == <<If(Less(y, x), Body(<<Set(a(0), x), If(Less(y, x), Body(<<Set(a(1), y)>>), <<>>)>>), <<>>),
               If(Less(x, y), Body(<<Set(a(0), Constant(9))>>), <<>>)>>

Kernels == <<OfThreads(1, Copying, {0, Pattern}), OfThreads(5, Copying, {0, Pattern}),
             OfThreads(2, Summing, {0, Pattern}), OfThreads(2, Branching, {Pattern})>>

OneKernel == <<OfThreads(4, Copying, {0, Pattern})>>

(***************************************************************************)
(* What is compiled but means something else, or nothing.                  *)
(***************************************************************************)
InKernel(statements) == Other(<<Kernel(2, Body(statements)), Set(i, Constant(3))>>)
Of(names, statements) == [Other(statements) EXCEPT !.parameters = names]
Within == Of(<<"p", "q">>,
  <<Set(i, Plus(Identifier("q"), Call(<<x, Plus(Identifier("p"), Call(<<y, y>>))>>)))>>)
Many == Of(<<"p", "q", "r", "s", "t", "u", "v", "w", "m", "n">>,
           <<Return(Plus(Identifier("n"), x))>>)

Compiled ==
  <<InKernel(<<Set(Index("a", BuiltIn(26)), x)>>), InKernel(<<Set(i, x), Set(Index("a", i), y)>>),
    InKernel(<<If(Less(x, y), Body(<<Set(a(0), x)>>), <<Body(<<Set(a(0), y)>>)>>)>>),
    InKernel(<<Set(x, Conditional(Binary("<=", x, y), x, y))>>),
    InKernel(<<While(Less(x, y), Body(<<Set(y, x)>>)), Set(a(0), BuiltIn(30))>>),
    Other(<<Out("a"), Out("a"), Sync, Set(x, BuiltIn(26))>>),
    Within, Many>>
    \o Each(<<"-", "+", "~", "!">>, LAMBDA op : Other(<<Evaluate(Unary(op, x)), Set(y, Unary(op, Plus(x, y)))>>))
    \o Each(<<"&&", "||", "&", "|", "^", ">>">>, LAMBDA op : Other(<<Set(x, Binary(op, x, Less(x, y)))>>))

MCPrograms == Calculations \o Loops \o <<Crowded>> \o Refused \o Kernels \o Compiled
=============================================================================
