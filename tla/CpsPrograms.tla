---------------------------- MODULE CpsPrograms -----------------------------
(***************************************************************************)
(* Programs for TLC to compile. A program makes what it does visible by calling  *)
(* out, which records its argument and returns it.                              *)
(***************************************************************************)
EXTENDS Sequences, TLC

CONSTANTS
    X, Y, F, G, M,                        \* local variables; the program assigns M
    Glob,                                 \* a global variable
    out, list, isnot, car, kn0, kn1,      \* global procedures
    one, two, tmpl, True, False, Undefined, AnyPattern

x == <<X>>
y == <<Y>>
f == <<F>>
g == <<G>>
m == <<M>>

SomePrimOps ==
    list :> [op |-> "List", required |-> 0, variadic |-> TRUE] @@
    isnot :> [op |-> "Not", required |-> 1, variadic |-> FALSE] @@
    car :> [op |-> "Car", required |-> 1, variadic |-> FALSE]
SomeKnown == kn0 :> [args |-> 1, returns |-> FALSE] @@ kn1 :> [args |-> 1, returns |-> TRUE]
SomeGlobals == Glob :> one
SomeMutable == {m}

lit(c) == [exp |-> "lit", val |-> c]
var(v) == [exp |-> "var", var |-> [kind |-> "local", name |-> v]]
global(v) == [exp |-> "var", var |-> [kind |-> "global", name |-> v]]
apply(op, args) == [exp |-> "apply", op |-> op, args |-> args]
call(p, arg) == apply(global(p), <<arg>>)
lambda(args, body) == [exp |-> "lambda", args |-> args, variadic |-> FALSE, body |-> body]
lambdaRest(args, body) == [exp |-> "lambda", args |-> args, variadic |-> TRUE, body |-> body]
let(v, e, body) == [exp |-> "let", binds |-> <<<<v, e>>>>, body |-> body]
letrec(binds, body) == [exp |-> "letrec", binds |-> binds, body |-> body]
if(c, s, e) == [exp |-> "if", cond |-> c, success |-> s, failure |-> <<e>>]
when(c, s) == [exp |-> "if", cond |-> c, success |-> s, failure |-> <<>>]
begin(exprs) == [exp |-> "begin", exprs |-> exprs]
set(v, e) == [exp |-> "set", var |-> [kind |-> "local", name |-> v], val |-> e]
setGlobal(v, e) == [exp |-> "set", var |-> [kind |-> "global", name |-> v], val |-> e]
and(a, b) == [exp |-> "and", args |-> <<a, b>>]
or(a, b) == [exp |-> "or", args |-> <<a, b>>]

-----------------------------------------------------------------------------
\* Expressions with and without an effect; more than one value, a procedure that returns none.
Small == {lit(one), lit(False), call(out, lit(one)), call(out, lit(False)), global(Glob), call(kn1, lit(two))}

\* Two of them within every form.
Forms(a, b) ==
    {begin(<<a, b>>), and(a, b), or(a, b), if(a, b, call(out, lit(two))), begin(<<when(a, b), lit(two)>>),
     apply(global(list), <<a, b>>), apply(lambda(<<x, y>>, call(out, var(y))), <<a, b>>),
     let(x, a, apply(global(list), <<b, var(x)>>)),
     letrec(<< <<x, a>> >>, apply(global(list), <<var(x), b>>)),
     begin(<<setGlobal(Glob, a), apply(global(list), <<b, global(Glob)>>)>>),
     let(m, a, begin(<<set(m, b), call(out, var(m))>>))}

\* A procedure f that is used as a value, in one place, in two, beside another one, recursively; one that
\* assigns its argument; a variable read before it is assigned.
Procedures(a, b) ==
    LET body == if(var(x), a, b)
    IN {let(f, lambda(<<x>>, body), begin(<<apply(var(f), <<lit(one)>>), apply(var(f), <<lit(False)>>)>>)),
        letrec(<< <<f, lambda(<<x>>, body)>> >>, call(out, apply(var(f), <<lit(one)>>))),
        letrec(<< <<f, lambda(<<x>>, body)>> >>,
               begin(<<apply(var(f), <<lit(one)>>), call(out, apply(var(f), <<lit(False)>>))>>)),
        letrec(<< <<f, lambda(<<x>>, body)>> >>,
               if(a, apply(var(f), <<lit(one)>>), apply(var(f), <<lit(False)>>))),
        letrec(<< <<f, lambda(<<x>>, if(var(x), apply(var(f), <<lit(False)>>), a))>> >>,
               call(out, apply(var(f), <<lit(one)>>))),
        letrec(<< <<f, lambda(<<x>>, if(var(x), begin(<<apply(var(f), <<lit(False)>>), a>>), b))>> >>,
               apply(var(f), <<lit(one)>>)),
        letrec(<< <<f, lambda(<<x>>, if(var(x), apply(var(g), <<a>>), b))>>,
                  <<g, lambda(<<y>>, apply(var(f), <<lit(False)>>))>> >>,
               call(out, apply(var(f), <<lit(one)>>))),
        letrec(<< <<f, lambda(<<x>>, letrec(<< <<g, lambda(<<y>>, apply(var(f), <<lit(False)>>))>> >>,
                                            if(var(x), apply(var(g), <<a>>), b)))>> >>,
               begin(<<apply(var(f), <<lit(one)>>), apply(var(f), <<lit(False)>>)>>)),
        letrec(<< <<f, lambda(<<x>>, call(out, var(x)))>>,
                  <<g, lambda(<<y>>, if(var(y), apply(var(f), <<a>>), apply(var(f), <<b>>)))>> >>,
               call(out, if(a, apply(var(g), <<lit(one)>>), apply(var(g), <<b>>)))),
        let(f, lambda(<<m>>, begin(<<call(out, var(m)), set(m, a), call(out, var(m))>>)),
            begin(<<apply(var(f), <<b>>), apply(var(f), <<lit(two)>>)>>)),
        let(m, a, let(x, var(m), begin(<<set(m, b), apply(global(list), <<var(x), var(m)>>)>>)))}

\* Wrong numbers of arguments and of values, variables without a value, procedures with no value.
Odd ==
    {apply(lambdaRest(<<x, y>>, call(out, var(y))), <<lit(one), lit(two), lit(one)>>),
     apply(lambdaRest(<<x, y>>, call(out, var(y))), <<lit(one)>>),
     apply(lambda(<<x, y>>, call(out, var(y))), <<lit(one)>>),
     letrec(<< <<f, lambda(<<x>>, call(out, var(x)))>> >>, begin(<<call(out, lit(one)), apply(var(f), <<>>)>>)),
     letrec(<< <<f, lambda(<<x>>, call(out, var(x)))>> >>,
            if(call(out, lit(one)), apply(var(f), <<lit(one), lit(two)>>), apply(var(f), <<lit(one)>>))),
     letrec(<< <<x, var(x)>> >>, var(x)), let(x, when(lit(False), lit(one)), var(x)),
     apply(lit(one), <<call(out, lit(two))>>), apply(global(isnot), <<call(out, lit(one))>>),
     apply(global(isnot), <<call(out, lit(one)), lit(two)>>), apply(global(car), <<call(out, lit(one))>>),
     apply(global(car), <<apply(global(list), <<call(out, lit(one))>>)>>),
     let(x, global(isnot), apply(var(x), <<lit(False)>>)), let(x, global(kn1), apply(var(x), <<lit(one)>>)),
     begin(<<call(kn0, lit(one)), call(kn1, lit(two))>>),
     [exp |-> "and", args |-> <<>>], [exp |-> "or", args |-> <<>>], begin(<<>>), [exp |-> "undefined"],
     letrec(<< <<m, lit(one)>>, <<f, lambda(<<x>>, set(m, var(x)))>> >>,
            begin(<<apply(var(f), <<lit(two)>>), call(out, var(m))>>)),
     letrec(<< <<m, lambda(<<>>, lit(one))>>, <<f, lambda(<<>>, apply(var(m), <<>>))>> >>,
            begin(<<set(m, lambda(<<>>, lit(two))), call(out, apply(var(f), <<>>))>>))}

Rule(pattern, v, fender, output) == [pattern |-> pattern, binds |-> v, fender |-> fender, output |-> output]
Transformers ==
    {[exp |-> "syntax-case", arg |-> call(out, lit(one)),
      rules |-> <<Rule(two, x, <<>>, lit(one)),
                  Rule(AnyPattern, y, <<call(out, lit(c))>>,
                       [exp |-> "syntax", template |-> tmpl, expansions |-> <<y>>])>>] : c \in {one, False}}

listOf(args) == apply(global(list), args)
twice(a, b) == begin(<<a, b>>)

\* Lists and closures that are shared, passed twice, kept in variables and in environments; known functions
\* that raise; more arguments than are passed directly.
Objects(a, b) ==
    LET two_(p, q) == twice(apply(var(f), p), apply(var(f), q))
        three == lambda(<<x, y, g>>, listOf(<<var(g), var(x), var(y), var(x)>>))
        threeRest == lambdaRest(<<x, y, g, m>>, begin(<<set(m, listOf(<<var(m), var(g)>>)), call(out, var(m)), var(x)>>))
    IN {let(x, listOf(<<a, b>>), listOf(<<var(x), var(x)>>)),
        let(x, listOf(<<a>>), begin(<<call(out, var(x)), call(kn1, var(x)), call(kn0, var(x)), var(x)>>)),
        let(x, listOf(<<a>>), if(b, call(out, var(x)), lit(two))),
        let(f, lambda(<<y>>, var(y)), let(x, listOf(<<a>>), begin(<<call(kn0, var(f)), var(x)>>))),
        let(f, lambda(<<y>>, var(y)), let(x, listOf(<<a>>), listOf(<<call(kn1, var(f)), var(f), var(x)>>))),
        let(f, lambda(<<y>>, var(y)), let(x, global(kn1), listOf(<<apply(var(x), <<var(f)>>), var(f)>>))),
        let(f, three, two_(<<listOf(<<a>>), b, lit(one)>>, <<a, listOf(<<b>>), listOf(<<a>>)>>)),
        let(f, threeRest, two_(<<a, b, listOf(<<a>>)>>, <<listOf(<<b>>), a, lit(two), b, listOf(<<a>>)>>)),
        let(f, lambdaRest(<<x, y>>, call(out, listOf(<<var(y), var(x)>>))),
            two_(<<listOf(<<a>>), b, lit(one), a>>, <<listOf(<<b>>)>>)),
        let(f, lambdaRest(<<y>>, var(y)), two_(<<a, b>>, <<listOf(<<b>>), a, b>>)),
        let(f, lambda(<<x>>, lambda(<<y>>, listOf(<<var(x), var(y)>>))),
            twice(apply(apply(var(f), <<listOf(<<a>>)>>), <<b>>), apply(apply(var(f), <<b>>), <<a>>))),
        let(x, listOf(<<a>>),
            letrec(<< <<f, lambda(<<y>>, if(var(y), apply(var(f), <<b>>), var(x)))>> >>, listOf(<<var(f), var(f)>>))),
        let(x, listOf(<<a>>), let(f, lambda(<<y, g>>, listOf(<<var(y), var(g), var(x)>>)),
                                  two_(<<var(x), var(x)>>, <<b, var(x)>>))),
        let(m, listOf(<<a>>), begin(<<set(m, listOf(<<b, var(m)>>)), call(out, var(m))>>)),
        begin(<<setGlobal(Glob, listOf(<<a>>)), call(out, global(Glob)), setGlobal(Glob, b), global(Glob)>>),
        let(x, global(list), twice(apply(var(x), <<a, b, listOf(<<a>>)>>), apply(var(x), <<b>>))),
        let(x, global(car), twice(apply(var(x), <<listOf(<<listOf(<<a>>), b>>)>>), apply(var(x), <<b>>))),
        let(x, global(out), twice(apply(var(x), <<listOf(<<a>>), b, listOf(<<b>>)>>), lit(one))),
        let(f, three, two_(<<a, b>>, <<b>>)), let(f, three, two_(<<a, b, a, listOf(<<b>>)>>, <<b>>)),
        let(f, lambda(<<x>>, var(x)), two_(<<listOf(<<a>>), b>>, <<b>>))}

SamplePrograms ==
    UNION {Forms(a, b) \cup Procedures(a, b) : a \in Small, b \in Small} \cup Odd \cup Transformers \cup
    UNION {Objects(a, b) : a \in {lit(one), call(out, lit(False))}, b \in {lit(two), call(out, lit(one))}}

\* A procedure that assigns a variable of the procedure it is in, and is called twice.
Captured ==
    {let(m, lit(one), let(f, lambda(<<x>>, begin(<<set(m, var(x)), var(m)>>)),
                          begin(<<apply(var(f), <<lit(one)>>), apply(var(f), <<lit(two)>>)>>)))}

\* The variable is read when its value is passed, then assigned.
ReadThenAssigned ==
    {let(m, lit(one), apply(lambda(<<y>>, begin(<<set(m, lit(two)), var(y)>>)), <<var(m)>>))}

\* The procedure that is applied uses its continuation twice.
TwoWays == {begin(<<lit(one), apply(lambda(<<>>, if(lit(one), lit(one), lit(two))), <<>>)>>)}
=============================================================================
