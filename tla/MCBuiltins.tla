----------------------------- MODULE MCBuiltins ------------------------------
EXTENDS Queries

S(k) == <<"s", k>>
Fn(t, u) == <<"->", t, u>>
i1 == Fn(S("i"), S("i"))
i2 == Fn(S("i"), i1)
O == S("o")
ListI == <<"f", "list", <<S("i")>> >>
TypeNamed(k) == CASE k = "list" -> ListI [] k = "fun" -> i1 [] OTHER -> S(k)

K(fix, prec, type) == [fix |-> fix, prec |-> prec, univ |-> 0, type |-> type]
Plain(type) == K("none", 0, type)

\* Operators of the object language, by fixity at two precedences.
Infix == [il |-> K("infixl", 150, i2), ir |-> K("infixr", 150, i2), in |-> K("infix", 150, i2),
          jl |-> K("infixl", 160, i2), jr |-> K("infixr", 140, i2), jn |-> K("infix", 140, i2)]
Unary == [pf |-> K("prefix", 155, i1), pr |-> K("prefixr", 170, i1),
          qr |-> K("prefixr", 120, i1), po |-> K("postfix", 150, i1),
          pl |-> K("postfixl", 150, i1)]

Ops2(type) == Fn(S(type), Fn(S(type), S(type)))
MCConsts ==
    Infix @@ Unary
    @@ [x \in {"a", "b"} |-> Plain(S("i"))]
    @@ [x \in {"f"} |-> Plain(i1)] @@ [x \in {"g"} |-> Plain(i2)]
    @@ [x \in {"h"} |-> Plain(Fn(i1, S("i")))]
    @@ [x \in {"nil"} |-> Plain(ListI)]
    @@ [x \in {"::"} |-> K("infixr", 140, Fn(S("i"), Fn(ListI, ListI)))]
    @@ [x \in {",", ";"} |-> K("infixl", IF x = "," THEN 110 ELSE 100, Ops2("o"))]
    @@ [x \in {"=", "is"} |-> K("infix", 130, Fn(S("i"), Fn(S("i"), O)))]
    @@ [x \in {"+", "-"} |-> K("infixl", 150, Ops2("int"))]
    @@ [x \in {"*", "div", "mod"} |-> K("infixl", 160, Ops2("int"))]
    @@ [x \in {"^"} |-> K("infixl", 150, Ops2("string"))]
    @@ [x \in DOMAIN OpArgs.int \cup DOMAIN OpArgs.real \cup DOMAIN OpArgs.string
               \cup Preds \cup DOMAIN StandardStreams
               \cup {"sigma", "pi", "true", "fail"} |-> Plain(O)]

MCCstTyEnvSize == [x \in DOMAIN MCConsts \cup {"univ"} |->
                      IF x \in TypedPreds \cup {"sigma", "pi"} THEN 1 ELSE 0]

-----------------------------------------------------------------------------
(* Trees.                                                                  *)

C(x) == <<"c", x, <<>> >>
Ty(x, k) == <<"c", x, <<TypeNamed(k)>> >>
Va(x) == <<"fv", <<"up", x, 0>>, 0>>
N(n) == <<"i", n>>
R(x) == <<"r", x>>
St(codes) == <<"s", [i \in DOMAIN codes |-> Ch(codes[i])]>>
Ap(f, args) == <<"app", f, args>>
La(t) == <<"lam", 1, t>>
b1 == <<"b", 1>>
b2 == <<"b", 2>>
Op1(c, t) == Ap(C(c), <<t>>)
Op2(c, t, u) == Ap(C(c), <<t, u>>)
ca == C("a")
cb == C("b")

RECURSIVE All(_)
All(gs) == IF Len(gs) = 1 THEN gs[1] ELSE Op2(",", gs[1], All(Tail(gs)))
Either(g, h) == Op2(";", g, h)
Eq(k, t, u) == Ap(Ty("=", k), <<t, u>>)
Is(k, t, u) == Ap(Ty("is", k), <<t, u>>)
Call(p, args) == Ap(C(p), args)
CallTy(p, k, args) == Ap(Ty(p, k), args)

X1 == Va("X")
Y1 == Va("Y")
Z1 == Va("Z")
S1 == Va("S")
T1 == Va("T")
P1 == Va("P")
Q1 == Va("Q")

Query(gs) == [term |-> All(gs), input |-> <<>>, same |-> <<>>]
Stop1 == St(<<46>>)

\* The characters of a file's name, of a text: letters, newlines.
ab == St(<<97, 98>>)
nlText == St(<<97, 10, 98, 99, 10, 100>>)
inName == St(<<105>>)
outName == St(<<111>>)
none == St(<<110>>)
MCFiles == {<<Ch(105)>>, <<Ch(111)>>}
MCReadable == (<<Ch(105)>> :> <<Ch(97), Newline, Newline, Ch(98)>>)

-----------------------------------------------------------------------------
(* Terms printed and read.                                                 *)

\* The operators of one term below another, at every place.
Flat(c) == IF c \in DOMAIN Infix THEN Op2(c, ca, cb) ELSE Op1(c, ca)
Nested(c, d) ==
    IF c \in DOMAIN Infix THEN {Op2(c, Flat(d), cb), Op2(c, cb, Flat(d))} ELSE {Op1(c, Flat(d))}
ObjectOps == DOMAIN Infix \cup DOMAIN Unary
OpTerms == UNION {Nested(c, d) : c, d \in ObjectOps}

\* A prefix operator is not written with the parentheses that the parser wants.
Unreadable == {Op2(c, Flat(d), cb) : c \in DOMAIN Infix, d \in {"pf", "pr", "qr"}}

PlainTerms ==
    {Ap(C("g"), <<Op1("f", Z1), Z1>>), Op1("h", La(b1)), Op1("h", La(Op2("g", b1, Va("W")))),
     Op1("h", La(Op1("h", La(Op2("g", b1, b2))))), Op2("g", Op1("h", La(b1)), Op1("h", La(b1))),
     Op2("il", Op1("f", ca), Op1("h", La(Op2("ir", b1, b1)))), Op1("f", Op2("jl", ca, cb)),
     Op2("g", Z1, Op2("il", Va("W"), Z1)), Op1("h", Va("F")), Op1("h", La(Ap(Va("F"), <<b1>>)))}
Manys[n \in Nat] == IF n = 0 THEN C("nil") ELSE Op2("::", <<"fv", <<"up", "M", n>>, 0>>,
                                                    Manys[n - 1])
Lists == {Op2("::", ca, C("nil")), Op2("::", Op2("::", ca, Z1), C("nil")),
          Op2("::", Op2("il", ca, cb), Op2("::", Z1, Va("W")))}

ByString(t, k) ==
    [Query(<<Eq(k, X1, t), CallTy("term_to_string", k, <<X1, S1>>),
             Is("string", T1, Op2("^", S1, Stop1)), CallTy("string_to_term", k, <<T1, Y1>>)>>)
     EXCEPT !.same = <<<<"up", "X", 0>>, <<"up", "Y", 0>>>>]
ByFile(t, k) ==
    [Query(<<Eq(k, X1, t), Call("open_out", <<outName, P1>>),
             CallTy("printterm", k, <<P1, X1>>), Call("output", <<P1, St(<<46, 10>>)>>),
             Call("close_out", <<P1>>), Call("open_in", <<outName, Q1>>),
             CallTy("readterm", k, <<Q1, Y1>>)>>)
     EXCEPT !.same = <<<<"up", "X", 0>>, <<"up", "Y", 0>>>>]

RoundTrips ==
    {ByString(t, "i") : t \in (OpTerms \ Unreadable) \cup PlainTerms}
    \cup {ByString(t, "list") : t \in Lists}
    \cup {ByString(N(40), "int"), ByString(R(6), "real"), ByString(ab, "string"),
          ByFile(Op1("h", La(Op2("g", b1, Z1))), "i"), ByFile(Op2("::", ca, Z1), "list")}

-----------------------------------------------------------------------------
(* Expressions.                                                            *)

Neg(n) == Op1("~", N(n))
Shared == Ap(La(Op2("*", Op2("+", b1, N(1)), Op2("-", b1, N(2)))), <<Op2("+", N(3), N(4))>>)
Ints ==
    {Op2(c, t, u) : c \in {"+", "-", "*", "div", "mod"}, t \in {N(7), Neg(7)}, u \in {N(2), Neg(2)}}
    \cup {Shared, Op2("+", N(100), N(100)), Op2("*", Op2("+", N(1), N(2)), Op2("-", N(9), N(4))),
          Op1("~", Op1("iabs", Neg(5))), Op2("div", N(1), Op2("-", N(2), N(2))),
          Op2("+", Z1, N(1)), Op2("+", N(1), ca), Op1("f", ca), ab, Op2("+", Z1, ab),
          Op1("size", Op2("^", ab, ab)), Op1("string_to_int", ab),
          Op1("floor", Op1("r~", R(5))), Op1("ceil", R(5)), Op1("truncate", Op1("r~", R(5))),
          Op1("size", Op2("^", ab, Z1)), Ap(Va("F"), <<N(1)>>), Op2("::", N(1), C("nil")),
          Op1("size", Op1("chr", N(300))), Op1("truncate", R(9))}
Reals ==
    {Op2(c, R(6), R(4)) : c \in {"r+", "r-", "r*", "/"}}
    \cup {Op1("sqrt", R(9 * 4)), Op1("sqrt", Op1("r~", R(4))), Op1("ln", R(4)), Op1("ln", R(0)),
          Op1("rabs", Op1("r~", R(3))), Op1("int_to_real", Op2("+", N(1), N(2))),
          Op2("/", R(4), Op2("r-", R(4), R(4))), Op2("r+", N(1), R(2)), Z1}
Strs ==
    {Op2("^", Op2("^", ab, Stop1), ab), Op2("^", ab, Op2("^", Stop1, ab)),
     Ap(C("substring"), <<Op2("^", ab, ab), N(1), Op2("+", N(1), N(1))>>),
     Ap(C("substring"), <<ab, N(1), N(2)>>), Ap(C("substring"), <<ab, N(2), N(0)>>),
     Ap(C("substring"), <<ab, N(1), Neg(1)>>), Ap(C("substring"), <<ab, Neg(1), N(1)>>),
     Op2("^", Op1("chr", N(65)), Op1("int_to_string", Neg(12))), Op1("real_to_string", R(-5)),
     Op2("^", Ap(C("substring"), <<ab, N(0), N(1)>>), Op1("int_to_string", Op1("size", ab))),
     Op2("^", N(1), Z1), Z1}
Evaluations ==
    {Query(<<Is("int", X1, e)>>) : e \in Ints}
    \cup {Query(<<Is("real", X1, e)>>) : e \in Reals}
    \cup {Query(<<Is("string", X1, e)>>) : e \in Strs}
    \cup {Query(<<Is("i", X1, ca)>>),
          Query(<<Eq("int", Y1, Op2("+", N(3), N(4))), Is("int", X1, Op2("*", Y1, Y1)),
                  Is("int", Z1, Op2("+", Y1, X1))>>),
          Query(<<Either(Eq("string", S1, ab), Eq("string", S1, Op2("^", ab, ab))),
                  Is("string", X1, Op2("^", S1, S1)), Is("string", Y1, Op2("^", X1, S1)),
                  Either(Call("s_gt", <<Y1, X1>>), C("true"))>>)}
Compared1 ==
    {Query(<<Call(c, <<t, u>>)>>) :
        c \in {"i_lt", "i_gt", "i_le", "i_ge"}, t \in {N(2), Op2("-", N(3), N(1))},
        u \in {N(2), N(3)}}
    \cup {Query(<<Call(c, <<R(2), u>>)>>) : c \in {"r_lt", "r_gt", "r_le", "r_ge"},
          u \in {R(2), R(3)}}
    \cup {Query(<<Call(c, <<Op2("^", ab, ab), u>>)>>) : c \in {"s_gt", "s_le", "s_ge"},
          u \in {ab, St(<<98>>)}}
    \cup {Query(<<Call("i_lt", <<Z1, ca>>)>>)}

-----------------------------------------------------------------------------
(* Streams.                                                                *)

OpenS(t) == Call("open_string", <<t, P1>>)
Streams1 ==
    {\* Lines read by several alternatives.
     Query(<<OpenS(nlText), Either(Call("input_line", <<P1, ab>>), Call("input_line", <<P1, X1>>)),
             Call("input", <<P1, N(1), Y1>>), Call("eof", <<P1>>)>>),
     Query(<<OpenS(nlText), Call("lookahead", <<P1, Y1>>), Call("input", <<P1, N(3), X1>>),
             Either(Call("input_line", <<P1, Z1>>), C("true")), C("fail")>>),
     Query(<<Call("open_in", <<inName, P1>>), Call("input_line", <<P1, X1>>),
             Call("input_line", <<P1, Y1>>), Call("lookahead", <<P1, S1>>),
             Call("input_line", <<P1, Z1>>), Call("eof", <<P1>>), Call("close_in", <<P1>>)>>),
     Query(<<Call("open_in", <<inName, P1>>), Call("input", <<P1, N(9), X1>>),
             Call("input", <<P1, N(1), Y1>>)>>),
     Query(<<Call("open_in", <<inName, P1>>), Call("input", <<P1, N(0), X1>>)>>),
     \* A stream closed and used, after backtracking too.
     Query(<<OpenS(ab), Call("close_in", <<P1>>), Call("input", <<P1, N(1), X1>>)>>),
     Query(<<OpenS(ab), Either(All(<<Call("close_in", <<P1>>), C("fail")>>),
                               Call("input", <<P1, N(1), X1>>))>>),
     Query(<<OpenS(ab), Eq("in_stream", Q1, P1), Call("close_in", <<Q1>>),
             Call("close_in", <<P1>>)>>),
     \* Files written, read and written on.
     Query(<<Call("open_out", <<outName, P1>>), Call("output", <<P1, ab>>), Call("flush", <<P1>>),
             Either(All(<<Call("output", <<P1, Stop1>>), C("fail")>>), Call("output", <<P1, ab>>)),
             Call("close_out", <<P1>>), Call("open_append", <<outName, Q1>>),
             Call("output", <<Q1, ab>>), Call("close_out", <<Q1>>),
             Call("open_in", <<outName, S1>>), Call("input", <<S1, N(20), X1>>)>>),
     Query(<<Call("open_append", <<inName, P1>>), Call("output", <<P1, ab>>)>>),
     Query(<<Call("print", <<ab>>), Call("output", <<C("std_out"), Stop1>>),
             Call("flush", <<C("std_out")>>)>>)}
    \cup {Query(<<g>>) : g \in
            {Call("open_in", <<outName, P1>>), Call("open_in", <<none, P1>>),
             Call("open_in", <<Z1, P1>>),
             Call("open_out", <<outName, ab>>), Call("open_string", <<Z1, P1>>),
             Call("open_string", <<ab, ab>>), Call("close_in", <<P1>>),
             Call("input", <<C("std_out"), N(1), X1>>), Call("input", <<ca, N(1), X1>>),
             Call("input", <<C("std_in"), Neg(1), X1>>), Call("input", <<C("std_in"), N(1), X1>>),
             Call("input_line", <<ab, X1>>), Call("lookahead", <<C("std_in"), X1>>),
             Call("lookahead", <<Z1, X1>>), Call("input_line", <<C("std_in"), X1>>),
             Call("output", <<C("std_out"), Z1>>), Call("output", <<Z1, ab>>),
             Call("print", <<Z1>>),
             Call("output", <<C("std_in"), ab>>), Call("flush", <<ca>>), Call("eof", <<ca>>),
             Call("eof", <<C("std_out")>>), Call("flush", <<C("std_err")>>),
             CallTy("printterm", "i", <<ca, ca>>), CallTy("printterm", "i", <<C("std_err"), Z1>>),
             CallTy("term_to_string", "i", <<ca, ab>>),
             CallTy("string_to_term", "i", <<Z1, X1>>), CallTy("readterm", "i", <<ca, X1>>),
             CallTy("readterm", "i", <<C("std_in"), X1>>), CallTy("read", "i", <<X1>>),
             Call("getenv", <<Z1, X1>>), Call("getenv", <<ab, X1>>), Call("getenv", <<none, X1>>),
             Call("system", <<ab, X1>>), Call("system", <<Z1, X1>>), Call("system", <<ab, ab>>),
             Call("open_socket", <<ab, N(1), X1, Y1>>), Call("time", <<X1, Y1>>), Va("G")}}

\* The argument of a builtin that reads is a redex, which a later goal shares.
La2(t) == <<"lam", 2, t>>
Twice(g, h, t) == Ap(La(All(<<g, h>>)), <<t>>)
SharedRedexes ==
    LET bodies == {Ap(b2, <<b1, b1>>), Ap(La(Ap(<<"b", 3>>, <<b1, b2>>)), <<b1>>),
                   Ap(La2(Ap(<<"b", 4>>, <<b1, <<"b", 3>>>>)), <<b1, b1>>)}
        redexes(t) == UNION {{Ap(La2(u), <<La2(b2), t>>), Ap(Ap(La(La(u)), <<La2(b2)>>), <<t>>)} :
                             u \in bodies}
    IN {Query(<<OpenS(nlText), Twice(Call("input", <<P1, b1, X1>>), Is("int", Z1, b1), t)>>) :
        t \in redexes(N(1))}
       \cup {Query(<<Twice(Call("getenv", <<b1, X1>>), Is("string", Z1, b1), t)>>) :
             t \in redexes(ab)}
       \cup {Query(<<OpenS(nlText), Twice(Call("lookahead", <<b1, X1>>),
                                         Call("input_line", <<b1, Y1>>), t)>>) :
             t \in redexes(P1)}

\* n variables.
Many(n) == Eq("list", Va("L"), Manys[n - 1])

\* Terms typed, and texts that are no terms or not of the type.
Id1(x) == <<"id", x>>
Typed1(cs, gs) == [Query(gs) EXCEPT !.input = cs]
Inputs ==
    {Typed1(<<Id1("f"), Space, Id1("a"), Period, Newline, Id1("b"), Period, Newline>>,
            <<CallTy("read", "i", <<X1>>), CallTy("read", "i", <<Y1>>)>>),
     Typed1(<<Id1("g"), Space, <<"up", "A", 1>>, Space, <<"up", "A", 1>>, Period, Newline>>,
            <<CallTy("readterm", "i", <<C("std_in"), Op2("g", X1, cb)>>)>>),
     Typed1(<<Id1("f"), Space, <<"av">>, Period>>, <<CallTy("read", "i", <<X1>>)>>),
     Typed1(<<Ch(51), Period>>, <<CallTy("read", "i", <<X1>>)>>),
     Typed1(<<Quote, Ch(97), Quote, Quote, Ch(98), Quote, Period>>,
            <<CallTy("read", "string", <<X1>>)>>),
     Typed1(<<Quote, Ch(97), Newline>>, <<CallTy("read", "string", <<X1>>)>>),
     Typed1(<<Id1("x"), Backslash, Space, Id1("f"), LParen, Id1("f"), Space, Id1("x"), RParen,
              Period>>,
            <<CallTy("read", "fun", <<X1>>), Eq("i", Y1, Ap(X1, <<ca>>))>>),
     Typed1(<<Id1("f"), Space, Id1("pr"), Space, Id1("a"), Period>>,
            <<CallTy("read", "i", <<X1>>)>>),
     Typed1(<<Id1("il"), Backslash, Space, Id1("g"), Space, Id1("a"), Space, Id1("il"), Period>>,
            <<CallTy("read", "fun", <<X1>>), Eq("i", Y1, Ap(X1, <<cb>>))>>),
     Typed1(<<Id1("f"), RParen, Period>>, <<Either(CallTy("read", "i", <<X1>>), C("true"))>>),
     Typed1(<<Id1("g"), Space, <<"up", "A", 1>>, <<"up", "A", 2>>, Period>>,
            <<CallTy("read", "i", <<X1>>)>>),
     Typed1(<<Id1("g"), Space, <<"up", "A", 1>>, Space, <<"up", "A", 2>>, Period>>,
            <<Either(Eq("i", Z1, Op2("g", Va("U"), Va("V"))), C("true")),
              CallTy("read", "i", <<X1>>)>>),
     \* More variables than the table holds.
     Typed1(<<Id1("g"), Space, <<"up", "A", 1>>, Space, <<"up", "A", 2>>, Period>>,
            <<Either(CallTy("read", "i", <<X1>>), C("true")), Many(9)>>)}

-----------------------------------------------------------------------------
(* Answers.                                                                *)

Answers ==
    {Query(<<Many(10), Ap(Ty("sigma", "i"),
                          <<La(Ap(Ty("sigma", "i"), <<La(Eq("i", X1, Op2("g", b1, b2)))>>))>>)>>),
     Query(<<Either(Eq("i", X1, Op1("f", Y1)), Eq("i", Y1, X1))>>),
     Query(<<Ap(Ty("sigma", "i"), <<La(Eq("i", X1, Op2("g", b1, b1)))>>),
             Ap(Ty("sigma", "i"), <<La(Eq("i", Y1, Op2("g", b1, X1)))>>)>>),
     Query(<<Ap(Ty("pi", "i"), <<La(Eq("i", Ap(Va("F"), <<b1>>), Op2("g", b1, ca)))>>)>>),
     Query(<<Ap(Ty("pi", "i"), <<La(Eq("i", Ap(Va("F"), <<b1>>), Op2("g", b1, X1)))>>),
             Eq("i", X1, cb)>>),
     Query(<<Ap(Ty("pi", "i"), <<La(Eq("i", X1, b1))>>)>>),
     Query(<<Eq("i", Ap(Va("F"), <<ca>>), Ap(Va("G"), <<cb>>)), Eq("i", X1, Ap(Va("F"), <<cb>>))>>),
     Query(<<Eq("i", Ap(Va("F"), <<ca>>), Ap(Va("G"), <<cb>>)), Eq("fun", Va("F"), La(b1))>>),
     Query(<<Ap(Ty("sigma", "i"),
                <<La(Eq("i", <<"fv", <<"us", "T", 1>>, 0>>, Op2("g", b1, Y1)))>>)>>),
     Query(<<Eq("i", <<"fv", <<"up", "W", 1>>, 0>>, Op1("h", La(Op2("g", b1, Y1))))>>),
     Query(<<Eq("i", X1, Op1("h",
                             La(Op1("h", La(Op2("g", b2, <<"fv", <<"up", "W", 2>>, 0>>))))))>>)}

MCEnvironment == (<<Ch(97), Ch(98)>> :> <<Ch(99)>>)
MCQueries == RoundTrips \cup Evaluations \cup Compared1 \cup Streams1 \cup Inputs
             \cup SharedRedexes \cup Answers
=============================================================================
