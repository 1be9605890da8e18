------------------------------ MODULE MCTerms -------------------------------
EXTENDS TermMachine

\* Constants: a, b of the base type, f, g of types i -> i and i -> i -> i, h of
\* type (i -> i) -> i, c, d that universal quantifiers introduce.
a == 1
b == 2
f == 3
g == 4
h == 5
c == 6
d == 7
box == 8
emp == 9
\* Constants local to a module: lo and loc of the base type, lf of type i -> i,
\* lb of type A -> i; loc and lb with a type.
lo == 10
loc == 11
lf == 12
lb == 13
Local == {lo, loc, lf, lb}
ConstantIndices == 1..14

MCCstUniv == [x \in ConstantIndices |-> IF x \in Local THEN 1 ELSE 0]
MCCstTyEnvSize == [x \in ConstantIndices |-> IF x \in {box, emp, loc, lb} THEN 1 ELSE 0]
MCKstArity == [k \in {"i", "j", "lst"} |-> IF k = "lst" THEN 1 ELSE 0]

C(x) == <<"c", x, <<>> >>
Vr(x) == <<"var", x>>
Ap(t, args) == <<"app", t, args>>
Lm(n, t) == <<"lam", n, t>>
Bv(i) == <<"bv", i>>
Nl == <<"nil">>
Cn(t, u) == Ap(<<"cons">>, <<t, u>>)
Tv(x) == <<"tv", x>>
Sort == <<"ap", "i", <<>> >>
Lst(ty) == <<"ap", "lst", <<ty>> >>
Arrow(ty1, ty2) == <<"arrow", <<ty1, ty2>> >>

K(x) == <<"c", x, <<>> >>
MCValues ==
    LET base == {K(a), K(b), K(c), A(K(f), K(a)), A(A(K(g), K(a)), K(a)), A(A(K(g), K(a)), K(b))}
        fun == {K(f), K(14), L(B(1)), L(K(a)), L(K(c)), L(A(K(f), A(K(f), B(1)))), A(K(g), K(a)), 
                L(A(A(K(g), B(1)), B(1)))}
        fun2 == {K(g), L(L(B(1))), L(L(B(2))), L(L(K(a))), L(L(A(A(K(g), B(1)), B(2))))}
        list == {<<"k", "nil">>, Apply(<<"k", "cons">>, <<K(a), <<"k", "nil">> >>)}
        int == {<<"i", 1>>, <<"i", 2>>}
        fint == {L(x) : x \in int}
        flist == {L(x) : x \in list} \cup {L(Apply(<<"k", "cons">>, <<B(1), <<"k", "nil">> >>))}
        ffun == {L(K(a)), L(A(B(1), K(a))), K(h), L(A(B(1), A(B(1), K(a))))}
    IN [i |-> base, ii |-> fun, iii |-> fun2, l |-> list, int |-> int, in |-> fint, il |-> flist,
        iii1 |-> ffun, pure |-> base \cup fun \cup fun2,
        any |-> base \cup fun \cup fun2 \cup list \cup int \cup fint \cup flist \cup ffun]

Types == ("X" :> "i") @@ ("Z" :> "i") @@ ("F" :> "ii") @@ ("H" :> "iii") @@ ("P" :> "l")
      @@ ("Y" :> "i") @@ ("W" :> "i") @@ ("G" :> "ii") @@ ("Q" :> "l") @@ ("J" :> "iii")
      @@ ("c" :> "i") @@ ("d" :> "i") @@ ("E" :> "i") @@ ("V" :> "ii") @@ ("R" :> "int")
      @@ ("S" :> "int") @@ ("N" :> "in") @@ ("M" :> "il") @@ ("T" :> "iii1") @@ ("O" :> "ii") @@ ("U" :> "iii1")
      @@ ("K" :> "iii")

Clause(args) == [args |-> args, tys |-> <<>>, perm |-> <<>>, mapped |-> <<>>]
GoalOf(quant, args, clauses) == [quant |-> quant, args |-> args, tys |-> <<>>, clauses |-> clauses]
Program(perm, last, goals) ==
    [env |-> perm # <<>>, perm |-> perm, last |-> last, goals |-> goals, ty |-> Types,
     tyvars |-> {}, typed |-> FALSE, univ |-> <<>>, new |-> "any"]


\* A goal of each type with a head of the same type; a second clause that
\* matches whatever the first one left must find the arguments as they were.
Single(ts, us, w) ==
    {Program(<<>>, FALSE, <<GoalOf(<<>>, <<t>>, <<Clause(<<u>>), Clause(<<Vr(w)>>)>>)>>) :
        t \in ts, u \in us}

GoalBase == {Vr("X"), C(a), Ap(C(f), <<C(a)>>), Ap(C(f), <<Vr("X")>>), Ap(Vr("F"), <<C(a)>>),
             Ap(Vr("F"), <<Vr("X")>>), Ap(C(g), <<Vr("X"), Ap(C(f), <<Vr("X")>>)>>),
             Ap(C(f), <<Ap(Vr("F"), <<Vr("X")>>)>>), Ap(C(h), <<Vr("F")>>),
             Ap(C(h), <<Lm(1, Ap(C(f), <<Bv(1)>>))>>)}
HeadBase == {Vr("Y"), C(a), C(b), Ap(C(f), <<Vr("Y")>>), Ap(C(f), <<C(a)>>),
             Ap(C(g), <<Vr("Y"), Vr("Y")>>), Ap(Vr("G"), <<C(a)>>),
             Ap(C(f), <<Ap(C(f), <<Vr("Y")>>)>>),
             Ap(C(h), <<Lm(1, Vr("Y"))>>), Ap(C(h), <<C(f)>>), Ap(C(h), <<Vr("G")>>),
             Ap(C(h), <<Lm(1, Ap(C(f), <<Ap(Vr("G"), <<Bv(1)>>)>>))>>)}

GoalFun == {Vr("F"), C(f), Lm(1, Ap(C(f), <<Bv(1)>>)), Lm(1, Ap(C(f), <<Ap(Vr("F"), <<Bv(1)>>)>>)),
            Lm(1, Vr("X")), Lm(1, Bv(1)), Ap(C(g), <<C(a)>>), Lm(1, Ap(C(g), <<Bv(1), Vr("X")>>)),
            Lm(1, Ap(C(g), <<Vr("X"), Bv(1)>>)), Lm(1, Ap(Vr("H"), <<Bv(1), Bv(1)>>)),
            Ap(Vr("H"), <<C(a)>>), Lm(1, Ap(Vr("H"), <<Bv(1), C(a)>>))}
HeadFun == {Vr("G"), C(f), Lm(1, Vr("Y")), Lm(1, Bv(1)), Lm(1, Ap(C(f), <<Bv(1)>>)),
            Lm(1, Ap(C(f), <<Ap(Vr("G"), <<Bv(1)>>)>>)), Ap(C(g), <<Vr("Y")>>),
            Lm(1, Ap(C(g), <<Bv(1), Bv(1)>>)), Lm(1, Ap(C(g), <<Vr("Y"), Bv(1)>>)),
            Lm(1, Ap(Vr("G"), <<Bv(1)>>)), Lm(1, Ap(C(g), <<Ap(Vr("G"), <<Bv(1)>>), C(a)>>))}

\* A flexible term does not meet a rigid one under fewer abstractions.
NoAbs == {C(f), Ap(C(g), <<C(a)>>)}
FlexAbs == {Lm(1, Vr("Y")), Lm(1, Ap(Vr("G"), <<Bv(1)>>))}

FreePrograms == Single(GoalBase, HeadBase, "W") \cup Single(GoalFun, HeadFun \ FlexAbs, "V")
                \cup Single(GoalFun \ NoAbs, FlexAbs, "V")

\* X and F come from a first goal, c and E from quantifiers opened after it.
Perms == ("X" :> 1) @@ ("F" :> 2) @@ ("c" :> 3) @@ ("E" :> 4)
First2 == {<<Vr("Z"), Vr("G")>>, <<Ap(C(f), <<Vr("Y")>>), Vr("G")>>, <<Vr("Z"), C(f)>>,
           <<Vr("Z"), Lm(1, Ap(C(g), <<Bv(1), Bv(1)>>))>>}
Quantified(quant, firsts, ts, us, last) ==
    {[Program(Perms, last, <<GoalOf(<<>>, <<Vr("X"), Vr("F")>>, <<Clause(v)>>),
                             GoalOf(quant, <<t>>, <<Clause(<<u>>), Clause(<<Vr("W")>>)>>)>>)
         EXCEPT !.univ = c :> 1] :
        v \in firsts, t \in ts, u \in us}
All == <<"all", "c", c>>
Some == <<"some", "E">>
GoalAll == {Vr("X"), Vr("c"), Ap(C(f), <<Vr("c")>>), Ap(Vr("F"), <<Vr("c")>>),
            Ap(Vr("F"), <<C(a)>>),
            Ap(C(g), <<Vr("c"), Vr("X")>>), Ap(C(g), <<Vr("X"), Vr("c")>>),
            Ap(C(g), <<Ap(Vr("F"), <<Vr("c")>>), Vr("X")>>),
            Ap(C(g), <<Ap(Vr("F"), <<Vr("c")>>), Vr("c")>>),
            Ap(C(h), <<Lm(1, Ap(C(g), <<Vr("X"), Bv(1)>>))>>),
            Ap(C(h), <<Lm(1, Ap(C(g), <<Vr("c"), Bv(1)>>))>>),
            Ap(C(h), <<Lm(1, Ap(Vr("F"), <<Vr("X")>>))>>)}
HeadAll == {Vr("Y"), C(a), Ap(C(f), <<Vr("Y")>>), Ap(C(g), <<Vr("Y"), Vr("Y")>>),
            Ap(C(g), <<Vr("Y"), C(a)>>), Ap(C(g), <<C(a), Vr("Y")>>),
            Ap(C(g), <<Ap(C(f), <<Vr("Y")>>), Vr("Y")>>),
            Ap(C(h), <<Lm(1, Vr("Y"))>>), Ap(C(h), <<Lm(1, Ap(Vr("G"), <<Bv(1)>>))>>)}
AllPrograms == Quantified(<<All>>, First2, GoalAll, HeadAll, FALSE)

\* A variable quantified inside c, and the last call: the environment goes.
GoalSome == {Ap(C(g), <<Vr("E"), Vr("c")>>), Ap(Vr("F"), <<Vr("E")>>), Vr("E"), Vr("X"), Vr("c"),
             Ap(C(g), <<Vr("E"), Vr("X")>>), Ap(C(g), <<Vr("X"), Vr("E")>>), Ap(C(h), <<Vr("F")>>),
             Lm(1, Vr("X"))}
HeadSome == {Vr("Y"), Ap(C(g), <<Vr("Y"), Vr("Y")>>), Ap(C(f), <<Vr("Y")>>), C(a),
             Ap(C(h), <<Lm(1, Ap(Vr("G"), <<Bv(1)>>))>>)}
SomePrograms == Quantified(<<All, Some>>, {<<Vr("Z"), Vr("G")>>}, GoalSome, HeadSome, TRUE)
                \cup Quantified(<<Some>>, {<<Vr("Z"), Vr("G")>>}, GoalSome \ {Vr("c")},
                                HeadSome, TRUE)

\* Lists and integers.
GoalList == {Nl, Cn(Vr("X"), Vr("P")), Cn(C(a), Nl), Vr("P"), Cn(C(a), Cn(Vr("X"), Nl))}
HeadList == {Nl, Vr("Q"), Cn(Vr("Y"), Vr("Q")), Cn(Vr("Y"), Nl), Cn(Vr("Y"), Cn(Vr("Y"), Vr("Q")))}
Num(i) == <<"int", i>>
IntTerms(x) == {Num(1), Num(2), Vr(x)}
ListPrograms == Single(GoalList, HeadList, "Q") \cup Single(IntTerms("R"), IntTerms("S"), "S")
             \cup Single({Lm(1, Num(1)), Vr("N"), Lm(1, Vr("R"))},
                         {Lm(1, Num(1)), Lm(1, Num(2))}, "N")

\* Two arguments, where the second unification depends on the first.
Double(tss, uss, z) ==
    {Program(<<>>, FALSE, <<GoalOf(<<>>, ts, <<Clause(us), Clause(<<Vr("W"), Vr(z)>>)>>)>>) :
        ts \in tss, us \in uss}
GoalTwo == {<<Vr("X"), Vr("X")>>, <<Vr("X"), Ap(C(f), <<Vr("X")>>)>>, <<Vr("X"), Vr("Z")>>,
            <<Ap(Vr("F"), <<C(a)>>), Ap(Vr("F"), <<C(b)>>)>>, <<Vr("X"), Ap(Vr("F"), <<Vr("X")>>)>>,
            <<Ap(Vr("F"), <<Vr("X")>>), Vr("X")>>, <<Ap(C(h), <<Vr("F")>>), Ap(Vr("F"), <<C(a)>>)>>,
            <<Ap(C(h), <<Lm(1, Ap(Vr("F"), <<Bv(1)>>))>>), Ap(Vr("F"), <<Vr("X")>>)>>}
HeadTwo == {<<Vr("Y"), Vr("Y")>>, <<Vr("Y"), Ap(C(f), <<Vr("Y")>>)>>,
            <<Ap(C(f), <<Vr("Y")>>), Vr("Y")>>,
            <<Vr("Y"), Ap(C(g), <<Vr("Y"), Vr("Y")>>)>>,
            <<Ap(C(f), <<C(a)>>), Ap(C(f), <<Vr("Y")>>)>>,
            <<C(a), Vr("Y")>>, <<Ap(C(f), <<Vr("Y")>>), Ap(C(f), <<Vr("Y")>>)>>,
            <<Ap(C(h), <<Lm(1, Ap(C(f), <<Bv(1)>>))>>), Ap(C(f), <<Vr("Y")>>)>>,
            <<Ap(C(h), <<Vr("G")>>), Ap(Vr("G"), <<C(a)>>)>>}
GoalApp == {<<Ap(Vr("F"), <<Vr("X")>>), Vr("F")>>,
            <<Ap(Vr("F"), <<Ap(C(f), <<Vr("X")>>)>>), Vr("F")>>}
HeadApp == {<<C(a), Lm(1, Bv(1))>>, <<Vr("Y"), C(f)>>,
            <<Ap(C(f), <<Vr("Y")>>), Lm(1, Ap(C(g), <<Vr("Y"), Bv(1)>>))>>,
            <<Ap(C(f), <<Vr("Y")>>), Vr("G")>>, <<Ap(Vr("G"), <<C(a)>>), Vr("G")>>}
TwoPrograms == Double(GoalTwo, HeadTwo, "Z") \cup Double(GoalApp, HeadApp, "G")

\* A clause of an implication, which shares X with the goal's environment.
MappedPrograms ==
    {Program(Perms, FALSE,
             <<GoalOf(<<>>, <<Vr("X"), Vr("F")>>, <<Clause(v)>>),
               GoalOf(<<>>, <<t>>, <<[Clause(<<u>>) EXCEPT !.mapped = <<<<"X", 1>>>>, !.perm = p],
                                     Clause(<<Vr("W")>>)>>)>>) :
        v \in {<<Vr("Z"), Vr("G")>>, <<C(a), Vr("G")>>},
        t \in {Vr("X"), C(a), Ap(Vr("F"), <<C(a)>>), Ap(C(g), <<Vr("X"), C(b)>>),
               Ap(C(f), <<Vr("X")>>)},
        u \in {Vr("X"), Ap(C(f), <<Vr("X")>>), Ap(C(g), <<Vr("X"), Vr("Y")>>),
               Ap(C(h), <<Lm(1, Vr("X"))>>)},
        p \in {<<>>, "X" :> 1, ("X" :> 2) @@ ("Y" :> 1)}}

\* Types: box takes an element of any type, emp is a list of any type.
Emp(ty) == <<"c", emp, <<ty>> >>
Box(ty, t) == Ap(<<"c", box, <<ty>> >>, <<t>>)
TypedProgram(ty, t, cty, ct) ==
    [Program(<<>>, FALSE,
        <<[quant |-> <<>>, args |-> <<t>>, tys |-> <<ty>>,
           clauses |-> <<[args |-> <<ct>>, tys |-> <<cty>>, perm |-> <<>>, mapped |-> <<>>],
                         [args |-> <<Vr("W")>>, tys |-> <<Tv("B")>>, perm |-> <<>>,
                          mapped |-> <<>>]>>]>>)
        EXCEPT !.tyvars = {"A", "B"}, !.typed = TRUE]
TermsOf(ty, x) ==
    {Vr(x), Emp(ty), Box(ty, Vr(x))}
    \cup (IF ty = Sort THEN {Box(Sort, C(a))} ELSE {})
    \cup (IF ty[1] = "ap" /\ ty[2] = "lst" THEN {Box(ty, Emp(ty[3][1])),
                                                 Box(ty, Box(ty[3][1], Vr(x)))} ELSE {})
GoalTypes == {Tv("A"), Sort, Lst(Tv("A")), Lst(Sort), Arrow(Sort, Tv("A")), Lst(Lst(Sort))}
HeadTypes == {Tv("B"), Sort, Lst(Tv("B")), Arrow(Sort, Sort), Lst(Lst(Tv("B"))),
              Arrow(Tv("B"), Tv("B"))}
TypedPrograms ==
    UNION {{TypedProgram(ty, t, cty, ct) : t \in TermsOf(ty, "X"), ct \in TermsOf(cty, "Y")} :
           ty \in GoalTypes, cty \in HeadTypes}

\* Two types that depend on one another.
TwoTypes ==
    LET goals == {<<Tv("A"), Tv("A")>>, <<Tv("A"), Lst(Tv("A"))>>, <<Lst(Tv("A")), Tv("A")>>,
                  <<Arrow(Tv("A"), Sort), Tv("A")>>, <<Tv("A"), Tv("D")>>,
                  <<Lst(Tv("A")), Lst(Tv("D"))>>, <<Sort, <<"ap", "j", <<>> >> >>,
                  <<Lst(Tv("A")), Arrow(Tv("D"), Tv("A"))>>,
                  <<Arrow(Tv("A"), Tv("D")), Arrow(Tv("D"), Tv("A"))>>,
                  <<Arrow(Sort, Tv("A")), Lst(Tv("A"))>>}
        heads == {<<Tv("B"), Tv("B")>>, <<Tv("B"), Lst(Tv("B"))>>, <<Lst(Tv("B")), Tv("B")>>,
                  <<Arrow(Tv("B"), Tv("B")), Tv("E")>>,
                  <<Tv("B"), Tv("E")>>, <<Lst(Tv("E")), Arrow(Tv("E"), Tv("B"))>>,
                  <<Arrow(Tv("B"), Tv("E")), Tv("B")>>, <<Tv("B"), Arrow(Tv("B"), Lst(Tv("B")))>>}
    IN {[Program(p1, last,
            <<IF p1 = <<>> THEN GoalOf(<<>>, <<C(a)>>, <<Clause(<<Vr("W")>>)>>)
              ELSE [quant |-> <<>>, args |-> <<Vr("X")>>, tys |-> <<Tv("A")>>,
                    clauses |-> <<[args |-> <<Vr("W")>>, tys |-> <<Tv("B")>>, perm |-> <<>>,
                                   mapped |-> <<>>]>>],
              [quant |-> <<>>, args |-> <<C(a)>>, tys |-> tys,
               clauses |-> <<[args |-> <<C(a)>>, tys |-> ctys, perm |-> p2, mapped |-> <<>>]>>]>>)
            EXCEPT !.tyvars = {"A", "B", "D", "E"}, !.typed = TRUE] :
        tys \in goals, ctys \in heads, p2 \in {<<>>, "B" :> 1},
        <<p1, last>> \in {<<<<>>, FALSE>>, <<("X" :> 1) @@ ("A" :> 2), FALSE>>,
                          <<("X" :> 1) @@ ("A" :> 2), TRUE>>}}

\* The same with the types in the environment of the goals and of the clauses.
TypedPerm ==
    {[Program(("A" :> 1) @@ ("X" :> 2), TRUE,
        <<[quant |-> <<>>, args |-> <<Vr("X")>>, tys |-> <<Tv("A")>>,
           clauses |-> <<[args |-> <<Vr("W")>>, tys |-> <<Tv("B")>>, perm |-> <<>>,
                          mapped |-> <<>>]>>],
          [quant |-> <<>>, args |-> <<t>>, tys |-> <<ty>>,
           clauses |-> <<[args |-> <<ct>>, tys |-> <<cty>>, perm |-> ("B" :> 1) @@ ("Y" :> 2),
                          mapped |-> <<>>],
                         [args |-> <<Vr("W")>>, tys |-> <<Tv("B")>>, perm |-> <<>>,
                          mapped |-> <<>>]>>]>>)
        EXCEPT !.tyvars = {"A", "B"}, !.typed = TRUE] :
       <<ty, t>> \in {<<y, x>> \in {Tv("A"), Lst(Tv("A")),
                                    Arrow(Tv("A"), Sort)} \X UNION {TermsOf(y, "X") :
                                                                    y \in GoalTypes} :
                                                                        x \in TermsOf(y, "X")},
       <<cty, ct>> \in {<<y, x>> \in HeadTypes \X UNION {TermsOf(y, "Y") : y \in HeadTypes} :
                        x \in TermsOf(y, "Y")}}

\* Three clauses, and heads of which none may match.
ManyClauses ==
    {Program(<<>>, FALSE, <<GoalOf(<<>>, <<t>>, [i \in DOMAIN us |-> Clause(<<us[i]>>)])>>) :
        t \in {C(a), Ap(Vr("F"), <<C(a)>>), Ap(C(f), <<Vr("X")>>)},
        us \in {<<C(b)>>, <<C(b), Ap(C(f), <<C(b)>>), C(a)>>, <<Vr("Y"), C(a), C(b)>>,
                <<Ap(C(f), <<C(a)>>), Ap(C(f), <<Vr("Y")>>), C(b)>>}}

\* The functions are bound by a first goal, so that the arguments below are not
\* normal when they are met.
Applied(v, first, ts, us, w) ==
    {Program(("X" :> 1) @@ (v :> 2), FALSE,
             <<GoalOf(<<>>, <<Vr("X"), Vr(v)>>, <<Clause(<<Vr("Z"), first>>)>>),
               GoalOf(<<>>, <<t>>, <<Clause(<<u>>), Clause(<<Vr(w)>>)>>)>>) : t \in ts, u \in us}
AppliedPrograms ==
    LET fa == Ap(Vr("F"), <<C(a)>>)
        fx == Ap(Vr("F"), <<Vr("X")>>)
        ma == Ap(Vr("M"), <<C(a)>>)
        na == Ap(Vr("N"), <<C(a)>>)
        ha == Ap(Vr("H"), <<C(a)>>)
    IN UNION {Applied("F", v, {Ap(C(f), <<t>>) : t \in {fa, fx, Ap(C(f), <<fx>>)}} \cup {fx},
                      {Ap(C(f), <<t>>) : t \in {C(a), Ap(C(f), <<Vr("Y")>>),
                                                Ap(C(f), <<C(a)>>), Ap(Vr("G"), <<C(a)>>), C(b)}}
                        \cup {Vr("Y"), C(a)}, "W") :
              v \in {Lm(1, C(a)), C(f), Lm(1, Bv(1)), Lm(1, Ap(C(f), <<Bv(1)>>)),
                     Lm(1, Ap(C(f), <<Ap(C(f), <<Bv(1)>>)>>)), Vr("G")}}
       \cup UNION {Applied("M", v, {Cn(C(b), ma), ma},
                           {Cn(C(b), t) : t \in {Nl, Cn(Vr("Y"), Vr("Q")), Cn(C(a), Nl)}}
                               \cup {Nl, Vr("Q"), Cn(Vr("Y"), Nl)}, "Q") :
              v \in {Lm(1, Nl), Lm(1, Cn(Bv(1), Nl)), Vr("M"), Lm(1, Vr("Q"))}}
       \cup UNION {Applied("N", v, {na}, {Num(1), Num(2), Vr("S")}, "S")
                   \cup Applied("N", v, {Ap(C(f), <<na>>)}, {Ap(C(f), <<Num(1)>>)}, "W") :
              v \in {Lm(1, Num(1)), Lm(1, Vr("S")), Vr("N")}}
       \cup UNION {Applied("H", v, {ha, Lm(1, Ap(Vr("H"), <<Bv(1), Vr("X")>>))},
                           {C(f), Lm(1, Ap(C(f), <<Bv(1)>>)),
                            Lm(1, Ap(C(g), <<Bv(1), Vr("Y")>>)), Ap(C(g), <<Vr("Y")>>)}, "V")
                   \cup Applied("H", v, {Ap(C(h), <<ha>>)},
                                {Ap(C(h), <<t>>) : t \in {C(f), Ap(C(g), <<Vr("Y")>>),
                                                          Vr("G")}}, "W") :
              v \in {C(g), Lm(2, Ap(C(f), <<Bv(1)>>)), Lm(1, C(f)),
                     Lm(2, Ap(C(g), <<Bv(1), Bv(2)>>)), Lm(2, Bv(1)), Vr("J"), Lm(1, Vr("G"))}}

\* Two terms are made equal; a second clause takes the first of them and whatever
\* is left of the other.  F, H of the outermost universe, O of c's.
PairPerms == ("X" :> 1) @@ ("F" :> 2) @@ ("H" :> 3) @@ ("c" :> 4) @@ ("O" :> 5) @@ ("d" :> 6)
Equal(pairs, k(_, _), y, w) ==
    {[Program(PairPerms, FALSE,
              <<GoalOf(<<>>, <<Vr("X"), Vr("F"), Vr("H")>>,
                       <<Clause(<<Vr("Z"), Vr("G"), Vr("J")>>)>>),
                GoalOf(<<All, <<"some", "O">>, <<"all", "d", d>> >>, k(t1, t2),
                       <<Clause(<<Vr(y), Vr(y)>>), Clause(<<Vr(y), Vr(w)>>)>>)>>)
         EXCEPT !.univ = (c :> 1) @@ (d :> 2), !.new = "pure"] : <<t1, t2>> \in pairs}
\* of(x, y): the variables applied to x and y.
Flexible(x, y) == {Ap(Vr("H"), <<x, y>>), Ap(Vr("H"), <<y, x>>), Ap(Vr("F"), <<x>>),
                   Ap(Vr("F"), <<y>>),
                   Ap(Vr("O"), <<x>>), Vr("X")}
Same(t, u) == <<t, u>>

\* O a is no pattern, as a is older than O; X and F are of a lower universe than O.
\* X made equal to O a lowers O.
LowerPair == <<Ap(Vr("O"), <<C(a)>>), Vr("X")>>
EqualPrograms ==
    LET applied == {Ap(Vr(v), <<C(a)>>) : v \in {"F", "O"}}
                   \cup {Ap(Vr("O"), <<Vr("c")>>), Ap(Vr("H"), <<Vr("X"), C(a)>>),
                         Ap(C(f), <<Ap(Vr("O"), <<C(a)>>)>>)}
        outer == Flexible(Vr("c"), Vr("d")) \cup applied
                 \cup {Vr("c"), Vr("d"), Ap(C(f), <<Ap(Vr("F"), <<Vr("d")>>)>>),
                    Ap(C(f), <<Ap(Vr("O"), <<Vr("d")>>)>>)}
        inner == Flexible(Bv(1), Vr("d")) \cup Flexible(Bv(1), Vr("c"))
                 \cup {Bv(1), Ap(C(f), <<Ap(Vr("F"), <<Bv(1)>>)>>),
                       Ap(C(f), <<Ap(Vr("O"), <<Vr("d")>>)>>),
                        Ap(Vr("H"), <<Bv(1), C(a)>>), Ap(Vr("H"), <<Vr("X"), Bv(1)>>)}
        two == {Lm(2, t) : t \in Flexible(Bv(1), Bv(2)) \cup {Bv(1), Bv(2), Vr("c")}}
               \cup {Vr("H"), Lm(1, Ap(Vr("H"), <<Bv(1)>>)), Lm(1, Vr("F"))}
        under(t, u) == <<Lm(1, t), Lm(1, u)>>
    IN Equal((outer \X outer) \ {LowerPair}, Same, "Y", "W")
       \cup Equal(inner \X inner, under, "G", "V")
       \cup Equal((two \cup {C(g), Lm(1, C(f))}) \X two, Same, "J", "K")

\* Kept out of MCPrograms: X is bound to O a in the first clause, the code trails the
\* address of the application and lowers O (hopu.c:968), and the second clause finds O
\* lowered.  With Programs <- LoweredPrograms in the configuration Restored is violated.
LoweredPrograms == Equal({LowerPair}, Same, "Y", "W")

\* Arguments that are functions: T takes one, e is a universal one.
e == 14
FunPrograms ==
    LET perms == ("X" :> 1) @@ ("F" :> 2) @@ ("T" :> 3) @@ ("e" :> 4)
        ex == Lm(1, Ap(Vr("e"), <<Bv(1)>>))
        outer == {Ap(Vr("T"), <<t>>) :
                  t \in {Vr("e"), ex, C(f), Vr("F"), Lm(1, Ap(Vr("F"), <<Bv(1)>>))}}
                 \cup {Ap(Vr("e"), <<t>>) : t \in {C(a), Vr("X"), Ap(Vr("F"), <<C(a)>>)}}
        bound == Lm(1, Ap(Bv(2), <<Bv(1)>>))
        taking == {Lm(1, Ap(Vr("T"), <<t>>)) : t \in {Bv(1), bound}}
                  \cup {Lm(1, Ap(Bv(1), <<t>>)) : t \in {C(a), Vr("X"), Ap(Bv(1), <<Vr("X")>>)}}
                  \cup {Vr("T"), Lm(1, Vr("X"))}
        rigid == {C(h), Lm(1, Ap(C(h), <<Bv(1)>>)), Lm(1, Ap(C(h), <<bound>>))}
        pairs == (outer \X outer) \cup (taking \X taking) \cup (rigid \X taking)
                 \cup (rigid \X rigid)
    IN {[Program(perms, FALSE,
            <<GoalOf(<<>>, <<Vr("X"), Vr("F"), Vr("T")>>,
                     <<Clause(<<Vr("Z"), Vr("G"), Vr("U")>>)>>),
              GoalOf(<<<<"all", "e", e>> >>, <<t1, t2>>, <<Clause(<<Vr(y), Vr(y)>>)>>)>>)
           EXCEPT !.univ = e :> 1, !.ty = ("e" :> "ii") @@ @] :
         <<y, t1, t2>> \in {"Y"} \X outer \X outer
             \cup {<<"U", x, z>> : <<x, z>> \in pairs \ (outer \X outer)}}

\* Arguments bound before the last call, which they outlive.
LastPrograms ==
    UNION {{Program((v :> 1) @@ ("F" :> 2), TRUE,
               <<GoalOf(<<>>, <<Vr(v), Vr("F")>>, <<Clause(<<q[2], Vr("G")>>)>>),
                 GoalOf(<<>>, <<t>>, <<Clause(<<u>>), Clause(<<Vr(w)>>)>>)>>) :
              t \in {Vr(v), q[3]}, u \in {Vr(w), q[2]}} :
           <<v, w, q>> \in {<<"P", "Q", <<"l", Nl, Cn(C(a), Vr("P"))>> >>,
                            <<"P", "Q", <<"l", Cn(C(a), Vr("Q")), Cn(C(a), Vr("P"))>> >>,
                           <<"R", "S", <<"int", Num(1), Vr("R")>> >>,
                           <<"X", "W", <<"i", C(a), Ap(Vr("F"), <<Vr("X")>>)>> >>,
                           <<"X", "W", <<"i", Ap(C(f), <<Vr("Y")>>), Ap(C(f), <<Vr("X")>>)>> >>,
                           <<"X", "W", <<"i", Ap(Vr("J"), <<Vr("Y"), Vr("Y")>>),
                                         Ap(C(f), <<Vr("X")>>)>> >>}}

\* A variable is bound to a structure with another argument in it, which may
\* be anything; within c, d.
StructurePrograms ==
    LET goal(v, t, x, head) ==
            [Program(PairPerms @@ (v :> 7), FALSE,
               <<GoalOf(<<>>, <<Vr("X"), Vr("F"), Vr("H"), Vr(v)>>,
                        <<Clause(<<Vr("Z"), Vr("G"), Vr("J"), Vr("P")>>)>>),
                 GoalOf(<<All, <<"some", "O">>, <<"all", "d", d>> >>, <<t, x>>,
                        <<Clause(head), Clause(<<head[1], Vr("W")>>)>>)>>)
               EXCEPT !.univ = (c :> 1) @@ (d :> 2), !.new = "pure"]
        base == Flexible(Vr("c"), Vr("d"))
                \cup {C(a), Vr("c"), Ap(C(f), <<Vr("X")>>),
                      Ap(C(g), <<Vr("X"), Ap(Vr("F"), <<Vr("c")>>)>>),
                   Ap(C(f), <<Ap(Vr("O"), <<Vr("d")>>)>>), Ap(C(f), <<Ap(Vr("O"), <<C(a)>>)>>)}
        fun == {Vr("O"), C(f), Lm(1, Ap(Vr("O"), <<Bv(1)>>)), Lm(1, Vr("X")),
                Lm(1, Ap(Vr("H"), <<Bv(1), Vr("d")>>)),
                Lm(1, Ap(C(f), <<Ap(Vr("O"), <<Bv(1)>>)>>)),
                Lm(1, Ap(C(g), <<Vr("c"), Bv(1)>>)), Ap(C(g), <<Vr("c")>>),
                Lm(1, Ap(Vr("O"), <<Vr("d")>>))}
        list == {Nl, Vr("P"), Cn(C(a), Nl), Cn(Vr("c"), Vr("P")), Cn(Ap(Vr("O"), <<C(a)>>), Nl)}
        int == {Num(1), Vr("R"), Ap(Vr("N"), <<C(a)>>)}
    IN {goal("P", t, Vr("X"), <<Vr("Y"), u>>) : t \in base,
        u \in {Ap(C(f), <<Vr("Y")>>), Ap(C(g), <<Vr("Y"), Vr("Y")>>), Ap(C(f), <<C(a)>>)}}
       \cup {goal("P", t, Vr("X"), <<Vr("G"), Ap(C(h), <<Vr("G")>>)>>) : t \in fun}
       \cup {goal("P", t, Vr("P"), <<Vr("Q"), Cn(C(a), Vr("Q"))>>) : t \in list}
       \cup {goal("R", t, Vr("X"), <<Vr("S"), Ap(C(f), <<Vr("S")>>)>>) :
             t \in int \ {Ap(Vr("N"), <<C(a)>>)}}
       \cup {goal("M", Ap(Vr("M"), <<t>>), u, <<Vr("Q"), Vr("Q")>>) : t \in {Vr("c"), C(a)},
                u \in {Nl, Cn(Vr("X"), Nl), Cn(Vr("c"), Nl),
                       Cn(Vr("X"), Ap(Vr("M"), <<Vr("d")>>)), Cn(Ap(Vr("O"), <<Vr("c")>>), Nl)}}

\* Within a module.
Loc(ty) == <<"c", loc, <<ty>> >>
Lb(ty) == <<"c", lb, <<ty>> >>
ModuleProgram(p) == [p EXCEPT !.univ = [x \in Local |-> 1]]
InModule(v, first, argss, headss, w) ==
    {Program(("X" :> 1) @@ (v :> 2), FALSE,
             <<GoalOf(<<>>, <<Vr("X"), Vr(v)>>, <<Clause(<<Vr("Z"), first>>)>>),
               GoalOf(<<<<"module">> >>, ts, <<Clause(us), Clause(w)>>)>>) : ts \in argss,
               us \in headss}
ModulePrograms ==
    LET hidden == {C(lo), Ap(C(lf), <<Vr("Y")>>), Ap(Lb(Sort), <<Vr("Y")>>), Ap(Lb(Sort), <<C(a)>>)}
        out == {Vr("X"), C(lo), Loc(Sort), Ap(C(lf), <<Vr("X")>>), Ap(Lb(Sort), <<Vr("X")>>),
                Ap(Lb(Lst(Sort)), <<Nl>>)}
        within == {Ap(C(f), <<t>>) : t \in out}
        fl == {Ap(Vr("F"), <<t>>) : t \in {C(lo), Loc(Sort), C(a)}}
        hl == {Ap(Vr("H"), <<C(lo), Loc(Sort)>>), Ap(Vr("H"), <<Loc(Sort), Loc(Sort)>>)}
        one(ts) == {<<t>> : t \in ts}
        same == {<<Vr("Y"), Vr("Y")>>}
    IN InModule("F", Lm(1, Bv(1)),
                one(out \cup within \cup fl \cup {Ap(C(f), <<t>>) : t \in fl}),
                one({Loc(Sort), Ap(C(f), <<Loc(Sort)>>)}), <<Vr("W")>>)
       \cup InModule("F", Vr("G"), out \X out, same, <<Vr("Y"), Vr("W")>>)
       \cup UNION {InModule("F", v, one(out \cup within \cup fl), one(hidden), <<Vr("W")>>) :
                   v \in {Vr("G"), Lm(1, Bv(1))}}
       \cup InModule("F", Vr("G"), one(out \cup within), one({Ap(C(f), <<t>>) : t \in hidden}),
                     <<Vr("W")>>)
       \cup InModule("H", Vr("J"), one(hl), one(hidden), <<Vr("W")>>)
       \cup InModule("F", Vr("G"), (fl \X fl) \cup (fl \X out), same, <<Vr("Y"), Vr("W")>>)
       \cup InModule("H", Vr("J"), (hl \X hl) \cup (hl \X out), same, <<Vr("Y"), Vr("W")>>)

\* Functions of functions are bound by a first goal: redexes within redexes.
RedexPrograms ==
    LET perms == ("X" :> 1) @@ ("F" :> 2) @@ ("T" :> 3) @@ ("H" :> 4)
        fs == {Lm(1, Ap(C(f), <<Bv(1)>>)), Lm(1, Ap(C(g), <<Bv(1), Bv(1)>>)), Vr("G")}
        ts == {Lm(1, Ap(Bv(1), <<C(a)>>)), Lm(1, Ap(Bv(1), <<Ap(Bv(1), <<Vr("Z")>>)>>)), Vr("U"),
               Lm(1, Ap(C(f), <<Ap(Bv(1), <<C(a)>>)>>))}
        hs == {Lm(2, Ap(C(g), <<Bv(1), Bv(2)>>)), Lm(1, Ap(C(g), <<Bv(1)>>)), Lm(2, Bv(2)),
               Lm(1, C(f)), Lm(2, Ap(C(f), <<Bv(1)>>)),
               Lm(1, Lm(1, Bv(2)))}
        hx == Lm(1, Ap(Vr("H"), <<Bv(1), Bv(1)>>))
        ff == Lm(1, Ap(Vr("F"), <<Ap(Vr("F"), <<Bv(1)>>)>>))
        base == {Ap(Vr("T"), <<t>>) : t \in {Vr("F"), hx, ff, Ap(Vr("H"), <<C(a)>>)}}
                \cup {Ap(C(f), <<Ap(Vr("T"), <<ff>>)>>),
                      Ap(Vr("H"), <<Ap(Vr("T"), <<Vr("F")>>), Ap(Vr("F"), <<C(a)>>)>>),
                      Ap(Vr("F"), <<Ap(Vr("H"), <<Vr("X"), C(a)>>)>>)}
        under == {Ap(C(h), <<Lm(1, t)>>) : t \in {Ap(Vr("F"), <<Ap(Vr("H"), <<Bv(1), C(a)>>)>>),
                    Ap(Vr("T"), <<Lm(1, Ap(Vr("H"), <<Bv(2), Bv(1)>>))>>),
                    Ap(Vr("T"), <<Ap(Vr("H"), <<Bv(1)>>)>>)}}
        goal(t, u) == GoalOf(<<>>, <<t>>, <<Clause(<<u>>)>>)
        goals == {goal(t, u) : t \in base,
                  u \in {Ap(C(f), <<Vr("Y")>>), Ap(C(g), <<Vr("Y"), Ap(C(f), <<Vr("W")>>)>>)}}
                 \cup {goal(t, u) : t \in under,
                       u \in {Vr("Y"), Ap(C(h), <<Lm(1, Ap(Vr("V"), <<Bv(1)>>))>>)}}
    IN {Program(perms, FALSE,
                <<GoalOf(<<>>, <<Vr("X"), Vr("F"), Vr("T"), Vr("H")>>,
                         <<Clause(<<Vr("Z")>> \o v)>>), goal2>>) :
        goal2 \in goals, v \in {<<x, Vr("U"), z>> : x \in fs, z \in hs}
            \cup {<<x, y, Lm(2, Bv(2))>> : x \in fs, y \in ts}}

\* A variable applied to an argument meets a constant with a type in a head.
ConstPrograms ==
    {Program(("X" :> 1) @@ ("F" :> 2), FALSE,
             <<GoalOf(<<>>, <<Vr("X"), Vr("F")>>, <<Clause(<<Vr("Z"), Vr("G")>>)>>),
               GoalOf(<<>>, <<Ap(Vr("F"), <<t>>)>>, <<Clause(<<Emp(Sort)>>)>>)>>) :
                   t \in {C(a), Vr("X")}}

MCPrograms == RedexPrograms \cup FunPrograms \cup LastPrograms \cup StructurePrograms
              \cup TwoTypes \cup EqualPrograms \cup {ModuleProgram(p) : p \in ModulePrograms}
                  \cup AppliedPrograms \cup ManyClauses \cup FreePrograms \cup AllPrograms
                      \cup SomePrograms \cup ListPrograms \cup TwoPrograms
              \cup MappedPrograms \cup TypedPrograms \cup TypedPerm
=============================================================================
