------------------------------- MODULE Parsing -------------------------------
(***************************************************************************)
(* Parsing of a term read at run time (compiler/lplex.mll, lpyacc.mly,     *)
(* parse.ml): from characters to tokens, and from tokens to a tree of      *)
(*   <<"c", c, tys>>      a constant with its type arguments               *)
(*   <<"fv", name, k>>    a variable; k numbers the anonymous ones         *)
(*   <<"b", i>>           a bound variable, by its de Bruijn index         *)
(*   <<"i", n>>, <<"r", x>>, <<"s", cs>>                                   *)
(*   <<"lam", n, t>>, <<"app", f, args>>                                   *)
(* The items of an expression are combined by a shift-reduce automaton     *)
(* driven by the fixities and precedences of the operators; items next to  *)
(* each other are joined by the operator of application.                   *)
(*                                                                         *)
(* Lists in brackets, type annotations, escapes in strings, redexes and    *)
(* terms that are not well typed are not modelled.                         *)
(***************************************************************************)
EXTENDS Printing

-----------------------------------------------------------------------------
(* Tokens: a number, a string, a name or a punctuation mark.               *)

NameKinds == {"id", "up", "us", "av"}
IsDigit(c) == c[1] = "ch" /\ c[2] \in 48..57
IsName(c) == c[1] \in NameKinds

\* The characters from the front that satisfy a test; the value of digits.
RECURSIVE DigitsOf(_), Value(_)
DigitsOf(cs) == IF cs = <<>> \/ ~IsDigit(cs[1]) THEN <<>> ELSE <<cs[1]>> \o DigitsOf(Tail(cs))
Value(ds) == IF ds = <<>> THEN 0 ELSE 10 * Value(SubSeq(ds, 1, Len(ds) - 1)) + ds[Len(ds)][2] - 48

Drop(cs, n) == SubSeq(cs, n + 1, Len(cs))

\* The text up to the closing quote, a doubled quote standing for one; a
\* newline before it is an error.
RECURSIVE StringText(_)
Unended == <<"unended">>
AddChar(c, cs) == IF cs = Unended THEN Unended ELSE <<c>> \o cs
StringText(cs) ==
    CASE cs = <<>> \/ cs[1] = Newline -> Unended
      [] cs # <<>> /\ cs[1] = Quote /\ (Len(cs) = 1 \/ cs[2] # Quote) -> <<>>
      [] cs # <<>> /\ cs[1] = Quote /\ Len(cs) > 1 /\ cs[2] = Quote ->
           AddChar(Quote, StringText(Drop(cs, 2)))
      [] OTHER -> AddChar(cs[1], StringText(Tail(cs)))

\* Characters of the text a string stands for.
Quoted(cs) == LET quotes == {i \in DOMAIN cs : cs[i] = Quote} IN Len(cs) + Cardinality(quotes)

RECURSIVE Tokens(_)
TokensError == << <<"error">> >>

\* A name next to a name or to digits is another name, which is declared nowhere.
NameTokens(cs) ==
    IF Len(cs) > 1 /\ (IsName(cs[2]) \/ IsDigit(cs[2])) THEN TokensError
    ELSE << <<"name", cs[1]>> >> \o Tokens(Tail(cs))

\* In quarters.
Fraction(ds) == (Value(ds) * 4) \div (10 ^ Len(ds))

NumTokens(ds, cs) ==
    LET places == DigitsOf(Tail(cs))
    IN IF cs # <<>> /\ cs[1] = Period /\ places # <<>>
       THEN << <<"term", <<"r", 4 * Value(ds) + Fraction(places)>> >> >>
            \o Tokens(Drop(cs, 1 + Len(places)))
       ELSE << <<"term", <<"i", Value(ds)>> >> >> \o Tokens(cs)

StrTokens(text, cs) ==
    IF text = Unended THEN TokensError
    ELSE << <<"term", <<"s", text>> >> >> \o Tokens(Drop(cs, Quoted(text) + 1))

Marks == [x \in {LParen, RParen, Backslash} |->
             CASE x = LParen -> <<"(">> [] x = RParen -> <<")">> [] x = Backslash -> <<"\\">>]

\* The text ends with the first period.
Tokens(cs) ==
    CASE cs = <<>> -> TokensError
      [] cs # <<>> /\ cs[1] \in {Space, Newline} -> Tokens(Tail(cs))
      [] cs # <<>> /\ cs[1] = Period /\ DigitsOf(Tail(cs)) = <<>> -> << <<".">> >>
      [] cs # <<>> /\ IsDigit(cs[1]) -> NumTokens(DigitsOf(cs), Drop(cs, Len(DigitsOf(cs))))
      [] cs # <<>> /\ cs[1] = Quote -> StrTokens(StringText(Tail(cs)), Tail(cs))
      [] cs # <<>> /\ cs[1] \in DOMAIN Marks -> <<Marks[cs[1]]>> \o Tokens(Tail(cs))
      [] cs # <<>> /\ IsName(cs[1]) -> NameTokens(cs)
      [] OTHER -> TokensError

-----------------------------------------------------------------------------
(* Terms.  Applications are to all their arguments, abstractions over all  *)
(* their variables.                                                        *)

ConstTree(c) == <<"c", c, <<>>>>
Applied(f, args) ==
    IF f[1] = "app" THEN <<"app", f[2], f[3] \o args>> ELSE <<"app", f, args>>
Abstracted(t) == IF t[1] = "lam" THEN <<"lam", t[2] + 1, t[3]>> ELSE <<"lam", 1, t>>

-----------------------------------------------------------------------------
(* The automaton: items, the terms and operators met, the last one first;  *)
(* state; the precedence of the last operator.                             *)

Apply1 == " apply"
Fixity(c) == IF c = Apply1 THEN "infixl" ELSE Consts[c].fix
Precedence(c) == IF c = Apply1 THEN 257 ELSE Consts[c].prec

StackOf(items, state, prec) == [items |-> items, state |-> state, prec |-> prec]
NewStack == StackOf(<<>>, "none", 0)
ErrorStack == StackOf(<<>>, "error", 0)

\* The state after a term, after an operator, and after a reduction that leaves
\* the operator fix below the result.
TermStates == [none |-> "term", prefix |-> "prefixrarg", prefixr |-> "prefixrarg",
               infix |-> "infixarg", infixr |-> "infixrarg"]
OpStates == [prefix |-> "prefix", prefixr |-> "prefixr", infix |-> "infix", infixl |-> "infix",
             infixr |-> "infixr", postfix |-> "postfix", postfixl |-> "postfix"]
ArgStates == [prefix |-> "prefixarg", prefixr |-> "prefixrarg", infix |-> "infixarg",
              infixl |-> "infixarg", infixr |-> "infixrarg"]

PushTerm(s, t) ==
    IF s.state \in DOMAIN TermStates
    THEN StackOf(<<t>> \o s.items, TermStates[s.state], s.prec) ELSE ErrorStack

PushOperation(s, c) ==
    StackOf(<< <<"op", c>> >> \o s.items, OpStates[Fixity(c)], Precedence(c))

\* What an operator does in a state.
Compared(prec, s, above, same, below) ==
    IF prec > s.prec THEN above ELSE IF prec = s.prec THEN same ELSE below

DecidePrefix(s, prec) ==
    CASE s.state = "none" -> "push"
      [] s.state \in {"prefix", "infix"} -> Compared(prec, s, "push", "error", "error")
      [] s.state \in {"prefixr", "infixr"} -> Compared(prec, s, "push", "push", "error")
      [] OTHER -> "apply"

Decide(s, fix, prec) ==
    LET left == fix \in {"infixl", "postfixl"}
    IN CASE fix \in Prefixes -> DecidePrefix(s, prec)
         [] fix \notin Prefixes /\ s.state \in {"prefixarg", "infixarg"} ->
              Compared(prec, s, "push", IF left THEN "reduce" ELSE "error", "reduce")
         [] fix \notin Prefixes /\ s.state \in {"prefixrarg", "infixrarg"} ->
              Compared(prec, s, "push", IF left THEN "error" ELSE "push", "reduce")
         [] fix \notin Prefixes /\ s.state = "postfix" ->
              Compared(prec, s, "error", IF left THEN "reduce" ELSE "error", "reduce")
         [] fix \notin Prefixes /\ s.state = "term" -> "push"
         [] OTHER -> "error"

NewParseState(items, s) ==
    IF Len(items) = 1 THEN StackOf(items, "term", s.prec)
    ELSE StackOf(items, ArgStates[Fixity(items[2][2])], Precedence(items[2][2]))

Reduced(s, t, n) == NewParseState(<<t>> \o Drop(s.items, n), s)

\* The operator on top of a postfix state, or the one below the last term, is
\* applied.
ReduceOperation(s) ==
    LET i == s.items
    IN CASE s.state = "postfix" -> Reduced(s, Applied(ConstTree(i[1][2]), <<i[2]>>), 2)
         [] s.state # "postfix" /\ i[2] = <<"op", Apply1>> -> Reduced(s, Applied(i[3], <<i[1]>>), 3)
         [] s.state \in {"prefixarg", "prefixrarg"} ->
              Reduced(s, Applied(ConstTree(i[2][2]), <<i[1]>>), 2)
         [] OTHER -> Reduced(s, Applied(ConstTree(i[2][2]), <<i[3], i[1]>>), 3)

RECURSIVE StackOperation(_, _), ReduceAll(_)
StackOperation(s, c) ==
    LET what == IF s.state = "error" THEN "error" ELSE Decide(s, Fixity(c), Precedence(c))
    IN CASE what = "push" -> PushOperation(s, c)
         [] what = "reduce" -> StackOperation(ReduceOperation(s), c)
         [] what = "apply" -> PushOperation(StackOperation(s, Apply1), c)
         [] what = "error" -> ErrorStack

StackTerm(s, t) ==
    CASE s.state = "error" -> s
      [] s.state \in DOMAIN TermStates -> PushTerm(s, t)
      [] OTHER -> PushTerm(StackOperation(s, Apply1), t)

ReduceAll(s) == IF s.state \in {"term", "error"} THEN s ELSE ReduceAll(ReduceOperation(s))

\* An operator without its operand is an error.
ReduceToTerm(s) == IF s.state \in DOMAIN TermStates THEN ErrorStack ELSE ReduceAll(s)

-----------------------------------------------------------------------------
(* Expressions: p holds the tokens that remain, the anonymous variables    *)
(* met and the term parsed; bvs the names of the bound variables, the last *)
(* one first.                                                              *)

ParseError(p) == [p EXCEPT !.ok = FALSE]
After(p, n) == [p EXCEPT !.toks = Drop(@, n)]
Parsed(p, t) == [p EXCEPT !.term = t]

\* A name of a constant or a variable may be bound; an anonymous variable and
\* one that starts with an underscore are not looked up.
BoundBy(name, bvs) ==
    IF name[1] \in {"av", "us"} THEN {} ELSE {i \in DOMAIN bvs : bvs[i] = name}

\* The term of a name that is no operator.
NameTree(p, name, bvs) ==
    LET at == BoundBy(name, bvs)
    IN CASE name[1] = "av" -> <<"fv", name, p.anon + 1>>
         [] at # {} -> <<"b", CHOOSE i \in at : \A j \in at : i <= j>>
         [] name[1] = "id" /\ at = {} -> ConstTree(name[2])
         [] OTHER -> <<"fv", name, 0>>

IsConstant(name, bvs) == name[1] = "id" /\ BoundBy(name, bvs) = {}
Operator(name, bvs) == IsConstant(name, bvs) /\ Consts[name[2]].fix # "none"

RECURSIVE ParseItems(_, _, _)

\* The parenthesised expression, the body of the abstraction that p has parsed.
Enclosed(p, bvs, s) ==
    IF ~p.ok \/ p.toks[1] # <<")">> THEN ParseError(p)
    ELSE ParseItems(After(p, 1), bvs, StackTerm(s, p.term))
Body(p, bvs, s) ==
    IF ~p.ok THEN p ELSE ParseItems(p, bvs, StackTerm(s, Abstracted(p.term)))

Item(p, name, bvs, s) ==
    LET q == After(IF name[1] = "av" THEN [p EXCEPT !.anon = @ + 1] ELSE p, 1)
    IN CASE IsConstant(name, bvs) /\ name[2] \notin DOMAIN Consts -> ParseError(p)
         [] IsConstant(name, bvs) /\ name[2] \in DOMAIN Consts /\ Operator(name, bvs) ->
              ParseItems(q, bvs, StackOperation(s, name[2]))
         [] OTHER -> ParseItems(q, bvs, StackTerm(s, NameTree(p, name, bvs)))

EndItems(p, s) ==
    IF s.state = "error" THEN ParseError(p) ELSE Parsed(p, s.items[1])

ParseItems(p, bvs, s) ==
    LET tok == p.toks[1]
    IN CASE tok \in {<<"error">>, <<"\\">>} -> ParseError(p)
         [] tok \in {<<".">>, <<")">>} -> EndItems(p, ReduceToTerm(s))
         [] tok = <<"(">> -> Enclosed(ParseItems(After(p, 1), bvs, NewStack), bvs, s)
         [] tok[1] = "term" -> ParseItems(After(p, 1), bvs, StackTerm(s, tok[2]))
         [] tok[1] = "name" /\ p.toks[2] = <<"\\">> ->
              Body(ParseItems(After(p, 2), <<tok[2]>> \o bvs, NewStack), bvs, s)
         [] OTHER -> Item(p, tok[2], bvs, s)

\* The whole text is one expression.
Complete(p) == IF p.ok /\ p.toks # << <<".">> >> THEN ParseError(p) ELSE p

ParseText(cs) ==
    Complete(ParseItems([toks |-> Tokens(cs), anon |-> 0, ok |-> TRUE, term |-> <<"none">>],
                        <<>>, NewStack))
=============================================================================
