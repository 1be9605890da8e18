------------------------------- MODULE Queries -------------------------------
(***************************************************************************)
(* A query made of builtin predicates: it is built on the heap, solved by  *)
(* the interpreter of goals (simulator/builtins/meta.c), and its answers   *)
(* are shown (front/query_c.c, printterm.c).                               *)
(*                                                                         *)
(* The stack holds what remains to be solved, goals, and the choice points *)
(* of disjunctions, cps: how records lie on the stack is Control's         *)
(* subject.  Streams and the table of the printer live outside of what     *)
(* backtracking undoes.                                                    *)
(*                                                                         *)
(* A query is a record: term, its tree; input, what will be typed.         *)
(***************************************************************************)
EXTENDS Builtins, Lambda

CONSTANT Queries

VARIABLES query,
          m,        \* the registers and the memory
          io,       \* the streams
          pr,       \* the printer
          goals,    \* what remains: addresses of goals, and AllEnd where a universe ends
          cps,      \* the choice points, the latest one last
          status,   \* what the machine does next
          bi,       \* the builtin called
          log,      \* history: what went through the streams
          asked,    \* history: what the arguments meant when the builtin was called
          shown     \* the text of the last answer
vars == <<query, m, io, pr, goals, cps, status, bi, log, asked, shown>>

AllEnd == 0

\* Predicates that need no code, by the number of their types.
TypedPreds == {"is", "=", "printterm", "term_to_string", "string_to_term", "readterm", "read"}
Preds == TypedPreds \cup DOMAIN Comparisons
         \cup {"open_in", "open_out", "open_append", "close_in", "close_out", "open_string",
               "input", "output", "input_line", "lookahead", "eof", "flush", "print", "getenv",
               "open_socket", "time", "system"}

-----------------------------------------------------------------------------
(* The query.                                                              *)

\* The goal is the first argument of solve.
Started(r, start) == [r EXCEPT !.m = Write([@ EXCEPT !.hb = HeapBeg], X(1), r.m.h[TermLoc(start)])]
QueryBuilt(q) == Started(ReadTree(EmptyMachine, InitPrinter, q.term, <<"s", "o">>), EmptyMachine)

Init ==
    /\ query \in Queries
    /\ m = QueryBuilt(query).m
    /\ pr = QueryBuilt(query).pr
    /\ io = InitIo(query.input)
    /\ goals = <<>> /\ cps = <<>>
    /\ status = "solve" /\ bi = "none"
    /\ log = <<>> /\ asked = <<>> /\ shown = <<>>

-----------------------------------------------------------------------------
(* Interpretive goals (BIMETA_solve).                                      *)

\* n is the machine after the goal has been head normalised.
HeadIs(n, c) == n.rig /\ n.h[n.head].ind = c

Solving(n, next) ==
    /\ m' = n /\ status' = next
    /\ UNCHANGED <<query, io, pr, bi, log, asked, shown>>

\* The first argument is copied to X(1).
FirstArg(n) == Write(n, X(1), n.h[n.argvec])
SecondArg(n) == Arg(n.argvec, 2)

SolveAnd(n) ==
    /\ HeadIs(n, ",")
    /\ Solving(FirstArg(n), "solve")
    /\ goals' = <<SecondArg(n)>> \o goals
    /\ UNCHANGED cps

SolveOr(n) ==
    /\ HeadIs(n, ";")
    /\ Solving([FirstArg(n) EXCEPT !.hb = n.hreg], "solve")
    /\ cps' = Append(cps, [alt |-> SecondArg(n), goals |-> goals, tr |-> Len(n.trail),
                           hreg |-> n.hreg, ll |-> n.ll, hb |-> n.hb, ucreg |-> n.ucreg])
    /\ UNCHANGED goals

\* The abstraction is applied to what is at c.
AppliedTo(n, c) ==
    [Write(Write(Write(n, n.hreg, App(1, n.argvec, n.hreg + 3)), n.hreg + 3, c),
           X(1), Ref(n.hreg)) EXCEPT !.hreg = @ + 5]

\* To a variable of the current universe.
SolveSome(n) ==
    /\ HeadIs(n, "sigma")
    /\ Solving(AppliedTo(n, Var(n.ucreg)), "solve")
    /\ UNCHANGED <<goals, cps>>

\* To a constant of the next universe, which ends with the goal.
SolveAll(n) ==
    /\ HeadIs(n, "pi")
    /\ Solving([AppliedTo(n, Const(n.ucreg + 1, "univ")) EXCEPT !.ucreg = @ + 1], "solve")
    /\ goals' = <<AllEnd>> \o goals
    /\ UNCHANGED cps

SolveTrue(n) ==
    /\ HeadIs(n, "true")
    /\ Solving(n, "proceed")
    /\ UNCHANGED <<goals, cps>>

SolveFail(n) ==
    /\ HeadIs(n, "fail")
    /\ Solving(Fail(n), "fail")
    /\ UNCHANGED <<goals, cps>>

\* The cells of the arguments are referred to, the types copied behind them.
SetRegs(n, c) ==
    LET args == {X(i) : i \in 1..n.numargs}
        tys == IF c \in TypedPreds THEN {X(n.numargs + 1)} ELSE {}
    IN [n EXCEPT !.h = [r \in args |-> Ref(Arg(n.argvec, r \div 2))]
                       @@ [r \in tys |-> n.h[n.h[n.head].ty]] @@ @]

CallBuiltin(n) ==
    /\ n.rig /\ n.h[n.head].ind \in Preds
    /\ m' = SetRegs(n, n.h[n.head].ind)
    /\ bi' = n.h[n.head].ind
    /\ status' = "call"
    /\ asked' = [i \in 1..n.numargs |-> Meaning(n, Arg(n.argvec, i))]
    /\ UNCHANGED <<query, io, pr, goals, cps, log, shown>>

FlexGoal(n) ==
    /\ ~n.rig
    /\ m' = Error(n, "FLEX_GOAL")
    /\ status' = "error"
    /\ pr' = ResetPrintState(pr)
    /\ UNCHANGED <<query, io, goals, cps, bi, log, asked, shown>>

SolveGoal(n) ==
    \/ SolveAnd(n) \/ SolveOr(n) \/ SolveSome(n) \/ SolveAll(n) \/ SolveTrue(n)
    \/ SolveFail(n) \/ CallBuiltin(n) \/ FlexGoal(n)

Solve == status = "solve" /\ SolveGoal(Hnorm(m, X(1)))

-----------------------------------------------------------------------------
(* The builtins.  An error that ends the query resets the printer.         *)

Outcome(r) ==
    /\ m' = r.m /\ io' = r.io
    /\ pr' = IF r.m.err = "none" THEN r.pr ELSE ResetPrintState(r.pr)
    /\ status' = IF ~r.m.fail THEN r.next ELSE IF r.m.err = "none" THEN "fail" ELSE "error"
    /\ log' = log \o r.log
    /\ UNCHANGED <<query, goals, cps, bi, asked, shown>>

Calls(c) == status = "call" /\ bi = c

Eval1 == Calls("is") /\ \E rl \in BOOLEAN : Outcome(DoEval(m, io, pr, rl))
Compare1 == \E c \in DOMAIN Comparisons :
               Calls(c) /\ \E rl \in BOOLEAN : Outcome(DoComp(m, io, pr, c, rl))
Equal == Calls("=") /\ Outcome(To(m, io, pr, "eq", <<>>))
OpenIn == Calls("open_in") /\ Outcome(DoOpen(m, io, pr, "r"))
OpenOut == Calls("open_out") /\ Outcome(DoOpen(m, io, pr, "w"))
OpenApp == Calls("open_append") /\ Outcome(DoOpen(m, io, pr, "a"))
OpenString == Calls("open_string") /\ Outcome(OpenStr(m, io, pr))
CloseIn == Calls("close_in") /\ Outcome(DoClose(m, io, pr))
CloseOut == Calls("close_out") /\ Outcome(DoClose(m, io, pr))
InputChars == Calls("input") /\ Outcome(Input(m, io, pr))
InputALine == Calls("input_line") /\ Outcome(InputLine(m, io, pr))
LookAhead1 == Calls("lookahead") /\ Outcome(LookAhead(m, io, pr))
EofReached == Calls("eof") /\ Outcome(DoEof(m, io, pr))
OutputChars == Calls("output") /\ Outcome(Output(m, io, pr))
PrintChars == Calls("print") /\ Outcome(DoPrint(m, io, pr))
FlushStream == Calls("flush") /\ Outcome(DoFlush(m, io, pr))
PrintTerm1 == Calls("printterm") /\ Outcome(DoPrintTerm(m, io, pr))
TermToString == Calls("term_to_string") /\ Outcome(TermToStr(m, io, pr))
StringToTerm == Calls("string_to_term") /\ Outcome(StrToTerm(m, io, pr))
ReadTerm1 == Calls("readterm") /\ Outcome(ReadTerm(m, io, pr))
ReadInput == Calls("read") /\ Outcome(DoRead(m, io, pr))
GetEnv1 == Calls("getenv") /\ Outcome(GetEnv(m, io, pr))
System1 == Calls("system") /\ \E rc \in {-1, 0} : Outcome(System(m, io, pr, rc))
OpenSocket == Calls("open_socket") /\ Outcome(NotImplemented(m, io, pr))
UnixTime == Calls("time") /\ Outcome(NotImplemented(m, io, pr))

\* eqCode: pattern_unify A1, A2; finish_unify; proceed.
Finished(p) == IF p.fail THEN p ELSE PatternUnify(p)
UnifyRegs12 ==
    /\ status = "eq"
    /\ LET p == Finished(PatternUnifyPair(m, X(1), X(2)))
       IN /\ m' = p
          /\ status' = IF p.fail THEN "fail" ELSE "proceed"
    /\ UNCHANGED <<query, io, pr, goals, cps, bi, log, asked, shown>>

-----------------------------------------------------------------------------
(* The next goal, the next alternative.                                    *)

\* andCode, allCode.
NextGoal ==
    /\ status = "proceed" /\ goals # <<>>
    /\ goals' = Tail(goals)
    /\ IF goals[1] = AllEnd
       THEN Solving([m EXCEPT !.ucreg = @ - 1], "proceed")
       ELSE Solving(Write(m, X(1), Ref(goals[1])), "solve")
    /\ UNCHANGED cps

Backtrack ==
    LET cp == cps[Len(cps)]
        u == UnwindTrail(m, cp.tr)
        kept == {a \in DOMAIN u.h : a < cp.hreg}
    IN /\ status = "fail" /\ cps # <<>>
       /\ m' = [u EXCEPT !.h = (X(1) :> Ref(cp.alt)) @@ [a \in kept |-> u.h[a]],
                         !.pdl = <<>>, !.pdlbot = 0, !.bnd = FALSE, !.fail = FALSE,
                         !.hreg = cp.hreg, !.ll = cp.ll, !.hb = cp.hb, !.ucreg = cp.ucreg]
       /\ goals' = cp.goals
       /\ cps' = SubSeq(cps, 1, Len(cps) - 1)
       /\ status' = "solve"
       /\ UNCHANGED <<query, io, pr, bi, log, asked, shown>>

\* The query has no more answers.
NoMore ==
    /\ status = "fail" /\ cps = <<>>
    /\ status' = "no"
    /\ UNCHANGED <<query, m, io, pr, goals, cps, bi, log, asked, shown>>

-----------------------------------------------------------------------------
(* Answers.                                                                *)

Banner == <<Newline, Text("The answer substitution:"), Newline>>
PairsBanner == <<Newline, Text("The remaining disagreement pairs list:"), Newline>>

\* The delayed pairs come after the substitution.
ShowPairsOf(w) == IF w.m.ll = NULL THEN w ELSE ShowDisAgreeList(Emit(w, PairsBanner))
AnswerText == ShowPairsOf(ShowAnswerSubs(Emit(Printer(m, pr), Banner)))

Shown(w) ==
    /\ m' = w.m
    /\ shown' = w.out
    /\ io' = Printf(io, Stdout, w.out)
    /\ pr' = IF w.m.fail THEN w.pr ELSE ResetPrintState(w.pr)
    /\ status' = IF w.m.fail THEN "error" ELSE "shown"
    /\ UNCHANGED <<query, goals, cps, bi, log, asked>>

ShowAnswers ==
    /\ status = "proceed" /\ goals = <<>> /\ QueryHasVars(pr)
    /\ Shown(AnswerText)

\* A query without variables is answered with a yes.
Yes ==
    /\ status = "proceed" /\ goals = <<>> /\ ~QueryHasVars(pr)
    /\ status' = "yes"
    /\ UNCHANGED <<query, m, io, pr, goals, cps, bi, log, asked, shown>>

\* More answers are asked for.
Again ==
    /\ status = "shown"
    /\ status' = "fail"
    /\ UNCHANGED <<query, m, io, pr, goals, cps, bi, log, asked, shown>>

Files1 == \/ OpenIn \/ OpenOut \/ OpenApp \/ OpenString \/ CloseIn \/ CloseOut
          \/ InputChars \/ InputALine \/ LookAhead1 \/ EofReached
          \/ OutputChars \/ PrintChars \/ FlushStream
Terms1 == PrintTerm1 \/ TermToString \/ StringToTerm \/ ReadTerm1 \/ ReadInput
Others == Eval1 \/ Compare1 \/ Equal \/ GetEnv1 \/ System1 \/ OpenSocket \/ UnixTime

Next == \/ Solve \/ Files1 \/ Terms1 \/ Others \/ UnifyRegs12
        \/ NextGoal \/ Backtrack \/ NoMore \/ ShowAnswers \/ Yes \/ Again

Spec == Init /\ [][Next]_vars

-----------------------------------------------------------------------------
(* What a query may rely on: the value of an expression, the order of what *)
(* goes through a stream, that a term printed is read back, and that an    *)
(* answer says what it shows.                                              *)

(* Terms up to the names of their variables.  A constant's types are not   *)
(* printed.                                                                *)

RECURSIVE Shape(_), VarsIn(_)
Shape(t) == CASE t[1] = "v" -> <<"v">>
              [] t[1] = "c" -> <<"c", t[2]>>
              [] t[1] = "l" -> L(Shape(t[2]))
              [] t[1] = "a" -> A(Shape(t[2]), Shape(t[3]))
              [] OTHER -> t

\* The variables in the order they are met.
VarsIn(t) == CASE t[1] = "v" -> <<t>>
               [] t[1] = "l" -> VarsIn(t[2])
               [] t[1] = "a" -> VarsIn(t[2]) \o VarsIn(t[3])
               [] OTHER -> <<>>

\* One variable for one and no two for the same.
Renamed(vs, ws) ==
    /\ Len(vs) = Len(ws)
    /\ \A i, j \in DOMAIN vs : (vs[i] = vs[j]) <=> (ws[i] = ws[j])

SameUpTo(t, u) == Shape(t) = Shape(u) /\ Renamed(VarsIn(t), VarsIn(u))

\* What a tree that was parsed means.
RECURSIVE TreeMeaning(_)
TreeMeaning(t) ==
    CASE t[1] = "fv" -> V(<<t[2], t[3]>>)
      [] t[1] = "c" -> IF t[2] = "nil" THEN <<"k", "nil">>
                       ELSE IF t[2] = "::" THEN <<"k", "cons">> ELSE <<"c", t[2], <<>> >>
      [] t[1] = "lam" -> Lams(t[2], TreeMeaning(t[3]))
      [] t[1] = "app" -> Apply(TreeMeaning(t[2]), [i \in DOMAIN t[3] |-> TreeMeaning(t[3][i])])
      [] OTHER -> t

-----------------------------------------------------------------------------
(* The value of an expression, from its meaning: the set of its outcomes.  *)

RECURSIVE Spine(_)
Spine(t) == IF t[1] = "a" THEN Append(Spine(t[2]), t[3]) ELSE <<t>>

ExactInt(op, v) ==
    CASE op = "~" -> -v[1]
      [] op = "+" -> v[1] + v[2]
      [] op = "-" -> v[1] - v[2]
      [] op = "*" -> v[1] * v[2]
      [] op = "div" -> CHOOSE q \in -Abs(v[1])..Abs(v[1]) :
                          LET r == v[1] - q * v[2]
                          IN Abs(r) < Abs(v[2]) /\ (r = 0 \/ (r < 0) = (v[1] < 0))
      [] op = "mod" -> CHOOSE r \in (1 - Abs(v[2]))..(Abs(v[2]) - 1) :
                          (r = 0 \/ (r < 0) = (v[1] < 0))
                          /\ \E q \in -Abs(v[1])..Abs(v[1]) : v[1] = q * v[2] + r
      [] op = "iabs" -> Abs(v[1])
      [] op = "floor" -> CHOOSE n \in -100..100 : 4 * n <= v[1] /\ v[1] < 4 * n + 4
      [] op = "ceil" -> CHOOSE n \in -100..100 : 4 * n - 4 < v[1] /\ v[1] <= 4 * n
      [] op = "truncate" -> CHOOSE n \in -100..100 :
                               /\ Abs(4 * n) <= Abs(v[1]) /\ Abs(v[1]) < Abs(4 * n) + 4
                               /\ n = 0 \/ (n < 0) = (v[1] < 0)
      [] op = "string_to_int" -> v[1][1][2]
      [] op = "size" -> Len(v[1])

ExactReal(op, v) ==
    CASE op = "r~" -> -v[1]
      [] op = "r+" -> v[1] + v[2]
      [] op = "r-" -> v[1] - v[2]
      [] op = "r*" -> CHOOSE x \in -400..400 : 4 * x = v[1] * v[2]
      [] op = "/" -> CHOOSE x \in -400..400 : x * v[2] = 4 * v[1]
      [] op = "sqrt" -> CHOOSE x \in 0..400 : x * x = 4 * v[1]
      [] op = "ln" -> 0
      [] op = "rabs" -> Abs(v[1])
      [] op = "int_to_real" -> 4 * v[1]

ExactString(op, v) ==
    CASE op = "^" -> v[1] \o v[2]
      [] op = "substring" -> [i \in 1..v[3] |-> v[1][v[2] + i]]
      [] op = "chr" -> <<Ch(v[1])>>
      [] op = "int_to_string" -> IntChars(v[1])
      [] op = "real_to_string" -> RealChars(v[1])

\* The operands for which an operator has no value.
Undefined(op, v) ==
    CASE op \in {"div", "/"} /\ v[2] = 0 -> {"DIV_BY_ZERO"}
      [] op = "sqrt" /\ v[1] < 0 -> {"NEG_SQRT"}
      [] op = "ln" /\ v[1] <= 0 -> {"NEG_SQRT"}
      [] op = "substring" /\ (v[2] < 0 \/ v[3] < 0 \/ v[2] + v[3] > Len(v[1])) -> {"SUBSTRING"}
      [] OTHER -> {}

Exact(type, op, v) ==
    CASE type = "int" -> LET x == ExactInt(op, v)
                         IN CHOOSE y \in -(IntBase \div 2)..(IntBase \div 2 - 1) :
                               \E k \in -IntBase..IntBase : x = y + k * IntBase
      [] type = "real" -> ExactReal(op, v)
      [] type = "string" -> ExactString(op, v)

ValueKind == [int |-> "i", real |-> "r", string |-> "s"]

\* [value, errs]: with no errors, the value.  The first of two operands that
\* have no value is not said.
RECURSIVE Denotes(_, _)
OperandsDenote(args, types) == [i \in DOMAIN types |-> Denotes(args[i + 1], types[i])]
Combined(type, op, ds) ==
    LET errs == UNION {ds[i].errs : i \in DOMAIN ds}
        v == [i \in DOMAIN ds |-> ds[i].value]
        bad == IF errs # {} THEN errs ELSE Undefined(op, v)
    IN [value |-> IF bad = {} THEN Exact(type, op, v) ELSE 0, errs |-> bad]
Denotes(t, type) ==
    LET s == Spine(t)
        none == [value |-> 0, errs |-> {}]
    IN CASE type \notin EvalTypes -> [none EXCEPT !.errs = {"EVAL_TYPE"}]
         [] type \in EvalTypes /\ Len(s) = 1 /\ t[1] = ValueKind[type] -> [none EXCEPT !.value = t[2]]
         [] s[1][1] = "v" -> [none EXCEPT !.errs = {"FLEX_HEAD"}]
         [] s[1][1] = "k" \/ (Len(s) = 1 /\ t[1] \notin {"v", ValueKind[type]}) ->
              [none EXCEPT !.errs = {"ILLEGAL_ARG"}]
         [] Len(s) > 1 /\ s[1][1] = "c" /\ s[1][2] \in DOMAIN OpArgs[type] ->
              Combined(type, s[1][2], OperandsDenote(s, OpArgs[type][s[1][2]]))
         [] OTHER -> [none EXCEPT !.errs = {"CONST_IND"}]

\* An expression, whatever shares its parts and however it has come about, has
\* the value that its meaning has by the rules of arithmetic modulo the width
\* of an integer and of strings, or raises an error that an operand calls for;
\* its evaluation changes no other argument (evalexp.c, mcstring.c).
EvaluatesTo ==
    [][Calls("is") =>
          LET type == m.h[TypeDeref(m, X(3))].k
              d == Denotes(asked[2], type)
          IN IF d.errs = {} THEN /\ status' = "eq"
                                 /\ Meaning(m', X(2)) = <<ValueKind[type], d.value>>
                                 /\ Meaning(m', X(1)) = asked[1]
             ELSE status' = "error" /\ m'.err \in d.errs]_vars

-----------------------------------------------------------------------------
(* Streams.                                                                *)

Entries(op, s) == {i \in DOMAIN log : log[i].op \in op /\ log[i].s = s}

RECURSIVE Concat(_)
Concat(chunks) == IF chunks = <<>> THEN <<>> ELSE Head(chunks).cs \o Concat(Tail(chunks))
Got(s) == Concat(SelectSeq(log, LAMBDA e : e.s = s /\ e.op \in {"input", "line"}))
Sent(s) == Concat(SelectSeq(log, LAMBDA e : e.s = s /\ e.op = "write"))

Source(s) == IF io.s[s].kind = "instring" THEN StrChars(m, io.s[s].data) ELSE io.s[s].data
SubseqAt(cs, from, ds) == Len(ds) >= from + Len(cs) /\ SubSeq(ds, from + 1, from + Len(cs)) = cs
IsPrefixAt(cs, ds) == SubseqAt(cs, 0, ds)
IsSuffixAt(cs, ds) == Len(cs) <= Len(ds) /\ SubseqAt(cs, Len(ds) - Len(cs), ds)

IsClosed(s) == Entries({"close"}, s) # {}
Alive(s) == io.s[s].kind # "instring" \/ io.s[s].data \in DOMAIN m.h

\* A line goes up to its newline; only the last one may have none.
LineWhole(i) ==
    LET cs == log[i].cs
        later == \E j \in Entries({"input", "line"}, log[i].s) : j > i
    IN /\ \A k \in 1..(Len(cs) - 1) : cs[k] # Newline
       /\ \/ cs # <<>> /\ cs[Len(cs)] = Newline
          \/ Len(cs) = MaxLineLength - 1
          \/ ~later /\ (Alive(log[i].s) => io.s[log[i].s].off = Len(Source(log[i].s)))

\* What is written to a file is there once the stream is flushed, in order, or
\* still to be written.
WrittenInOrder(s) ==
    LET f == io.s[s]
    IN f.kind = "outfile" /\ ~(\E t \in DOMAIN io.s : t > s /\ io.s[t].name = f.name
                                                      /\ io.s[t].kind = "outfile")
          => IsSuffixAt(Sent(s), io.files[f.name] \o f.buf)

\* A stream that was closed is not used again, not even through a term that
\* backtracking has brought back.  closeStreamTerm (io.c) marks the one term it
\* is called with: the queries hold no copy that head normalisation has made
\* of a term that stands for a stream.
ClosedUnused ==
    \A s \in DOMAIN io.s : \A i \in Entries({"close"}, s) :
       \A j \in Entries({"input", "line", "write", "flush", "close"}, s) : j <= i

\* The characters a stream delivers are its content, in order, each once, even
\* when the reader is backtracked over; a line ends where it ends; what is
\* written arrives in order; a stream that was closed is not used again and is
\* no longer listed (stream.c, io.c).
StreamsInOrder ==
    /\ \A s \in DOMAIN io.s :
          /\ CanRead(io, s) /\ Alive(s) => IsPrefixAt(Got(s), Source(s)) /\ Len(Got(s)) = io.s[s].off
          /\ WrittenInOrder(s)
          /\ IsClosed(s) => \A i \in DOMAIN io.list : io.list[i] # s
    /\ \A i \in DOMAIN log : log[i].op = "line" => LineWhole(i)
    /\ ClosedUnused

-----------------------------------------------------------------------------
(* Terms printed and read.                                                 *)

\* The query's variable of a name.
Location(x) == pr.tab[CHOOSE i \in DOMAIN pr.tab : pr.tab[i].name = x].loc

\* A term that is printed and read back is the same term, up to the names of
\* its variables: every query that does so has an answer and in it the two
\* terms are alike (printterm.c, readterm.c, parse.ml).
RoundTrip ==
    query.same # <<>> =>
       /\ shown = <<>> => status \notin {"fail", "error", "no"}
       /\ status = "shown" => SameUpTo(Meaning(m, Location(query.same[1])),
                                       Meaning(m, Location(query.same[2])))

-----------------------------------------------------------------------------
(* Answers.                                                                *)

\* The lines of a text, without their newlines.
RECURSIVE Lines(_)
Lines(cs) ==
    LET at == {i \in DOMAIN cs : cs[i] = Newline}
        first == CHOOSE i \in at : \A j \in at : i <= j
    IN IF at = {} THEN <<>>
       ELSE <<SubSeq(cs, 1, first - 1)>> \o Lines(SubSeq(cs, first + 1, Len(cs)))

Answer == SelectSeq(Lines(shown), LAMBDA l : Len(l) > 3 /\ l[3] = Id("=")) 

\* The tree that a line shows for its variable.
LineTree(l) == ParseText(SubSeq(l, 5, Len(l)) \o <<Period>>)

Named == SelectSeq(pr.tab, LAMBDA v : v.name # AnonVar)

\* The variables of the query and those of its answers, as they are shown and
\* as they are.
RECURSIVE ShownVars(_, _), ActualVars(_, _)
ShownVars(lines, i) ==
    IF i > Len(lines) THEN <<>>
    ELSE <<V(<<lines[i][1], 0>>)>> \o VarsIn(Normal(TreeMeaning(LineTree(lines[i]).term), 30))
         \o ShownVars(lines, i + 1)
ActualVars(vs, i) ==
    IF i > Len(vs) THEN <<>>
    ELSE <<V(vs[i].loc)>> \o VarsIn(Meaning(m, vs[i].loc)) \o ActualVars(vs, i + 1)

\* What is printed but cannot be read: streams, negative numbers, constants
\* without a name, newlines and quotes in strings.
ReadableAtom(x) ==
    CASE x[1] = "st" -> FALSE
      [] x[1] \in {"i", "r"} -> x[2] >= 0
      [] x[1] = "s" -> \A i \in DOMAIN x[2] : x[2][i] \notin {Newline, Quote}
      [] x[1] = "c" -> x[2] \in DOMAIN Consts
      [] OTHER -> TRUE
CanBeRead(t) == \A x \in Atoms(t) : ReadableAtom(x)

\* An answer read as a set of equations says what the bindings are: every line
\* names a variable of the query, in order, and reads back as its value; the
\* names stand for variables one to one, over all the lines (printterm.c,
\* io-datastructures.c).  An answer with delayed pairs has them after the
\* lines.
AnswersRead ==
    status = "shown" /\ (\A i \in DOMAIN Named : CanBeRead(Meaning(m, Named[i].loc))) =>
       LET lines == Answer
           vs == Named
       IN /\ Len(lines) = Len(vs)
          /\ \A i \in DOMAIN vs :
                /\ lines[i][1] = vs[i].name
                /\ LineTree(lines[i]).ok
                /\ Shape(Normal(TreeMeaning(LineTree(lines[i]).term), 30))
                      = Shape(Meaning(m, vs[i].loc))
          /\ Renamed(ShownVars(lines, 1), ActualVars(vs, 1))
=============================================================================
