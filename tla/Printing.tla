------------------------------ MODULE Printing ------------------------------
(***************************************************************************)
(* Printing of terms (simulator/printterm.c) and the table of the free     *)
(* variables of the query (simulator/io-datastructures.c), which gives     *)
(* them their names in the answers.                                        *)
(*                                                                         *)
(* pr is the state of the printer: tab, the table, whose first numq        *)
(* entries are the query's variables; names, whether a free variable is    *)
(* printed by a name; fv and bv, the counters from which names are made;   *)
(* bvs, the names of the bound variables in scope; cl, the constants       *)
(* without a name that were printed.  A routine takes a record w of the    *)
(* machine m, the printer pr and what has been printed, out.               *)
(***************************************************************************)
EXTENDS Strings

CONSTANTS Consts,        \* the constants that have a name, with their fixity and precedence
          MaxFreeVars    \* the size of the table

InitPrinter == [tab |-> <<>>, numq |-> 0, names |-> FALSE, fv |-> 1, bvs |-> <<>>, bv |-> 1,
                cl |-> <<>>]

Printer(m, pr) == [m |-> m, pr |-> pr, out |-> <<>>]

-----------------------------------------------------------------------------
(* The table.                                                              *)

FreeVarTabFull(pr, n) == Len(pr.tab) + n >= MaxFreeVars

EnterFreeVarTab(pr, name, loc) == [pr EXCEPT !.tab = Append(@, [name |-> name, loc |-> loc])]

SetQueryFreeVariables(pr) == [pr EXCEPT !.numq = Len(pr.tab)]

ResetFreeVarTab(pr) == [pr EXCEPT !.tab = SubSeq(@, 1, pr.numq)]

\* Fault: the names made stay in the table.
ResetPrintStateFault(pr) == [pr EXCEPT !.fv = 1, !.cl = <<>>, !.bvs = <<>>, !.bv = 1]

ResetPrintState(pr) == [ResetFreeVarTab(pr) EXCEPT !.fv = 1, !.cl = <<>>, !.bvs = <<>>, !.bv = 1]

AnonVar == <<"av">>

QueryHasVars(pr) == {i \in 1..pr.numq : pr.tab[i].name # AnonVar} # {}

-----------------------------------------------------------------------------
(* Names and punctuation.                                                  *)

Text(x) == <<"text", x>>
LParen == Ch(40)
RParen == Ch(41)
Backslash == Ch(92)
Id(c) == <<"id", c>>

Emit(w, cs) == IF w.m.fail THEN w ELSE [w EXCEPT !.out = @ \o cs]
EmitIf(b, w, c) == IF b THEN Emit(w, <<c>>) ELSE w

\* A name made up differs from those of the query's variables.
NameInFVTab(pr, name) == \E i \in 1..pr.numq : pr.tab[i].name = name

\* The first number from k on that gives a new name.
FreshNumber(pr, kind, x, k) ==
    CHOOSE n \in k..(k + pr.numq) :
       /\ ~NameInFVTab(pr, <<kind, x, n>>)
       /\ \A i \in k..(n - 1) : NameInFVTab(pr, <<kind, x, i>>)

-----------------------------------------------------------------------------
(* Operators: ctx is the operator a term is an operand of and the side it  *)
(* is on.                                                                  *)

Op(fix, prec) == [fix |-> fix, prec |-> prec]
AppOp == Op("infixl", 257)
LamOp == Op("prefixr", -1)
NoOp == Op("none", 0)
ConsOp == Consts["::"]

In(op, side) == [fix |-> op.fix, prec |-> op.prec, side |-> side]
Left(op) == In(op, "left")
Right(op) == In(op, "right")
Whole == In(NoOp, "whole")

Prefixes == {"prefix", "prefixr"}
Infixes == {"infix", "infixl", "infixr"}
Postfixes == {"postfix", "postfixl"}

\* Fault: an operator next to itself needs none.
ParenNeededFault(op, ctx) == ctx.side # "whole" /\ ctx.fix # "none" /\ op.prec < ctx.prec

ParenNeeded(op, ctx) ==
    \/ /\ ctx.side = "left"
       /\ \/ ctx.fix \in {"infix", "infixr", "postfix"} /\ op.prec <= ctx.prec
          \/ /\ ctx.fix \in {"infixl", "postfixl"}
             /\ \/ op.prec < ctx.prec
                \/ op.prec = ctx.prec /\ op.fix \in {"infixr", "prefixr", "none"}
    \/ /\ ctx.side = "right"
       /\ \/ ctx.fix \in {"infix", "infixl", "prefix"} /\ op.prec <= ctx.prec
          \/ /\ ctx.fix \in {"infixr", "prefixr"}
             /\ \/ op.prec < ctx.prec
                \/ op.prec = ctx.prec /\ op.fix \in {"infixl", "postfixl"}

\* A variable has no fixity, nor has a constant without a name.
HeadOp(m, head) ==
    IF Tag(m, head) = "const" /\ m.h[head].ind \in DOMAIN Consts
    THEN Op(Consts[m.h[head].ind].fix, Consts[m.h[head].ind].prec) ELSE NoOp

\* The operands an operator has when it is written as one.
Operands(op) == CASE op.fix \in Prefixes \cup Postfixes -> 1
                  [] op.fix \in Infixes -> 2
                  [] OTHER -> 0

-----------------------------------------------------------------------------
(* Atoms.                                                                  *)

\* A constant without a name is told apart by its index, and numbered in the
\* order of first printing.
Position(cl, ind) == CHOOSE i \in DOMAIN cl : cl[i] = ind
Listed(w, ind) ==
    IF \E i \in DOMAIN w.pr.cl : w.pr.cl[i] = ind THEN w
    ELSE [w EXCEPT !.pr.cl = Append(@, ind)]
WriteHCName(w, ind, uc) == Emit(w, << <<"lc", Position(w.pr.cl, ind) - 1, uc>> >>)

WriteConst(w, t) ==
    LET c == w.m.h[t]
    IN IF c.ind \in DOMAIN Consts THEN Emit(w, <<Id(c.ind)>>)
       ELSE WriteHCName(Listed(w, c.ind), c.ind, c.uc)

WriteNewVar(w, t, n) ==
    Emit([w EXCEPT !.pr = [EnterFreeVarTab(w.pr, <<"us", "T", n>>, t) EXCEPT !.fv = n + 1]],
         << <<"us", "T", n>> >>)

WriteNamed(w, t) ==
    LET at == {i \in DOMAIN w.pr.tab : w.pr.tab[i].loc = t}
    IN CASE at # {} ->
              Emit(w, <<w.pr.tab[CHOOSE i \in at : \A j \in at : i <= j].name>>)
         [] at = {} /\ Len(w.pr.tab) = MaxFreeVars ->
              [w EXCEPT !.m = Error(w.m, "TYFVAR_CAP")]
         [] OTHER -> WriteNewVar(w, t, FreshNumber(w.pr, "us", "T", w.pr.fv))

WriteFVar(w, t) ==
    IF w.pr.names THEN WriteNamed(w, t) ELSE Emit(w, << <<"us", "", t - HeapBeg>> >>)

\* The binder met last is at the front.
WriteBVar(w, t) ==
    LET i == w.m.h[t].ind
    IN Emit(w, <<IF i \in DOMAIN w.pr.bvs THEN w.pr.bvs[i] ELSE <<"bv", i - Len(w.pr.bvs)>> >>)

WriteAtom(w, t) ==
    LET c == w.m.h[t]
    IN CASE c.tag = "int" -> Emit(w, IntChars(c.val))
         [] c.tag = "float" -> Emit(w, RealChars(c.val))
         [] c.tag = "string" -> Emit(w, <<Quote>> \o StrChars(w.m, c.data) \o <<Quote>>)
         [] c.tag = "stream" -> Emit(w, << <<"stream", c.id>> >>)
         [] c.tag = "const" -> WriteConst(w, t)
         [] c.tag = "var" -> WriteFVar(w, t)
         [] c.tag = "bvar" -> WriteBVar(w, t)
         [] c.tag = "nil" -> Emit(w, <<Id("nil")>>)

-----------------------------------------------------------------------------
(* Terms.                                                                  *)

RECURSIVE WriteTerm(_, _, _), WriteTail(_, _), WriteArgs(_, _, _)

\* A list cell: the elements, then the tail that is none.
WriteTail(w, a) ==
    LET t == Deref(w.m, a)
        args == w.m.h[t].args
    IN IF Tag(w.m, t) = "cons"
       THEN WriteTail(Emit(WriteTerm(w, args, Left(ConsOp)), <<Space, Id("::"), Space>>),
                      Arg(args, 2))
       ELSE WriteTerm(w, t, Right(ConsOp))

WriteCons(w, t, ctx) ==
    LET paren == ParenNeeded(Op(ConsOp.fix, ConsOp.prec), ctx)
    IN EmitIf(paren, WriteTail(EmitIf(paren, w, LParen), t), RParen)

\* An abstraction: nested ones are written as one.
RECURSIVE NumAbs(_, _), AbsBody(_, _), WriteBinders(_, _)
NumAbs(m, t) == IF IsLam(m, t) THEN m.h[t].n + NumAbs(m, Deref(m, m.h[t].body)) ELSE 0
AbsBody(m, t) == IF IsLam(m, t) THEN AbsBody(m, Deref(m, m.h[t].body)) ELSE t

WriteBinder(w, k) ==
    Emit([w EXCEPT !.pr.bvs = << <<"up", "W", k>> >> \o @, !.pr.bv = k + 1],
         << <<"up", "W", k>>, Backslash, Space>>)
WriteBinders(w, n) ==
    IF n = 0 THEN w
    ELSE WriteBinders(WriteBinder(w, FreshNumber(w.pr, "up", "W", w.pr.bv)), n - 1)

LeaveAbst(w, pr) == IF w.m.fail THEN w ELSE [w EXCEPT !.pr.bvs = pr.bvs, !.pr.bv = pr.bv]

WriteAbst(w, t, ctx) ==
    LET paren == ParenNeeded(LamOp, ctx)
    IN LeaveAbst(EmitIf(paren, WriteTerm(WriteBinders(EmitIf(paren, w, LParen), NumAbs(w.m, t)),
                                         AbsBody(w.m, t), Right(LamOp)), RParen), w.pr)

\* An operator with its operands.
WriteOperation(w, head, op, args) ==
    CASE op.fix \in Prefixes ->
           WriteTerm(Emit(WriteConst(w, head), <<Space>>), args, Right(op))
      [] op.fix \in Infixes ->
           WriteTerm(Emit(WriteConst(Emit(WriteTerm(w, args, Left(op)), <<Space>>), head), <<Space>>),
                     Arg(args, 2), Right(op))
      [] OTHER -> WriteConst(Emit(WriteTerm(w, args, Left(op)), <<Space>>), head)

WriteOp(w, head, op, args, ctx) ==
    LET paren == ParenNeeded(op, ctx)
    IN EmitIf(paren, WriteOperation(EmitIf(paren, w, LParen), head, op, args), RParen)

WriteArgs(w, args, n) ==
    IF n = 0 THEN w
    ELSE WriteArgs(WriteTerm(Emit(w, <<Space>>), args, Right(AppOp)), Arg(args, 2), n - 1)

\* The operator's own operands come first, then the other arguments.
WriteHead(w, head, op, args) ==
    IF op.fix = "none" THEN WriteTerm(w, head, Left(AppOp)) ELSE WriteOp(w, head, op, args, Left(AppOp))

WriteWith(w, head, op, app, ctx) ==
    LET n == Operands(op)
        paren == ParenNeeded(AppOp, ctx)
    IN IF n > 0 /\ app.n = n THEN WriteOp(w, head, op, app.args, ctx)
       ELSE EmitIf(paren, WriteArgs(WriteHead(EmitIf(paren, w, LParen), head, op, app.args),
                                    Arg(app.args, n + 1), app.n - n), RParen)

WriteNormalApp(w, head, app, ctx) == WriteWith(w, head, HeadOp(w.m, w.m.head), app, ctx)

WriteApp(w, t, ctx) ==
    WriteNormalApp([w EXCEPT !.m = Hnorm(w.m, t)], Deref(w.m, w.m.h[t].f), w.m.h[t], ctx)

WriteObject(w, t, ctx) ==
    CASE w.m.fail -> w
      [] ~w.m.fail /\ Tag(w.m, t) = "cons" -> WriteCons(w, t, ctx)
      [] ~w.m.fail /\ Tag(w.m, t) = "lam" -> WriteAbst(w, t, ctx)
      [] ~w.m.fail /\ Tag(w.m, t) = "app" -> WriteApp(w, t, ctx)
      [] OTHER -> WriteAtom(w, t)

WriteTerm(w, t, ctx) == WriteObject(w, Deref(w.m, t), ctx)

PrintTerm(w, t) == WriteTerm([w EXCEPT !.m = Lnorm(w.m, t)], t, Whole)

-----------------------------------------------------------------------------
(* Answers.                                                                *)

PrintSubsPair(w, var) ==
    IF var.name = AnonVar THEN w
    ELSE PrintTerm(Emit(w, <<var.name, Space, Id("="), Space>>), var.loc)

RECURSIVE ShowSubs(_, _), ShowPairs(_, _)
ShowSubs(w, i) ==
    IF i > w.pr.numq \/ w.m.fail THEN w
    ELSE ShowSubs(Emit(PrintSubsPair(w, w.pr.tab[i]), <<Newline>>), i + 1)

ShowAnswerSubs(w) == ShowSubs([w EXCEPT !.pr.names = TRUE], 1)

PrintDPair(w, d) ==
    Emit(PrintTerm(Emit(PrintTerm(Emit(w, <<Text("<")>>), d.first), <<Text(","), Space>>), d.second),
         <<Text(">")>>)

ShowPairs(w, d) ==
    IF d = NULL \/ w.m.fail THEN w
    ELSE ShowPairs(Emit(PrintDPair(w, w.m.h[d]), <<Newline>>), w.m.h[d].next)

ShowDisAgreeList(w) == ShowPairs(w, w.m.ll)
=============================================================================
