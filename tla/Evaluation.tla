----------------------------- MODULE Evaluation -----------------------------
(***************************************************************************)
(* The evaluation of expressions (builtins/evalexp.c) and the comparisons  *)
(* built on it (builtins/compexp.c).                                       *)
(*                                                                         *)
(* An expression is evaluated as one of type "int", "real" or "string".    *)
(* The value is left in rt: a number, or the address of the string.  The   *)
(* order in which C evaluates the operands of + or of a call is not        *)
(* specified: rl says that the right one comes first.  Reals are numbers   *)
(* of quarters; sin, cos and arctan and the logarithms other than log 1    *)
(* are not modelled.                                                       *)
(***************************************************************************)
EXTENDS Strings

\* The operators that make an expression of a type, and the types of their
\* operands.
OpArgs == [
    int |-> [x \in {"~", "iabs"} |-> <<"int">>]
            @@ [x \in {"+", "-", "*", "div", "mod"} |-> <<"int", "int">>]
            @@ [x \in {"floor", "ceil", "truncate"} |-> <<"real">>]
            @@ [x \in {"string_to_int", "size"} |-> <<"string">>],
    real |-> [x \in {"r~", "sqrt", "ln", "rabs"} |-> <<"real">>]
             @@ [x \in {"r+", "r-", "r*", "/"} |-> <<"real", "real">>]
             @@ [x \in {"int_to_real"} |-> <<"int">>],
    string |-> [x \in {"^"} |-> <<"string", "string">>]
               @@ [x \in {"substring"} |-> <<"string", "int", "int">>]
               @@ [x \in {"chr", "int_to_string"} |-> <<"int">>]
               @@ [x \in {"real_to_string"} |-> <<"real">>]]

ValueTag == [int |-> "int", real |-> "float", string |-> "string"]

\* The operands are evaluated one after the other, into variables of their own.
LeftFirst == {"div", "/", "substring"}

Abs(x) == IF x < 0 THEN -x ELSE x

\* Division towards zero, and the remainder that goes with it.
Quotient(x, y) == IF (x < 0) = (y < 0) THEN Abs(x) \div Abs(y) ELSE -(Abs(x) \div Abs(y))
Remainder(x, y) == x - y * Quotient(x, y)

Root(x) == CHOOSE r \in 0..(4 * x) : r * r = 4 * x

EvalIntOp(m, op, v) ==
    CASE op = "~" -> Ret(m, Wrap(-v[1]))
      [] op = "+" -> Ret(m, Wrap(v[1] + v[2]))
      [] op = "-" -> Ret(m, Wrap(v[1] - v[2]))
      [] op = "*" -> Ret(m, Wrap(v[1] * v[2]))
      [] op = "div" -> IF v[2] = 0 THEN Error(m, "DIV_BY_ZERO")
                       ELSE Ret(m, Wrap(Quotient(v[1], v[2])))
      [] op = "mod" -> Ret(m, Remainder(v[1], v[2]))
      [] op = "iabs" -> Ret(m, Wrap(Abs(v[1])))
      [] op = "floor" -> Ret(m, Wrap(v[1] \div 4))
      [] op = "ceil" -> Ret(m, Wrap(-((-v[1]) \div 4)))
      [] op = "truncate" ->
           Ret(m, Wrap(IF v[1] > 0 THEN v[1] \div 4 ELSE -((-v[1]) \div 4)))
      [] op = "string_to_int" -> Ret(m, Ord(m, v[1]))
      [] op = "size" -> Ret(m, StrLength(m, v[1]))

EvalFloatOp(m, op, v) ==
    CASE op = "r~" -> Ret(m, -v[1])
      [] op = "r+" -> Ret(m, v[1] + v[2])
      [] op = "r-" -> Ret(m, v[1] - v[2])
      [] op = "r*" -> Ret(m, (v[1] * v[2]) \div 4)
      [] op = "/" -> IF v[2] = 0 THEN Error(m, "DIV_BY_ZERO")
                     ELSE Ret(m, Quotient(4 * v[1], v[2]))
      [] op = "sqrt" -> IF v[1] < 0 THEN Error(m, "NEG_SQRT") ELSE Ret(m, Root(v[1]))
      [] op = "ln" -> IF v[1] <= 0 THEN Error(m, "NEG_SQRT") ELSE Ret(m, 0)
      [] op = "rabs" -> Ret(m, Abs(v[1]))
      [] op = "int_to_real" -> Ret(m, 4 * v[1])

EvalStrOp(m, op, v) ==
    CASE op = "^" -> StrConcat(m, v[1], v[2])
      [] op = "substring" -> SubString(m, v[1], v[2], v[2] + v[3])
      [] op = "chr" -> Chr(m, v[1])
      [] op = "int_to_string" -> NewString(m, IntChars(v[1]))
      [] op = "real_to_string" -> NewString(m, RealChars(v[1]))

EvalOp(m, type, op, v) ==
    CASE m.fail -> m
      [] ~m.fail /\ type = "int" -> EvalIntOp(m, op, v)
      [] ~m.fail /\ type = "real" -> EvalFloatOp(m, op, v)
      [] OTHER -> EvalStrOp(m, op, v)

EvalAtom(m, type) ==
    LET c == m.h[m.head]
    IN CASE c.tag = ValueTag[type] -> Ret(m, IF type = "string" THEN c.data ELSE c.val)
         [] c.tag # ValueTag[type] /\ c.tag = "var" -> Error(m, "FLEX_HEAD")
         [] OTHER -> Error(m, "ILLEGAL_ARG")

RECURSIVE Eval(_, _, _, _), EvalArgs(_, _, _, _, _, _), EvalArgsFault(_, _, _, _, _, _)

\* Fault: the operands are numbered in the order of their evaluation.
EvalArgsFault(m, types, argvec, order, v, rl) ==
    IF m.fail \/ order = <<>> THEN [m |-> m, v |-> v]
    ELSE LET e == Eval(m, types[Head(order)], Arg(argvec, Head(order)), rl)
         IN EvalArgsFault(e, types, argvec, Tail(order), Append(v, e.rt), rl)

\* The operands numbered from i at argvec, in the order that order gives;
\* v holds those evaluated.
EvalArgs(m, types, argvec, order, v, rl) ==
    IF m.fail \/ order = <<>> THEN [m |-> m, v |-> v]
    ELSE LET e == Eval(m, types[Head(order)], Arg(argvec, Head(order)), rl)
         IN EvalArgs(e, types, argvec, Tail(order), (Head(order) :> e.rt) @@ v, rl)

EvalApp(m, type, rl) ==
    LET op == m.h[m.head].ind
        types == OpArgs[type][op]
        order == IF rl /\ Len(types) = 2 /\ op \notin LeftFirst THEN <<2, 1>>
                 ELSE [i \in DOMAIN types |-> i]
        a == EvalArgs(m, types, m.argvec, order, <<>>, rl)
    IN EvalOp(a.m, type, op, a.v)

EvalNormal(m, type, t, rl) ==
    CASE Tag(m, t) \in AtomicTags -> EvalAtom(m, type)
      [] Tag(m, t) = "app" ->
           IF ~m.rig THEN Error(m, "FLEX_HEAD")
           ELSE IF m.h[m.head].ind \notin DOMAIN OpArgs[type] THEN Error(m, "CONST_IND")
           ELSE EvalApp(m, type, rl)
      [] OTHER -> Error(m, "ILLEGAL_ARG")

EvalTerm(m, type, t, rl) == EvalNormal(m, type, Deref(m, t), rl)
Eval(m, type, t, rl) == EvalTerm(Hnorm(m, t), type, t, rl)

-----------------------------------------------------------------------------
(* Comparisons: the type of what is compared and the relation.  String     *)
(* less-than tests for greater-or-equal, as the code does.                 *)

Comparisons == [
    i_lt |-> <<"int", "lt">>, i_gt |-> <<"int", "gt">>, i_le |-> <<"int", "le">>,
    i_ge |-> <<"int", "ge">>, r_lt |-> <<"real", "lt">>, r_gt |-> <<"real", "gt">>,
    r_le |-> <<"real", "le">>, r_ge |-> <<"real", "ge">>, s_lt |-> <<"string", "ge">>,
    s_gt |-> <<"string", "gt">>, s_le |-> <<"string", "le">>, s_ge |-> <<"string", "ge">>]

Holds(rel, d) == CASE rel = "lt" -> d < 0
                   [] rel = "gt" -> d > 0
                   [] rel = "le" -> d <= 0
                   [] rel = "ge" -> d >= 0

CompareValues(a, type, rel) ==
    CASE a.m.fail -> a.m
      [] ~a.m.fail /\ Holds(rel, IF type = "string" THEN CompareStrs(a.m, a.v[1], a.v[2])
                                 ELSE a.v[1] - a.v[2]) -> a.m
      [] OTHER -> Fail(a.m)

\* The operands are in the registers x and x + 2.
Comp(m, comparison, x, rl) ==
    LET type == Comparisons[comparison][1]
    IN CompareValues(EvalArgs(m, <<type, type>>, x, IF rl THEN <<2, 1>> ELSE <<1, 2>>,
                              <<>>, rl), type, Comparisons[comparison][2])
=============================================================================
