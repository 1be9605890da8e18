------------------------------ MODULE Builtins -------------------------------
(***************************************************************************)
(* The builtin predicates (simulator/builtins/io.c, meta.c, evalexp.c,     *)
(* compexp.c).  A handler finds its arguments in the registers X(1), X(2), *)
(* ... with the type of its last one behind them, and gives the record of  *)
(* the machine m, the streams io and the printer pr it leaves and of where *)
(* it goes: next is "proceed", "eq" (the arguments X(1) and X(2) are       *)
(* unified) or "no" (the query is over).  log has what it delivered from,  *)
(* wrote to or did with streams.                                           *)
(*                                                                         *)
(* Printing the term an error is about is not modelled, nor are the        *)
(* system call and the environment beyond Environment.                     *)
(***************************************************************************)
EXTENDS Evaluation, Streams, Reading, PatternUnify
LOCAL INSTANCE Functions

CONSTANT Environment     \* the values of the environment's variables

X(n) == 2 * n

MaxLineLength == 1024

To(m, io, pr, next, log) == [m |-> m, io |-> io, pr |-> pr, next |-> next, log |-> log]
Proceed(m, io, pr) == To(m, io, pr, "proceed", <<>>)
Throw(m, e, io, pr) == Proceed(Error(m, e), io, pr)

\* What passed: s the stream, op the operation, cs the characters.
Passed(op, s, cs) == << [op |-> op, s |-> s, cs |-> cs] >>
With(r, log) == [r EXCEPT !.log = log]

-----------------------------------------------------------------------------
(* Arguments.                                                              *)

\* The address of the string, NULL if the term is no string.
StringAt(n, t) == Ret(n, IF Tag(n, t) = "string" THEN n.h[t].data ELSE NULL)
StringTerm(n, i) == StringAt(n, Deref(n, X(i)))
StringArg(m, i) == StringTerm(Hnorm(m, X(i)), i)

StandardStreams == [std_in |-> Stdin, std_out |-> Stdout, std_err |-> Stderr]

StreamAt(n, t) ==
    LET c == n.h[t]
    IN CASE c.tag = "stream" /\ c.id # ILLEGAL -> Ret(n, c.id)
         [] c.tag = "stream" /\ c.id = ILLEGAL -> Error(n, "ILLEGAL_STREAM")
         [] c.tag = "const" /\ c.ind \in DOMAIN StandardStreams -> Ret(n, StandardStreams[c.ind])
         [] OTHER -> Error(n, "NON_STREAM_TERM")
StreamTerm(n, i) == StreamAt(n, Deref(n, X(i)))
StreamArg(m, i) == StreamTerm(Hnorm(m, X(i)), i)

IntAt(n, t) == IF Tag(n, t) = "int" THEN Ret(n, n.h[t].val) ELSE Error(n, "INTEGER_EXPECTED")
IntTerm(n, i) == IntAt(n, Deref(n, X(i)))
IntArg(m, i) == IntTerm(Hnorm(m, X(i)), i)

\* The variable that X(i) is, trailed.
VarAt(n, t) == IF IsFV(n, t) THEN Ret(TrailTerm(n, t), t) ELSE Error(n, "NON_VAR_TERM")
VarTerm(n, i) == VarAt(n, Deref(n, X(i)))
VarArg(m, i) == VarTerm(Hnorm(m, X(i)), i)

\* The stream is put on the heap, so that all that is bound to it shares it.
StreamBound(n, s) == Write(Push(n, StreamTm(s)), n.rt, Ref(n.hreg))
BindVarToStream(n, s) == IF n.fail THEN n ELSE StreamBound(n, s)
BindVarToInt(n, k) == IF n.fail THEN n ELSE Write(n, n.rt, IntTm(k))
BindVarToString(n, s) == IF n.fail THEN n ELSE Write(n, n.rt, StrTm(s))

\* A string that has been read is what X(1) is.
StringFirst(n) == Write(n, X(1), StrTm(n.rt))

-----------------------------------------------------------------------------
(* Opening and closing.                                                    *)

StreamOpened(m, io, pr) ==
    With(Proceed(BindVarToStream(VarArg(m, 2), io.rc), io, pr), Passed("open", io.rc, <<>>))

Opened(m, io, pr, e) ==
    IF io.rc = ILLEGAL THEN Throw(m, e, io, pr) ELSE StreamOpened(m, io, pr)

OpenNamed(n, io, pr, mode) ==
    IF n.rt = NULL THEN Throw(n, "UNBOUND_VARIABLE", io, pr)
    ELSE Opened(n, Open(io, StrChars(n, n.rt), mode), pr, "CANNOT_OPEN_STREAM")
DoOpen(m, io, pr, mode) == OpenNamed(StringArg(m, 1), io, pr, mode)

OpenOn(n, io, pr) ==
    IF n.rt = NULL THEN Throw(n, "UNBOUND_VARIABLE", io, pr)
    ELSE Opened(n, FromString(n, io, n.rt), pr, "OPENING_STRING")
OpenStr(m, io, pr) == OpenOn(StringArg(m, 1), io, pr)

\* Fault: the change is undone by backtracking.
SetStreamIndFault(n, t) == Write(TrailTerm(n, t), t, StreamTm(ILLEGAL))

SetStreamInd(n, t) == Write(n, t, StreamTm(ILLEGAL))

CloseAt(n, t, io, pr) ==
    LET s == n.h[t].id
    IN CASE IsFV(n, t) -> Throw(n, "UNBOUND_VARIABLE", io, pr)
         [] ~IsFV(n, t) /\ s = ILLEGAL -> Throw(n, "STREAM_ALREADY_CLOSED", io, pr)
         [] OTHER -> With(Proceed(SetStreamInd(n, t), Close(io, s), pr), Passed("close", s, <<>>))
CloseTerm(n, io, pr) == CloseAt(n, Deref(n, X(1)), io, pr)
DoClose(m, io, pr) == CloseTerm(Hnorm(m, X(1)), io, pr)

-----------------------------------------------------------------------------
(* Reading characters.                                                     *)

\* The string of len characters at top, where the heap ended when the builtin
\* was entered: what normalising its arguments has pushed is written over.
StringOver(n, top, cs, len) ==
    LET over == top .. top + StrHeadSize + NumWords(len) - 1
    IN StringFirst(MakeString([n EXCEPT !.h = Restrict(@, DOMAIN @ \ over)], top, len, cs, len))

\* The characters read from s are a string on the heap, to be unified.
Delivered(m, top, io, pr, op, s) ==
    IF io.rc = -1 THEN Throw(m, "READING_STREAM", io, pr)
    ELSE To(StringOver(m, top, io.cs, Len(io.cs)), io, pr, "eq", Passed(op, s, io.cs))

CopySecond(m) == Write(m, X(2), m.h[X(3)])

InputFrom(n, top, io, pr, num) ==
    IF n.fail THEN Proceed(n, io, pr)
    ELSE Delivered(CopySecond(n), top, ReadCharacters(n, io, n.rt, num, FALSE), pr, "input", n.rt)

\* One more than the number asked for, for the NUL.
InputNum(n, top, io, pr, num) ==
    CASE n.fail -> Proceed(n, io, pr)
      [] ~n.fail /\ num <= 0 -> Throw(n, "NEGATIVE_VALUE", io, pr)
      [] OTHER -> InputFrom(StreamArg(n, 1), top, io, pr, num)
InputInt(n, top, io, pr) == InputNum(n, top, io, pr, n.rt + 1)
Input(m, io, pr) == InputInt(IntArg(m, 2), m.hreg, io, pr)

LineFrom(n, top, io, pr) ==
    IF n.fail THEN Proceed(n, io, pr)
    ELSE Delivered(n, top, ReadCharacters(n, io, n.rt, MaxLineLength, TRUE), pr, "line", n.rt)
InputLine(m, io, pr) == LineFrom(StreamArg(m, 1), m.hreg, io, pr)

\* The string of the character ahead is given the length of the buffer.
Ahead1(m, top, io, pr) ==
    IF io.rc = -1 THEN Throw(m, "READING_STREAM", io, pr)
    ELSE To(StringOver(m, top, io.cs, 2), io, pr, "eq", <<>>)
LookaheadOf(n, top, io, pr) ==
    IF n.fail THEN Proceed(n, io, pr) ELSE Ahead1(n, top, Lookahead(n, io, n.rt), pr)
LookAhead(m, io, pr) == LookaheadOf(StreamArg(m, 1), m.hreg, io, pr)

AtEnd(n, io, pr) == IF io.rc = 1 THEN Proceed(n, io, pr) ELSE Proceed(Fail(n), io, pr)
EofOf(n, io, pr) == IF n.fail THEN Proceed(n, io, pr) ELSE AtEnd(n, Eof(n, io, n.rt), pr)
DoEof(m, io, pr) == EofOf(StreamArg(m, 1), io, pr)

-----------------------------------------------------------------------------
(* Writing.                                                                *)

Written(m, io, pr, s, cs) ==
    IF io.rc = -1 THEN Throw(m, "WRITING_STREAM", io, pr)
    ELSE With(Proceed(m, io, pr), Passed("write", s, cs))

OutputString(n, io, pr, s) ==
    IF n.rt = NULL THEN Throw(n, "UNBOUND_VARIABLE", io, pr)
    ELSE Written(n, Printf(io, s, StrChars(n, n.rt)), pr, s, StrChars(n, n.rt))

OutputTo(n, io, pr) ==
    IF n.fail THEN Proceed(n, io, pr) ELSE OutputString(StringArg(n, 2), io, pr, n.rt)
Output(m, io, pr) == OutputTo(StreamArg(m, 1), io, pr)

\* What becomes of the printing is not looked at.
DoPrint(m, io, pr) == OutputString(StringArg(m, 1), io, pr, Stdout)

FlushOf(n, io, pr) ==
    IF n.fail THEN Proceed(n, io, pr)
    ELSE With(Proceed(n, Flush(io, n.rt), pr), Passed("flush", n.rt, <<>>))
DoFlush(m, io, pr) == FlushOf(StreamArg(m, 1), io, pr)

-----------------------------------------------------------------------------
(* Terms written.                                                          *)

\* The printing of X(i), by addresses.
Printed(m, pr, i) == PrintTerm(Printer(m, [pr EXCEPT !.names = FALSE]), X(i))

\* The characters leave as they come: a stream that is not written to loses them.
PrintedTo(w, io, s) ==
    With(Proceed(w.m, Printf(io, s, w.out), ResetPrintState(w.pr)),
         IF CanPrint(io, s) THEN Passed("write", s, w.out) ELSE <<>>)
PrintTo(n, io, pr) ==
    IF n.fail THEN Proceed(n, io, pr) ELSE PrintedTo(Printed(n, pr, 2), io, n.rt)
DoPrintTerm(m, io, pr) == PrintTo(StreamArg(m, 1), io, pr)

\* The string is made before the variable is looked at.
StringVar(n, i) == BindVarToString(VarArg(n, i), n.rt)
ClosedUnlessFailed(n, io, pr, s) == Proceed(n, IF n.fail THEN io ELSE Close(io, s), pr)
TermString(m, io, pr, s) ==
    ClosedUnlessFailed(StringVar(NewString(m, GetString(io, s)), 2), io, pr, s)
TermText(w, io, s) ==
    IF w.m.fail THEN Proceed(w.m, io, w.pr)
    ELSE TermString(w.m, Printf(io, s, w.out), ResetPrintState(w.pr), s)
TermToStream(w, io) == TermText(w, io, io.rc)
TermToStr(m, io, pr) == TermToStream(Printed(m, pr, 1), NewOutString(io))

-----------------------------------------------------------------------------
(* Terms read.                                                             *)

TypePairUnified(m, ty1, ty2) ==
    TypesUnify(PushPDL(PushPDL([m EXCEPT !.tybot = Len(m.pdl)], ty1), ty2))

\* The term, at t, is what X(x) is.
Typed(n, io, pr, x, t) ==
    IF n.fail THEN Proceed(n, io, pr) ELSE To(Write(n, X(x), Ref(t)), io, pr, "eq", <<>>)

\* A table that is full ends the query: the exception passes by the handler
\* and its choice points.
TermRead(r, io, x, ty, t) ==
    IF r.full THEN To(r.m, io, r.pr, "no", <<>>)
    ELSE Typed(TypePairUnified(r.m, t - 2, ty), io, ResetFreeVarTab(r.pr), x, t)

ReadParsed(m, io, pr, p, x, ty) ==
    IF ~p.ok THEN Proceed(Fail(SetTypeAndTermLocation(m)), io, pr)
    ELSE TermRead(ReadTree(m, pr, p.term, TypeOf(p.term, 1)), io, x, ty, TermLoc(m))
ReadText(m, io, pr, cs, x, ty) == ReadParsed(m, io, pr, ParseText(cs), x, ty)

StrTo(n, io, pr) ==
    IF n.rt = NULL THEN Throw(n, "UNBOUND_VARIABLE", io, pr)
    ELSE ReadText(n, io, pr, StrChars(n, n.rt), 1, X(3))
StrToTerm(m, io, pr) == StrTo(StringArg(m, 1), io, pr)

ReadLine(n, io, pr, s, x, ty) ==
    IF io.rc = -1 THEN Throw(n, "READING_STREAM", io, pr)
    ELSE With(ReadText(n, io, pr, io.cs, x, ty), Passed("line", s, io.cs))
ReadTermFrom(n, io, pr) ==
    IF n.fail THEN Proceed(n, io, pr)
    ELSE ReadLine(n, ReadCharacters(n, io, n.rt, MaxLineLength, TRUE), pr, n.rt, 1, X(3))
ReadTerm(m, io, pr) == ReadTermFrom(StreamArg(m, 1), io, pr)

\* The term goes to X(2), which the type has left.
DoRead(m, io, pr) ==
    ReadLine(m, ReadCharacters(m, io, Stdin, MaxLineLength, TRUE), pr, Stdin, 2, X(2))

-----------------------------------------------------------------------------
(* The rest.                                                               *)

EnvString(n, top, io, pr, cs) ==
    To(StringOver(n, top, cs, Len(cs)), io, pr, "eq", <<>>)
EnvOf(n, top, io, pr) ==
    IF n.rt = NULL THEN Throw(n, "UNBOUND_VARIABLE", io, pr)
    ELSE IF StrChars(n, n.rt) \notin DOMAIN Environment THEN Throw(n, "UNSET_ENV_VAR", io, pr)
    ELSE EnvString(n, top, io, pr, Environment[StrChars(n, n.rt)])
GetEnv(m, io, pr) == EnvOf(StringArg(m, 1), m.hreg, io, pr)

\* rc is what the command returned.
SystemOf(n, io, pr, rc) ==
    IF n.rt = NULL THEN Throw(n, "UNBOUND_VARIABLE", io, pr)
    ELSE Proceed(BindVarToInt(VarArg(n, 2), rc), io, pr)
System(m, io, pr, rc) == SystemOf(StringArg(m, 1), io, pr, rc)

NotImplemented(m, io, pr) == Throw(m, "NOT_IMPLEMENTED", io, pr)

\* is: the type of its operands is in X(3).
EvalTypes == {"int", "real", "string"}
ValueTm(type, v) == CASE type = "int" -> IntTm(v)
                      [] type = "real" -> FloatTm(v)
                      [] type = "string" -> StrTm(v)
Evaluated(e, io, pr, type) ==
    IF e.fail THEN Proceed(e, io, pr)
    ELSE To(Write(e, X(2), ValueTm(type, e.rt)), io, pr, "eq", <<>>)
EvalOfType(m, io, pr, c, rl) ==
    IF c.tag # "sort" \/ c.k \notin EvalTypes THEN Throw(m, "EVAL_TYPE", io, pr)
    ELSE Evaluated(Eval(m, c.k, X(2), rl), io, pr, c.k)
DoEval(m, io, pr, rl) == EvalOfType(m, io, pr, m.h[TypeDeref(m, X(3))], rl)

DoComp(m, io, pr, comparison, rl) == Proceed(Comp(m, comparison, X(1), rl), io, pr)
=============================================================================
