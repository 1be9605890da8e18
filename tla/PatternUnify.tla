---------------------------- MODULE PatternUnify ----------------------------
(***************************************************************************)
(* Interpretive higher-order pattern unification (simulator/hopu.c).       *)
(* A flexible term is an LLambda pattern when its arguments are distinct   *)
(* bound variables and constants of a larger universe than its head; a     *)
(* pair with another flexible term is delayed on the live list.            *)
(*                                                                         *)
(* A head normal form is taken apart as the registers leave it:            *)
(* [head, args, n, abs, rig] is lam(abs, head args[1] .. args[n]).         *)
(***************************************************************************)
EXTENDS HeadNorm, TypeUnify

CONSTANT CstTyEnvSize   \* the number of types of every constant

RECURSIVE LamBody(_, _)
LamBody(m, t) ==
    LET d == Deref(m, t) IN IF IsLam(m, d) THEN LamBody(m, m.h[d].body) ELSE d

\* What a head normalisation left in the registers.
Regs(m) == [head |-> m.head, args |-> m.argvec, n |-> m.numargs, abs |-> m.numabs,
            rig |-> m.rig]

-----------------------------------------------------------------------------
(* Terms that registers and the stack hold are copied to the heap before   *)
(* the heap refers to them.                                                *)

GlobalizeRigid(m, t) == IF NHeapAddr(m, t) THEN Push(m, m.h[t]) ELSE Ret(m, t)

GlobalizeCopyRigid(m, t, v) ==
    IF NHeapAddr(m, t) THEN Write(m, v, m.h[t]) ELSE Write(m, v, Ref(t))

GlobalizeFlex(m, t) ==
    IF StackAddr(m, t)
    THEN LET p == Push(m, m.h[t]) IN Write(TrailETerm(p, t), t, Ref(p.rt))
    ELSE Ret(m, t)

\* (h a1 .. an) -> (h [|a1,0,nabs,nil|] .. [|an,0,nabs,nil|] #nabs .. #1),
\* with the new head and argument vector in eh and ea.
ShiftedArgs(m, args, nargs, nabs) ==
    [i \in 1..nargs |-> Susp(0, nabs, Deref(m, Arg(args, i)), NULL)]

WriteSusps(m, at, susps) ==
    [m EXCEPT !.h = [a \in {at + 4 * (i - 1) : i \in DOMAIN susps} |->
                        susps[(a - at) \div 4 + 1]] @@ @]

\* The application at app.rt, whose function is at head and whose arguments
\* are written at the heap top.
EtaArgs(app, head, cells) ==
    LET made == PushVec(app, cells)
    IN [made EXCEPT !.rt = app.rt, !.eh = head, !.ea = made.rt]

EtaApp(m, args, nargs, nabs) ==
    LET top == m.hreg + 4 * nargs
    IN EtaArgs(Push([WriteSusps(m, m.hreg, ShiftedArgs(m, args, nargs, nabs)) EXCEPT !.hreg = top],
                    App(nargs + nabs, m.rt, top + 3)), m.rt,
               [i \in 1..nargs |-> Ref(m.hreg + 4 * (i - 1))]
                 \o [i \in 1..nabs |-> BV(nabs - i + 1)])

EtaExpand(m, h, args, nargs, nabs) ==
    EtaApp(IF IsBV(m, h) THEN Push(m, BV(m.h[h].ind + nabs)) ELSE GlobalizeRigid(m, h),
           args, nargs, nabs)

-----------------------------------------------------------------------------
(* Recognising patterns.  Only the first n arguments are looked at.        *)

\* Fault: only the argument before is compared.
UniqueBVFault(m, i, args, n) ==
    n > 1 => LET t == Deref(m, Arg(args, n)) IN ~(IsBV(m, t) /\ m.h[t].ind = i)

UniqueBV(m, i, args, n) ==
    \A j \in 1..n : LET t == Deref(m, Arg(args, j)) IN ~(IsBV(m, t) /\ m.h[t].ind = i)

SameConst(m, t, c) == IsConst(m, t) /\ SameConsts(m, t, c)
TypesAgree(m, t, c) == ConstTypesUnify(m, m.h[t].ty, m.h[c].ty, CstTyEnvSize[m.h[c].ind])

\* A constant with types that occurs with types that do not unify is the case
\* that is refused.
TypesUnified(u) == IF u.fail THEN Ret(ResetTypesPDL(u), FALSE) ELSE Ret(u, TRUE)

UnlikeConst(m, t, c) ==
    IF SameConst(m, t, c) /\ IsTConst(m, t) THEN TypesUnified(TypesAgree(m, t, c))
    ELSE Ret(m, ~SameConst(m, t, c))

\* rt: none of the arguments before was refused.
RECURSIVE UniqueConst(_, _, _, _)
UniqueConst(m, c, args, n) ==
    IF n = 0 \/ ~m.rt THEN m
    ELSE UniqueConst(UnlikeConst(m, Deref(m, args), c), c, args + 2, n - 1)

\* The arguments in the registers are those of an eta-expanded form.
RECURSIVE EtaExpArgs(_, _, _), IsEtaExpArgs(_)
EtaExpArg(a, i) ==
    CASE ~IsBV(a, a.head) -> Ret(a, FALSE)
      [] IsBV(a, a.head) /\ a.numargs = 0 -> Ret(a, a.h[a.head].ind = i)
      [] OTHER -> IF a.h[a.head].ind - a.numabs = i THEN IsEtaExpArgs(a) ELSE Ret(a, FALSE)

EtaExpArgs(m, arg, i) ==
    IF i = 0 \/ ~m.rt THEN m ELSE EtaExpArgs(EtaExpArg(Hnorm(m, arg), i), arg + 2, i - 1)

IsEtaExpArgs(m) ==
    IF m.numargs # m.numabs THEN Ret(m, FALSE)
    ELSE [EtaExpArgs(Ret(m, TRUE), m.argvec, m.numabs) EXCEPT !.head = m.head]

\* The head of the ith argument is bound outside it or a constant of a larger
\* universe than uc, and none of the arguments before.
DistinctHead(a, uc, args, i) ==
    LET ind == a.h[a.head].ind - a.numabs
    IN CASE IsBV(a, a.head) -> Ret(a, ind > 0 /\ UniqueBV(a, ind, args, i - 1))
         [] IsConst(a, a.head) /\ uc < a.h[a.head].uc -> UniqueConst(Ret(a, TRUE), a.head, args, i - 1)
         [] OTHER -> Ret(a, FALSE)

\* An argument at at that is an eta-expanded form, as a left it, is reduced
\* where it stands.
EtaReduced(e, a, at) ==
    IF ~e.rt THEN e
    ELSE Write(TrailHTerm(e, at), at,
               CASE IsBV(a, a.head) -> BV(a.h[a.head].ind - a.numabs)
                 [] IsConst(a, a.head) /\ IsTConst(a, a.head) -> Ref(a.head)
                 [] OTHER -> a.h[a.head])

EtaArg(u, a, at) ==
    IF ~u.rt \/ (a.numargs = 0 /\ a.numabs = 0) THEN u ELSE EtaReduced(IsEtaExpArgs(u), a, at)

LLambdaArg(a, uc, args, i) ==
    IF a.numargs = 0 /\ a.numabs # 0 THEN Ret(a, FALSE)
    ELSE EtaArg(DistinctHead(a, uc, args, i), a, Arg(args, i))

\* Arguments from the ith on.
RECURSIVE LLambdaFrom(_, _, _, _, _)
LLambdaFrom(m, uc, nargs, args, i) ==
    IF i > nargs \/ ~m.rt THEN m
    ELSE LLambdaFrom(LLambdaArg(Hnorm(m, Arg(args, i)), uc, args, i), uc, nargs, args, i + 1)

IsLLambda(m, uc, nargs, args) == LLambdaFrom(Ret(m, TRUE), uc, nargs, args, 1)

\* The position from the right of a bound variable or a constant among the
\* arguments of a pattern, seen from under lev abstractions; 0 if it is not one.
BVIndex(m, ind, args, n, lev) ==
    LET at == {i \in 1..n : LET t == Deref(m, Arg(args, i))
                            IN IsBV(m, t) /\ m.h[t].ind = ind - lev}
    IN IF at = {} THEN 0 ELSE n - (CHOOSE i \in at : \A j \in at : i <= j) + 1 + lev

LikeConst(m, t, c) ==
    IF SameConst(m, t, c) /\ IsTConst(m, t) THEN TypesUnified(TypesAgree(m, t, c))
    ELSE Ret(m, SameConst(m, t, c))

RECURSIVE ConstIndex(_, _, _, _, _)
IndexHere(u, c, args, n, lev) ==
    IF u.rt THEN Ret(u, n + lev) ELSE ConstIndex(u, c, args + 2, n - 1, lev)

ConstIndex(m, c, args, n, lev) ==
    IF n = 0 THEN Ret(m, 0) ELSE IndexHere(LikeConst(m, Deref(m, args), c), c, args, n, lev)

-----------------------------------------------------------------------------
(* Flexible-flexible pairs.  The outside variable is vbb, of universe adj; *)
(* copy tells whether the binding shares the structure it was found in.    *)

\* A cell of one new argument vector and an index of the other.
Keep(m, cell, ind, copied) ==
    [Push(m, cell) EXCEPT !.ix = Append(@, ind), !.copy = @ \/ copied]

\* The outside variable is raised over the constants the internal variable
\* may depend on.
Raise(m, uc, args, nargs, lev) ==
    LET raised == SelectSeq([i \in 1..nargs |-> i],
                            LAMBDA i : LET t == Deref(m, Arg(args, i))
                                       IN IsConst(m, t) /\ m.h[t].uc <= uc)
        cell(i) == LET t == Deref(m, Arg(args, i))
                   IN IF IsTConst(m, t) THEN Ref(t) ELSE m.h[t]
    IN [PushVec(m, [k \in DOMAIN raised |-> cell(raised[k])]) EXCEPT
           !.ix = [k \in DOMAIN raised |-> nargs - raised[k] + 1 + lev]]

KeepIf(found, m, cell, ind, copied) == IF found THEN Keep(m, cell, ind, copied) ELSE m

\* The arguments of the internal variable that the outside one can see.
KeepBV(m, cell, ind, b) == KeepIf(b > 0, m, cell, b, ind # b)
KeepConst(c, cell) == KeepIf(c.rt > 0, c, cell, c.rt, TRUE)

PruneArg(m, t, args1, n1, n2, lev) ==
    CASE IsConst(m, t) -> KeepConst(ConstIndex(m, t, args1, n1, lev), BV(n2))
      [] ~IsConst(m, t) /\ m.h[t].ind > lev ->
           KeepBV(m, BV(n2), m.h[t].ind, BVIndex(m, m.h[t].ind, args1, n1, lev))
      [] OTHER -> Keep(m, BV(n2), m.h[t].ind, FALSE)

\* The arguments of the internal variable that the outside one can see.
RECURSIVE Prune(_, _, _, _, _, _)
Prune(m, args1, n1, args2, n2, lev) ==
    IF n2 = 0 THEN m
    ELSE Prune(PruneArg(m, Deref(m, args2), args1, n1, n2, lev), args1, n1, args2 + 2, n2 - 1, lev)

RaiseBV(m, ind, b, n2) == KeepIf(b > 0, m, BV(b), n2, ind # b)
RaiseConst(c, n2) == KeepIf(c.rt > 0, c, BV(c.rt), n2, TRUE)

PruneOrRaiseArg(m, t, args1, n1, n2, lev) ==
    CASE IsBV(m, t) /\ m.h[t].ind > lev ->
           RaiseBV(m, m.h[t].ind, BVIndex(m, m.h[t].ind, args1, n1, lev), n2)
      [] IsBV(m, t) /\ m.h[t].ind <= lev -> Keep(m, BV(m.h[t].ind), n2, FALSE)
      [] ~IsBV(m, t) /\ m.h[t].uc > m.adj -> RaiseConst(ConstIndex(m, t, args1, n1, lev), n2)
      [] OTHER -> Keep(m, IF IsTConst(m, t) THEN Ref(t) ELSE m.h[t], n2, FALSE)

RECURSIVE PruneAndRaise(_, _, _, _, _, _)
PruneAndRaise(m, args1, n1, args2, n2, lev) ==
    IF n2 = 0 THEN m
    ELSE PruneAndRaise(PruneOrRaiseArg(m, Deref(m, args2), args1, n1, n2, lev),
                       args1, n1, args2 + 2, n2 - 1, lev)

\* The arguments t1 and t2 stand at the same position, n2 from the right.
KeepTyped(u, n2) == IF u.fail THEN ResetTypesPDL(u) ELSE Keep(u, BV(n2), 0, TRUE)

KeepSame(m, t1, t2, n2, lev) ==
    LET ind == m.h[t1].ind + lev
    IN CASE IsBV(m, t1) -> KeepIf(IsBV(m, t2) /\ ind = m.h[t2].ind, m, BV(n2), 0, n2 # ind)
         [] ~IsBV(m, t1) /\ ~SameConst(m, t2, t1) -> m
         [] ~IsBV(m, t1) /\ SameConst(m, t2, t1) /\ ~IsTConst(m, t2) ->
              Keep(m, BV(n2), 0, TRUE)
         [] OTHER -> KeepTyped(TypesAgree(m, t1, t2), n2)

KeepOwn(m, t2, n2) == KeepIf(IsBV(m, t2) /\ m.h[t2].ind = n2, m, BV(n2), 0, FALSE)

\* F a1 .. an = lam(k, F b1 .. bm), with m = n + k: the positions that agree.
RECURSIVE PruneSameVar(_, _, _, _, _, _)
PruneSameVar(m, args1, n1, args2, n2, lev) ==
    IF n2 = 0 THEN m
    ELSE PruneSameVar(IF n1 = 0 THEN KeepOwn(m, Deref(m, args2), n2)
                      ELSE KeepSame(m, Deref(m, args1), Deref(m, args2), n2, lev),
                      IF n1 = 0 THEN args1 ELSE args1 + 2, IF n1 = 0 THEN 0 ELSE n1 - 1,
                      args2 + 2, n2 - 1, lev)

PushVarToHeap(m, uc) == Push(m, Var(uc))

\* v := lam(nabs, body)
Bind(m, v, nabs, body) ==
    Write([TrailTerm(m, v) EXCEPT !.bnd = TRUE], v,
          IF nabs = 0 THEN Ref(body) ELSE Lam(nabs, body))

\* h applied to a vector that is already on the heap.
MkPrunedTerm(m, h, args, n) == IF n = 0 THEN Ret(m, h) ELSE Push(m, App(n, h, args))

PushApp(m, h, n) == Push(m, App(n, h, m.rt))

\* h applied to bound variables.
MkPandRTerm(m, h, inds) ==
    IF inds = <<>> THEN Ret(m, h)
    ELSE PushApp(PushVec(m, [i \in DOMAIN inds |-> BV(inds[i])]), h, Len(inds))

BindRt(b, v, nabs) == Bind(b, v, nabs, b.rt)

MkPandRSubst(m, h, args, n, v, nabs) == BindRt(MkPrunedTerm(m, h, args, n), v, nabs)
MkPrunedSubst(m, h, inds, v, nabs) == BindRt(MkPandRTerm(m, h, inds), v, nabs)

\* The binding of the outside variable to an internal pattern fh args2 of
\* universe uc under lev abstractions, whose body is t2.  raised, with the
\* arguments of the outside variable that are carried over, and pruned, with
\* those of the internal one that are kept, start the heap top at hreg.
RaisedVar(v, inds, hreg, fh, n2) ==
    [MkPandRTerm(MkPandRSubst(v, v.rt, hreg, Len(inds), fh, n2), v.rt, inds) EXCEPT !.copy = TRUE]

\* Fault: the variable keeps its universe.
LoweredVarFault(m, fh) == [m EXCEPT !.bnd = TRUE]

LoweredVar(m, fh) == ModVarUC([TrailTerm(m, fh) EXCEPT !.bnd = TRUE], fh, m.adj)

RaisedBinding(pruned, raised, hreg, fh, n2, t2) ==
    CASE raised # <<>> \/ Len(pruned.ix) # n2 ->
           RaisedVar(PushVarToHeap(pruned, pruned.adj), raised \o pruned.ix, hreg, fh, n2)
      [] raised = <<>> /\ Len(pruned.ix) = n2 /\ pruned.copy ->
           MkPandRTerm(LoweredVar([pruned EXCEPT !.hreg = hreg], fh), fh, pruned.ix)
      [] OTHER -> Ret(LoweredVar([pruned EXCEPT !.hreg = hreg], fh), t2)

PrunedVar(v, hreg, fh, n2) ==
    [MkPrunedTerm(MkPrunedSubst(v, v.rt, v.ix, fh, n2), v.rt, hreg, Len(v.ix)) EXCEPT !.copy = TRUE]

PrunedBinding(both, uc, hreg, fh, n2, t2) ==
    CASE Len(both.ix) # n2 -> PrunedVar(PushVarToHeap(both, uc), hreg, fh, n2)
      [] Len(both.ix) = n2 /\ both.copy -> MkPrunedTerm(both, fh, hreg, n2)
      [] OTHER -> [both EXCEPT !.hreg = hreg, !.rt = t2]

PruneRaised(r, args1, n1, args2, n2, lev, hreg, fh, t2) ==
    RaisedBinding(Prune([r EXCEPT !.ix = <<>>], args1, n1, args2, n2, lev), r.ix, hreg, fh, n2, t2)

FlexNestedLLambda(m, args1, n1, uc, t2, fh, args2, n2, lev) ==
    IF m.adj < uc
    THEN PruneRaised(Raise(m, uc, args1, n1, lev), args1, n1, args2, n2, lev, m.hreg, fh, t2)
    ELSE PrunedBinding(PruneAndRaise([m EXCEPT !.ix = <<>>], args1, n1, args2, n2, lev),
                       uc, m.hreg, fh, n2, t2)

\* Fails where an argument holds what the variable being bound cannot: itself,
\* a variable or a constant of a larger universe, a variable bound outside.
BadHead(a, c, lev, mode) ==
    CASE a.rig /\ c.tag = "bvar" -> c.ind > lev + a.numabs
      [] a.rig /\ c.tag = "const" -> c.uc > a.adj
      [] ~a.rig -> (mode = "hn" /\ a.vbb = a.head) \/ c.uc > a.adj
      [] OTHER -> FALSE

RECURSIVE CheckArgs(_, _, _, _, _)
CheckArg(a, lev, mode) ==
    CASE a.fail -> a
      [] ~a.fail /\ BadHead(a, a.h[a.head], lev, mode) -> Fail(a)
      [] OTHER -> CheckArgs(a, a.argvec, a.numargs, lev + a.numabs, mode)

CheckArgs(m, args, n, lev, mode) ==
    IF m.fail \/ n = 0 THEN m
    ELSE CheckArgs(CheckArg(NormalForm(m, args, mode), lev, mode), args + 2, n - 1, lev, mode)

FlexCheck(m, args, n, lev) == CheckArgs(m, args, n, lev, "hn")
FlexCheckC(m, args, n, lev) == CheckArgs(m, args, n, lev, "occ")

\* h [|a1,0,lev,nil|] .. [|an,0,lev,nil|] #lev .. #1
MkTermNLL(m, h, args, n, lev) ==
    LET vec   == m.hreg + 3
        susp0 == Arg(vec, n + lev + 1)
        cells == [i \in 1..n |-> Ref(susp0 + 4 * (i - 1))]
                 \o [i \in 1..lev |-> BV(lev - i + 1)]
    IN [WriteSusps(PushVec(Push(m, App(n + lev, h, vec)), cells), susp0,
                   ShiftedArgs(m, args, n, lev)) EXCEPT
           !.hreg = susp0 + 4 * n, !.rt = m.hreg]

\* h #n .. #1
MkSubstNLL(m, h, n) ==
    Ret(PushVec(Push(m, App(n, h, m.hreg + 3)), [i \in 1..n |-> BV(n - i + 1)]), m.hreg)

\* Fault: a variable whose universe is lowered is not trailed, as it is not bound.
LowerFault(c, at, fh) ==
    IF ~c.fail /\ c.h[fh].uc > c.adj THEN ModVarUC([c EXCEPT !.bnd = TRUE], fh, c.adj) ELSE c

\* The universe of the variable fh is lowered to adj; at is what is trailed.
Lower(c, at, fh) ==
    IF ~c.fail /\ c.h[fh].uc > c.adj
    THEN ModVarUC([TrailTerm(c, at) EXCEPT !.bnd = TRUE], fh, c.adj)
    ELSE c

BndVarNestedFlex(m, fh, args, n, lev) == Lower(FlexCheck(m, args, n, lev), fh, fh)

\* A new variable stands for an internal flexible term tm that is delayed.
DelayTerm(t, tm) == AddDisPair(t, t.rt, tm)

DelayUnder(v, args1, n1, tm, lev) ==
    IF n1 = 0 /\ lev = 0 THEN Ret(DelayTerm(v, tm), v.rt)
    ELSE MkSubstNLL(DelayTerm(MkTermNLL(v, v.rt, args1, n1, lev), tm), v.rt, lev + n1)

DelayNested(m, args1, n1, tm, lev) ==
    DelayUnder(PushVarToHeap([m EXCEPT !.copy = TRUE], m.adj), args1, n1, tm, lev)

\* b is the attempt to keep the term as it is.
KeptOrDelayed(b, tm, lev) ==
    IF b.fail THEN DelayNested([b EXCEPT !.fail = FALSE], NULL, 0, tm, lev) ELSE Ret(b, tm)

\* rt tells of p whether the internal term is a pattern.
FlexNested(p, args1, n1, fh, args2, n2, tm, lev) ==
    CASE p.rt /\ fh = p.vbb -> Fail(p)
      [] p.rt /\ fh # p.vbb ->
           FlexNestedLLambda(p, args1, n1, p.h[fh].uc, tm, fh, args2, n2, lev)
      [] ~p.rt /\ fh # p.vbb /\ n1 = 0 ->
           KeptOrDelayed(BndVarNestedFlex(p, fh, args2, n2, lev), tm, lev)
      [] OTHER -> DelayNested(p, args1, n1, tm, lev)

FlexNestedSubst(m, args1, n1, fh, args2, n2, tm, lev) ==
    FlexNested(IsLLambda(m, m.h[fh].uc, n2, args2), args1, n1, fh, args2, n2, tm, lev)

\* The version of the compiled form, for a variable already bound in part.
FlexNestedC(p, fh, args, n, tm, lev) ==
    IF p.rt THEN FlexNestedLLambda(p, NULL, 0, p.h[fh].uc, tm, fh, args, n, lev)
    ELSE DelayNested(p, NULL, 0, tm, lev)

FlexCheckedC(c, fh, args, n, tm, lev) ==
    IF c.fail
    THEN FlexNestedC(IsLLambda([c EXCEPT !.fail = FALSE], c.h[fh].uc, n, args), fh, args, n, tm, lev)
    ELSE Ret(Lower(c, fh, fh), tm)

FlexNestedSubstC(m, fh, args, n, tm, lev) ==
    FlexCheckedC(FlexCheckC(m, args, n, lev), fh, args, n, tm, lev)

\* v := f, where f is a flexible term fh args that is not a pattern.
BindFlexChecked(c, v, f, fh) == IF c.fail THEN c ELSE Bind(Lower(c, f, fh), v, 0, f)

BndVarFlex(m, v, f, fh, args, n) ==
    BindFlexChecked(FlexCheck([m EXCEPT !.vbb = v, !.adj = m.h[v].uc], args, n, 0), v, f, fh)

\* v := lam(nabs, body) where the body is what a search for a binding left.
BindResult(m, v, nabs) == IF m.fail THEN m ELSE Bind(m, v, nabs, m.rt)

DelayRt(m, t1) == AddDisPair(m, t1, m.rt)

\* A pair that is not a pattern is delayed, the second term under lev
\* abstractions.
Delay(m, t1, t2, lev) ==
    IF lev = 0 THEN AddDisPair(m, t1, t2) ELSE DelayRt(Push(m, Lam(lev, t2)), t1)

\* F a1 .. an = lam(lev, F b1 .. bm), both patterns.
PrunedSameVar(v, hreg, h, n2) == MkPandRSubst(v, v.rt, hreg, Len(v.ix), h, n2)

SameVarBinding(p, hreg, h, n2) ==
    IF Len(p.ix) # n2 \/ p.copy THEN PrunedSameVar(PushVarToHeap(p, p.h[h].uc), hreg, h, n2)
    ELSE [p EXCEPT !.hreg = hreg]

SameVarSubst(m, h, args1, n1, args2, n2, lev) ==
    SameVarBinding(PruneSameVar([m EXCEPT !.ix = <<>>, !.copy = FALSE], args1, n1, args2, n2, lev),
                   m.hreg, h, n2)

Outside(m, h) == [m EXCEPT !.vbb = h, !.adj = m.h[h].uc, !.copy = FALSE]

BoundRt(b, v, n) == Write([b EXCEPT !.bnd = TRUE], v, IF n = 0 THEN Ref(b.rt) ELSE Lam(n, b.rt))

\* The first pair of terms may be in registers or on the stack (glb): then the
\* terms are moved to the heap before it refers to them, and top is the second
\* term with its abstractions.
BindGlobal(m, v, n) ==
    IF m.fail THEN m
    ELSE BoundRt(IF m.copy THEN TrailTerm(m, v) ELSE GlobalizeFlex(TrailTerm(m, v), m.rt), v, n)

BindFlex(m, v, n, glb) == IF glb THEN BindGlobal(m, v, n) ELSE BindResult(m, v, n)

DelayGlobal(m, t1, t2, top, lev) == AddDisPair(m, t1, IF lev = 0 THEN t2 ELSE Deref(m, top))

DelayFlex(m, t1, t2, top, lev, glb) ==
    IF glb THEN DelayGlobal(m, t1, t2, top, lev) ELSE Delay(m, t1, t2, lev)

\* F a1 .. an = lam(lev, F b1 .. bm); f is [head, args, n, body], the body
\* under the abstractions, g likewise.
DelaySame(d, g, top, lev, glb) == DelayFlex(d, d.rt, g.body, top, lev, glb)

SameVar(m, f, g, top, lev, glb) ==
    IF m.rt THEN SameVarSubst(m, f.head, f.args, f.n, g.args, g.n, lev)
    ELSE DelaySame(IF glb /\ f.n = 0 THEN GlobalizeFlex(m, f.body) ELSE Ret(m, f.body),
                   g, top, lev, glb)

\* b is the attempt to bind the second head, a variable, directly.
DelayDirect(d, f, top, glb) == DelayFlex(d, f.body, d.rt, top, 0, glb)

Direct(b, f, g, top, glb) ==
    LET caught == [b EXCEPT !.fail = FALSE]
    IN IF ~b.fail THEN b
       ELSE DelayDirect(IF glb THEN GlobalizeFlex(caught, g.body) ELSE Ret(caught, g.body),
                        f, top, glb)

\* F a1 .. an = lam(lev, G b1 .. bm); rt of p: the first is a pattern.
FlexSubst(p, f, g, top, lev, glb) ==
    CASE p.rt /\ f.head = g.head ->
           SameVar(IsLLambda(p, p.h[f.head].uc, g.n, g.args), f, g, top, lev, glb)
      [] p.rt /\ f.head # g.head ->
           BindFlex(FlexNestedSubst(Outside(p, f.head), f.args, f.n, g.head, g.args,
                                    g.n, g.body, lev), f.head, lev + f.n, glb)
      [] ~p.rt /\ g.n = 0 /\ lev = 0 /\ f.head # g.head ->
           Direct(BndVarFlex(p, g.head, f.body, f.head, f.args, f.n), f, g, top, glb)
      [] OTHER -> DelayFlex(p, f.body, g.body, top, lev, glb)

FlexMkSubst(m, f, g, top, lev, glb) ==
    FlexSubst(IsLLambda(m, m.h[f.head].uc, f.n, f.args), f, g, top, lev, glb)

-----------------------------------------------------------------------------
(* Flexible-rigid pairs.                                                   *)

\* The head of the binding: a constant or a variable the outside variable
\* cannot see is projected on its argument, or there is no solution.
Project(m, i) == IF i = 0 THEN Fail(m) ELSE [Push(m, BV(i)) EXCEPT !.copy = TRUE]
ProjectRt(k) == Project(k, k.rt)
ProjectBV(m, r, b) == IF b = m.h[r].ind THEN Ret(m, r) ELSE Project(m, b)

\* Fault: a constant beyond the variable's universe is not looked for.
GetHeadFault(m, r, args, n, lev) ==
    LET c == m.h[r]
    IN CASE c.tag = "const" /\ c.uc > m.adj -> Fail(m)
         [] c.tag = "bvar" /\ c.ind > lev -> ProjectBV(m, r, BVIndex(m, c.ind, args, n, lev))
         [] OTHER -> Ret(m, r)

GetHead(m, r, args, n, lev) ==
    LET c == m.h[r]
    IN CASE c.tag = "const" /\ c.uc > m.adj -> ProjectRt(ConstIndex(m, r, args, n, lev))
         [] c.tag = "bvar" /\ c.ind > lev -> ProjectBV(m, r, BVIndex(m, c.ind, args, n, lev))
         [] OTHER -> Ret(m, r)

MkConsOrApp(m, t, f, args, n) ==
    Push(m, IF Tag(m, t) = "cons" THEN Cons(args) ELSE App(n, f, args))

\* The arguments of the binding, written from at on.  changed is returned in
\* rt: one of them is not the old argument.  c tells the compiled form, for a
\* variable that is partly bound, from the interpretive one.
RECURSIVE NestedArgs(_, _, _, _, _, _, _, _, _), NestedSubst(_, _, _, _, _, _, _, _, _)

\* The argument with body tm, which a left in head normal form.
NestedArg(a, tm, fargs, fn, lev, c) ==
    CASE a.fail -> a
      [] ~a.fail /\ a.rig ->
           NestedSubst(a, fargs, fn, a.head, tm, a.argvec, a.numargs, lev, c)
      [] ~a.fail /\ ~a.rig /\ ~c ->
           FlexNestedSubst(a, fargs, fn, a.head, a.argvec, a.numargs, tm, lev)
      [] OTHER -> FlexNestedSubstC(a, a.head, a.argvec, a.numargs, tm, lev)

WriteNested(b, at, k) ==
    IF b.fail THEN b ELSE Write(b, at, IF k = 0 THEN Ref(b.rt) ELSE Lam(k, b.rt))

\* w has written one argument.
NextNested(w, at, fargs, fn, rargs, rn, lev, changed, c) ==
    IF w.fail THEN w
    ELSE NestedArgs([w EXCEPT !.copy = FALSE], at + 2, fargs, fn, rargs + 2, rn - 1, lev,
                    changed \/ w.copy, c)

NestedFrom(a, at, fargs, fn, rargs, rn, lev, changed, old, c) ==
    NextNested(WriteNested(NestedArg(a, LamBody(a, rargs), fargs, fn, a.numabs + lev, c),
                           at, a.numabs),
               at, fargs, fn, rargs, rn, lev, changed \/ a.hreg # old, c)

NestedArgs(m, at, fargs, fn, rargs, rn, lev, changed, c) ==
    IF rn = 0 THEN Ret(m, changed)
    ELSE NestedFrom(NormalForm(m, rargs, IF c THEN "occ" ELSE "hn"), at, fargs, fn, rargs, rn,
                    lev, changed, m.hreg, c)

\* The binding for r with the arguments args written at new, over the head as
\* head left it.  When no argument changed the new vector is given up, with
\* the heap above it.
NestedTerm(head, args, r, rargs, rn) ==
    LET back == [args EXCEPT !.hreg = head.hreg]
    IN CASE args.fail -> args
         [] ~args.fail /\ args.rt ->
              [MkConsOrApp(args, r, head.rt, head.hreg, rn) EXCEPT !.copy = TRUE]
         [] ~args.fail /\ ~args.rt /\ head.copy ->
              [MkConsOrApp(back, r, head.rt, rargs, rn) EXCEPT !.copy = TRUE]
         [] OTHER -> Ret(back, r)

OverHead(head, fargs, fn, r, rargs, rn, lev, c) ==
    IF head.fail \/ rn = 0 THEN head
    ELSE NestedTerm(head, NestedArgs([head EXCEPT !.copy = FALSE, !.hreg = Arg(@, rn + 1)],
                                     head.hreg, fargs, fn, rargs, rn, lev, FALSE, c), r, rargs, rn)

NestedSubst(m, fargs, fn, rh, r, rargs, rn, lev, c) ==
    OverHead(GetHead(m, rh, fargs, fn, lev), fargs, fn, r, rargs, rn, lev, c)

RigNestedSubst(m, fargs, fn, rh, r, rargs, rn, lev) ==
    NestedSubst(m, fargs, fn, rh, r, rargs, rn, lev, FALSE)

RigNestedSubstC(m, rh, r, rargs, rn, lev) ==
    NestedSubst(m, NULL, 0, rh, r, rargs, rn, lev, TRUE)

BindRigidGlobal(b, v, n) ==
    CASE b.fail -> b
      [] ~b.fail /\ (b.copy \/ n # 0) ->
           BoundRt(IF b.copy THEN TrailTerm(b, v) ELSE GlobalizeRigid(TrailTerm(b, v), b.rt), v, n)
      [] OTHER -> GlobalizeCopyRigid([TrailTerm(b, v) EXCEPT !.bnd = TRUE], b.rt, v)

BindRigid(b, v, n, glb) == IF glb THEN BindRigidGlobal(b, v, n) ELSE BindResult(b, v, n)

DelayRigidGlobal(p, f, r) ==
    DelayRt(GlobalizeRigid(p, Deref(p, r.body)), Deref(p, f.body))

DelayRigid(p, f, r, lev, glb) ==
    IF glb THEN DelayRigidGlobal(p, f, r) ELSE Delay(p, f.body, r.body, lev)

\* F a1 .. an = lam(lev, r b1 .. bm); rt of p: the first is a pattern.
RigSubst(p, f, r, lev, glb) ==
    IF p.rt
    THEN BindRigid(RigNestedSubst(Outside(p, f.head), f.args, f.n, r.head,
                                  IF glb THEN Deref(p, r.body) ELSE r.body, r.args, r.n, lev),
                   f.head, lev + f.n, glb)
    ELSE DelayRigid(p, f, r, lev, glb)

RigMkSubst(m, f, r, lev, glb) ==
    RigSubst(IsLLambda(m, m.h[f.head].uc, f.n, f.args), f, r, lev, glb)

-----------------------------------------------------------------------------
(* Rigid-rigid pairs.                                                      *)

\* The second head is lifted over the nabs abstractions it is eta-expanded by.
\* Streams are not compared.
MatchHeads(m, h1, h2, nabs) ==
    LET c1 == m.h[h1]
        c2 == m.h[h2]
    IN CASE c1.tag = "stream" -> m
         [] c1.tag # "stream" /\ c2.tag # c1.tag -> Fail(m)
         [] c1.tag = "const" /\ c2.tag = "const" ->
              IF ~SameConsts(m, h1, h2) THEN Fail(m)
              ELSE IF IsTConst(m, h1) THEN ConstTypesUnify(m, c1.ty, c2.ty, CstTyEnvSize[c1.ind])
              ELSE m
         [] c1.tag = "bvar" /\ c2.tag = "bvar" ->
              IF c1.ind = c2.ind + nabs THEN m ELSE Fail(m)
         [] c1.tag \in {"int", "float"} /\ c2.tag = c1.tag -> IF c1.val = c2.val THEN m ELSE Fail(m)
         [] c1.tag = "string" /\ c2.tag = "string" ->
              IF m.h[c1.data].chars = m.h[c2.data].chars THEN m ELSE Fail(m)
         [] OTHER -> m

RECURSIVE PushArgPairs(_, _, _, _, _)
PushArgPairs(m, args1, args2, n, i) ==
    IF i > n THEN m
    ELSE PushArgPairs(PushPDL(PushPDL(m, Arg(args1, i)), Arg(args2, i)), args1, args2, n, i + 1)

PushEtaPair(p, arg) == PushPDL(PushPDL(p, arg), p.rt)

RECURSIVE PushEtaPairs(_, _, _, _, _)
PushEtaPairs(m, args1, args2, n, nabs) ==
    IF n <= 0 /\ nabs = 0 THEN m
    ELSE PushEtaPairs(PushEtaPair(Push(m, IF n > 0 THEN Susp(0, nabs, Deref(m, args2), NULL)
                                          ELSE BV(nabs)), args1),
                      args1 + 2, args2 + 2, n - 1, IF n > 0 THEN nabs ELSE nabs - 1)

SetPDL(m, args1, args2, n, nabs) ==
    IF m.fail THEN m
    ELSE IF nabs = 0 THEN PushArgPairs(m, args1, args2, n, 1)
    ELSE PushEtaPairs(m, args1, args2, n, nabs)

\* r has the more abstractions.
RigidPairs(m, r, s) ==
    SetPDL(MatchHeads(m, r.head, s.head, r.abs - s.abs), r.args, s.args, s.n, r.abs - s.abs)

RigidPair(m, r1, r2) ==
    RigidPairs(m, IF r1.abs > r2.abs THEN r1 ELSE r2, IF r1.abs > r2.abs THEN r2 ELSE r1)

-----------------------------------------------------------------------------
(* The main routines.                                                      *)

\* The term t of the normal form regs, under its abstractions.
WithBody(m, regs, t, glb) == [head |-> regs.head, args |-> regs.args, n |-> regs.n,
                              body |-> IF glb THEN Deref(m, t) ELSE LamBody(m, t)]

Positive(k) == IF k > 0 THEN k ELSE 0

SubstExpanded(e, f, r, eta, lev, glb) ==
    RigMkSubst(e, f, IF eta = 0 THEN r ELSE [head |-> e.eh, args |-> e.ea, n |-> r.n + eta,
                                             body |-> e.rt], lev, glb)

\* The rigid term is eta-expanded by eta abstractions first.
EtaSubst(m, f, r, eta, lev, glb) ==
    SubstExpanded(IF eta = 0 THEN m ELSE EtaExpand(m, r.head, r.args, r.n, eta),
                  f, r, eta, lev, glb)

\* The number of abstractions by which a rigid term under r is eta-expanded to
\* meet a flexible one under f; for the first pair, when it is the flexible
\* term that comes first, the difference is taken the other way round.
EtaAbs(f, r, glb) ==
    CASE glb /\ r < f -> r - f
      [] ~glb /\ r < f -> f - r
      [] OTHER -> 0

\* A flexible term of normal form f against a rigid one of normal form r.
FlexRigid(m, ft, f, rt, r, glb, first) ==
    LET flat == glb /\ f.abs = 0 /\ r.abs = 0
    IN EtaSubst(m, WithBody(m, f, ft, flat), WithBody(m, r, rt, flat),
                EtaAbs(f.abs, r.abs, glb /\ first), Positive(r.abs - f.abs), flat)

\* The term under fewer abstractions is the one whose head is bound; the other
\* way round where there are none.
FlexFlex(m, t1, r1, t2, r2, glb) ==
    LET flat == glb /\ (r1.abs = 0 \/ r2.abs = 0)
        first == r2.abs > r1.abs \/ (glb /\ r1.abs = 0)
    IN FlexMkSubst(m, IF first THEN WithBody(m, r1, t1, flat) ELSE WithBody(m, r2, t2, flat),
                   IF first THEN WithBody(m, r2, t2, FALSE) ELSE WithBody(m, r1, t1, FALSE),
                   IF first THEN t2 ELSE t1,
                   IF first THEN r2.abs - r1.abs ELSE r1.abs - r2.abs, flat)

\* t1 and t2, of the normal forms r1 and r2.
UnifyNormal(m, t1, r1, t2, r2, glb) ==
    CASE r1.rig /\ r2.rig -> RigidPair(m, r1, r2)
      [] r1.rig # r2.rig ->
           FlexRigid(m, IF r1.rig THEN t2 ELSE t1, IF r1.rig THEN r2 ELSE r1,
                     IF r1.rig THEN t1 ELSE t2, IF r1.rig THEN r1 ELSE r2, glb, r2.rig)
      [] OTHER -> FlexFlex(m, t1, r1, t2, r2, glb)

UnifyRegs(m, t1, r1, t2, glb) == UnifyNormal(m, t1, r1, t2, Regs(m), glb)
NormalSecond(m, t1, t2, glb) == UnifyRegs(Hnorm(m, t2), t1, Regs(m), t2, glb)
NormalPair(m, t1, t2, glb) == NormalSecond(Hnorm(m, t1), t1, t2, glb)

\* One pair taken from the push-down list.
UnifyTopPair(m) ==
    NormalPair(PopPDL(PopPDL(m)), TopPDL(m), TopPDL(PopPDL(m)), FALSE)

RECURSIVE PatternUnifyPDL(_)
PatternUnifyPDL(m) ==
    IF m.fail \/ Len(m.pdl) <= m.pdlbot THEN m ELSE PatternUnifyPDL(UnifyTopPair(m))

\* The delayed pairs are all tried again.
RECURSIVE MoveLiveList(_, _)
MoveLiveList(m, d) ==
    IF d = NULL THEN [m EXCEPT !.bnd = FALSE, !.ll = NULL]
    ELSE MoveLiveList(PushPDL(PushPDL(m, m.h[d].second), m.h[d].first), m.h[d].next)

\* Fault: the live list is dropped.
ReawakenFault(m) == [m EXCEPT !.bnd = FALSE, !.ll = NULL]

Reawaken(m) == MoveLiveList(m, m.ll)

RECURSIVE PatternUnify(_)
Reawakened(p) == IF ~p.fail /\ p.bnd /\ p.ll # NULL THEN PatternUnify(Reawaken(p)) ELSE p
PatternUnify(m) == Reawakened(PatternUnifyPDL(m))

\* The first pair, which instructions give by registers or stack addresses.
PatternUnifyPair(m, t1, t2) ==
    [PatternUnifyPDL(NormalPair([m EXCEPT !.pdlbot = Len(m.pdl)], t1, t2, TRUE)) EXCEPT
        !.pdlbot = m.pdlbot]
=============================================================================
