----------------------------- MODULE TermInstr ------------------------------
(***************************************************************************)
(* The instructions that build terms and unify them with the terms they    *)
(* are applied to (simulator/siminstr.c, siminstrlocal.c).  An operand is  *)
(* the address of its cell, a register or a cell of the environment; where *)
(* the register and environment forms of an instruction do the same, one   *)
(* operator is both.  In write mode sreg is the cell to be written and     *)
(* vbb, adj describe the variable whose binding is being built, when oc    *)
(* asks for the occurs check; otherwise the structure is delayed on the    *)
(* push-down list.  Integers stand for reals and strings too.              *)
(***************************************************************************)
EXTENDS PatternUnify

CONSTANT CstUniv    \* the universe count of every constant

NextS(m) == [m EXCEPT !.sreg = @ + 2]

\* *to = *from
Copy(m, to, from) == Write(m, to, m.h[from])

\* A cell pushed on the heap that the cell at a is made to refer to.
PushRef(m, a, c) == LET p == Push(m, c) IN Write(p, a, Ref(p.rt))

\* The type environment of the constant is pushed next.
PushTConst(m, c) == Push(m, TConst(CstUniv[c], c, m.hreg + 3))

-----------------------------------------------------------------------------
(* Building: the put class.                                                *)

put_variable_t(m, x, a)  == LET p == PushRef(m, x, Var(m.ucreg)) IN Copy(p, a, x)
put_variable_te(m, x, a) == LET p == PushRef(m, x, Var(m.envuc)) IN Copy(p, a, x)
put_variable_p(m, y, a)  == Write(Write(m, y, Var(m.envuc)), a, Ref(y))
put_value_t(m, x, a)     == Copy(m, a, x)

put_value_p(m, y, a) ==
    LET t == Deref(m, y)
    IN IF ~StackAddr(m, t) \/ IsFV(m, t) THEN Write(m, a, Ref(t)) ELSE Copy(m, a, t)

\* The variable moves to the heap when its cell goes with the environment.
InCurEnv(m, a) == a > m.ereg

put_unsafe_value(m, y, a) ==
    LET t == Deref(m, y)
        moved == LET p == PushRef(TrailETerm(m, t), t, m.h[t]) IN Copy(p, a, t)
    IN CASE Tag(m, t) \in {"nil", "cons", "int"} -> Copy(m, a, t)
         [] Tag(m, t) = "const" /\ ~IsTConst(m, t) -> Copy(m, a, t)
         [] Tag(m, t) = "var" /\ InCurEnv(m, t) -> moved
         [] OTHER -> Write(m, a, Ref(t))

copy_value(m, y, a) ==
    LET t == Deref(m, y) IN IF StackAddr(m, t) THEN Copy(m, a, t) ELSE Write(m, a, Ref(t))

put_m_const(m, a, c) == Write(m, a, Const(CstUniv[c], c))
put_p_const(m, a, c) == LET p == PushTConst(m, c) IN Write(p, a, Ref(p.rt))
put_nil(m, a)        == Write(m, a, Nil)
put_integer(m, a, i) == Write(m, a, IntTm(i))
put_index(m, a, i)   == PushRef(m, a, BV(i))

\* What a register holds, as a term on the heap.
OnHeap(m, x) == IF Tag(m, x) = "ref" THEN Ret(m, m.h[x].to) ELSE Push(m, m.h[x])

put_app(m, a, x, n) ==
    LET f == OnHeap(m, x)
        p == Push(f, App(n, f.rt, f.hreg + 3))
    IN [Write(p, a, Ref(p.rt)) EXCEPT !.sreg = p.hreg, !.hreg = Arg(@, n + 1)]

put_list(m, a) == [Write(m, a, Cons(m.hreg)) EXCEPT !.sreg = m.hreg, !.hreg = Arg(@, 3)]

put_lambda(m, a, x, n) == LET b == OnHeap(m, x) IN PushRef(b, a, Lam(n, b.rt))

-----------------------------------------------------------------------------
(* The set class: the arguments of what was put.                           *)

SetS(m, c) == NextS(Write(m, m.sreg, c))

set_variable_t(m, x)  == SetS(Write(m, x, Ref(m.sreg)), Var(m.ucreg))
set_variable_te(m, x) == SetS(Write(m, x, Ref(m.sreg)), Var(m.envuc))
set_value_t(m, x)     == SetS(m, m.h[x])

set_value_p(m, y) ==
    LET t == Deref(m, y) IN SetS(m, IF StackAddr(m, t) THEN m.h[t] ELSE Ref(t))

Globalize(m, x, t) ==
    LET p == Push(m, m.h[t])
        q == IF IsFV(m, t) THEN Write(TrailETerm(p, t), t, Ref(p.rt)) ELSE p
    IN Write(q, x, Ref(p.rt))

\* Fault: what is on the stack stays there.
globalize_ptFault(m, y, x) == Write(m, x, Ref(Deref(m, y)))

globalize_pt(m, y, x) ==
    LET t == Deref(m, y)
    IN IF StackAddr(m, t) THEN Globalize(m, x, t) ELSE Write(m, x, Ref(t))

globalize_t(m, x) ==
    LET t == Deref(m, x)
    IN IF NHeapAddr(m, t) THEN Globalize(m, x, t) ELSE Write(m, x, Ref(t))

set_m_const(m, c) == SetS(m, Const(CstUniv[c], c))
set_p_const(m, c) == LET p == PushTConst(m, c) IN SetS(p, Ref(p.rt))
set_nil(m)        == SetS(m, Nil)
set_integer(m, i) == SetS(m, IntTm(i))
set_index(m, i)   == SetS(m, BV(i))

-----------------------------------------------------------------------------
(* Binding a variable, or delaying a pair (siminstrlocal.c).               *)

Bound(m, v, c) == [Write(TrailTerm(m, v), v, c) EXCEPT !.bnd = TRUE]

bindConst(m, v, c) == Bound(m, v, Const(CstUniv[c], c))
bindInt(m, v, i)   == Bound(m, v, IntTm(i))
bindNil(m, v)      == Bound(m, v, Nil)
bindTConst(m, v, c) ==
    LET p == PushTConst(m, c) IN [Bound(p, v, Ref(p.rt)) EXCEPT !.tywrite = TRUE]

\* Write mode at s, for the binding of v to the structure at t.
WriteFor(m, v, t, s) ==
    [m EXCEPT !.sreg = s, !.write = TRUE, !.adj = m.h[v].uc, !.vbb = t, !.oc = TRUE]

\* The application of a constant to n cells that are still to be written.
PushStr(m, c, n, typed) ==
    LET args == m.hreg + 3
        func == Arg(args, n + 1)
        top  == func + (IF typed THEN 3 ELSE 2)
        head == IF typed THEN TConst(CstUniv[c], c, top) ELSE Const(CstUniv[c], c)
    IN [Write(Push(m, App(n, func, args)), func, head) EXCEPT !.hreg = top]

bindStr(m, v, c, n) ==
    Bound(WriteFor(PushStr(m, c, n, FALSE), v, m.hreg, m.hreg + 3), v, Ref(m.hreg))

bindTStr(m, v, c, n) ==
    [Bound(WriteFor(PushStr(m, c, n, TRUE), v, m.hreg, m.hreg + 3), v, Ref(m.hreg))
        EXCEPT !.tywrite = TRUE]

bindCons(m, v) ==
    Bound([WriteFor(m, v, m.hreg, m.hreg) EXCEPT !.hreg = Arg(@, 3)], v, Cons(m.hreg))

DelayPair(m, t, u) == PushPDL(PushPDL(m, t), u)
DelayAtom(m, t, c) == LET p == Push(m, c) IN DelayPair(p, t, p.rt)

delayConst(m, t, c)  == DelayAtom(m, t, Const(CstUniv[c], c))
delayTConst(m, t, c) ==
    LET p == PushTConst(m, c) IN [DelayPair(p, t, p.rt) EXCEPT !.tywrite = TRUE]
delayInt(m, t, i)    == DelayAtom(m, t, IntTm(i))
delayNil(m, t)       == DelayAtom(m, t, Nil)

\* Write mode at s without occurs check, for a pair of t and the structure u.
WriteDelayed(m, t, u, s) ==
    [DelayPair(m, t, u) EXCEPT !.sreg = s, !.write = TRUE, !.oc = FALSE, !.adj = m.ucreg]

delayStr(m, t, c, n) == WriteDelayed(PushStr(m, c, n, FALSE), t, m.hreg, m.hreg + 3)
delayTStr(m, t, c, n) ==
    [WriteDelayed(PushStr(m, c, n, TRUE), t, m.hreg, m.hreg + 3) EXCEPT !.tywrite = TRUE]
delayCons(m, t) ==
    WriteDelayed([Push(m, Cons(m.hreg + 2)) EXCEPT !.hreg = Arg(m.hreg + 2, 3)],
                 t, m.hreg, m.hreg + 2)

\* The term t as the next argument of the structure vbb is being bound to.
\* The binding built goes on the heap.
BodyAsArg(a, t) ==
    LET c == [a EXCEPT !.copy = FALSE]
    IN CASE a.fail -> a
         [] ~a.fail /\ a.rig ->
              RigNestedSubstC(c, a.head, LamBody(a, t), a.argvec, a.numargs, a.numabs)
         [] OTHER -> FlexNestedSubstC(c, a.head, a.argvec, a.numargs, LamBody(a, t), a.numabs)

\* The binding b, under abs abstractions, written as the argument.
WriteBinding(b, abs) == Write(b, b.sreg, IF abs # 0 THEN Lam(abs, b.rt) ELSE Ref(b.rt))

\* heap: the term was on the heap already.
WriteArg(b, abs, rig, heap) ==
    CASE b.fail -> b
      [] ~b.fail /\ ~heap /\ rig /\ abs = 0 /\ ~b.copy -> GlobalizeCopyRigid(b, b.rt, b.sreg)
      [] OTHER -> WriteBinding(IF heap \/ rig \/ b.copy THEN b ELSE GlobalizeFlex(b, b.rt), abs)

ArgOf(a, t, heap) == WriteArg(BodyAsArg(a, t), a.numabs, a.rig, heap)

bindSreg(m, t, heap) == ArgOf(HnormOcc(m, t), t, heap)

-----------------------------------------------------------------------------
(* Unifying the term at t, dereferenced, with an atom.                     *)

ConstHead(m, t) == Tag(m, t) = "app" /\ IsConst(m, Deref(m, m.h[t].f))
HasHead(r, c) == IsConst(r, r.head) /\ r.h[r.head].ind = c

\* A flexible term f with arguments is delayed, a variable bound if it can be.
unifyConst(m, t, c) ==
    LET normal(r) ==
            CASE r.rig /\ (~HasHead(r, c) \/ r.numabs # r.numargs) -> Fail(r)
              [] r.rig /\ HasHead(r, c) /\ r.numabs = r.numargs ->
                   IF r.numabs # 0 THEN delayConst(r, t, c) ELSE r
              [] ~r.rig /\ r.numargs # 0 -> delayConst(r, t, c)
              [] OTHER -> IF r.numabs = 0 /\ r.h[r.head].uc >= CstUniv[c]
                          THEN bindConst(r, r.head, c) ELSE Fail(r)
    IN CASE IsFV(m, t) -> IF m.h[t].uc < CstUniv[c] THEN Fail(m) ELSE bindConst(m, t, c)
         [] IsConst(m, t) -> IF m.h[t].ind = c THEN m ELSE Fail(m)
         [] Tag(m, t) \in {"app", "lam", "susp"} /\ ~ConstHead(m, t) -> normal(Hnorm(m, t))
         [] OTHER -> Fail(m)

\* jump: the types of the constant are not looked at.
unifyTConst(m, t, c) ==
    LET jump(x) == [x EXCEPT !.jump = TRUE]
        normal(r) ==
            CASE r.rig /\ (~HasHead(r, c) \/ r.numabs # r.numargs) -> Fail(r)
              [] r.rig /\ HasHead(r, c) /\ r.numabs = r.numargs ->
                   IF r.numabs = 0 THEN jump(r) ELSE delayTConst(r, t, c)
              [] ~r.rig /\ r.numabs # 0 -> delayTConst(r, t, c)
              [] OTHER -> IF r.h[r.head].uc >= CstUniv[c] THEN bindTConst(r, r.head, c)
                          ELSE Fail(r)
    IN CASE IsFV(m, t) -> IF m.h[t].uc < CstUniv[c] THEN Fail(m) ELSE bindTConst(m, t, c)
         [] IsConst(m, t) -> IF m.h[t].ind = c THEN jump(m) ELSE Fail(m)
         [] Tag(m, t) \in {"app", "lam", "susp"} /\ ~ConstHead(m, t) -> normal(Hnorm(m, t))
         [] OTHER -> Fail(m)

unifyInt(m, t, i) ==
    LET normal(r) == CASE r.rig -> IF r.h[r.head] = IntTm(i) THEN r ELSE Fail(r)
                       [] ~r.rig /\ r.numargs = 0 -> bindInt(r, r.head, i)
                       [] OTHER -> delayInt(r, t, i)
    IN CASE IsFV(m, t) -> bindInt(m, t, i)
         [] Tag(m, t) = "int" -> IF m.h[t].val = i THEN m ELSE Fail(m)
         [] Tag(m, t) \in {"app", "susp"} /\ ~ConstHead(m, t) -> normal(Hnorm(m, t))
         [] OTHER -> Fail(m)

unifyNil(m, t) ==
    LET normal(r) == CASE r.rig -> IF ~r.cons /\ Tag(r, r.head) = "nil" THEN r ELSE Fail(r)
                       [] ~r.rig /\ r.numargs = 0 -> bindNil(r, r.head)
                       [] OTHER -> delayNil(r, t)
    IN CASE IsFV(m, t) -> bindNil(m, t)
         [] Tag(m, t) = "nil" -> m
         [] Tag(m, t) \in {"app", "susp"} /\ ~ConstHead(m, t) -> normal(Hnorm(m, t))
         [] OTHER -> Fail(m)

-----------------------------------------------------------------------------
(* Analysing: the get class.                                               *)

get_variable(m, x, a) == Copy(m, x, a)
init_variable(m, x, cy) == Write(m, x, Ref(Deref(m, cy)))
get_m_constant(m, x, c) == unifyConst(m, Deref(m, x), c)
get_p_constant(m, x, c) == unifyTConst(m, Deref(m, x), c)
get_integer(m, x, i) == unifyInt(m, Deref(m, x), i)
get_nil(m, x) == unifyNil(m, Deref(m, x))

ReadAt(m, args) == [m EXCEPT !.sreg = args, !.write = FALSE]
ReadTypesAt(m, env) == [m EXCEPT !.tysreg = env, !.tywrite = FALSE]

\* The structure of constant c over n arguments.
unifyStr(m, t, c, n) ==
    LET f == Deref(m, m.h[t].f)
        normal(r) ==
            CASE r.rig /\ (~HasHead(r, c) \/ r.numargs # r.numabs + n) -> Fail(r)
              [] r.rig /\ HasHead(r, c) /\ r.numargs = r.numabs + n ->
                   IF r.numabs = 0 THEN ReadAt(r, r.argvec) ELSE delayStr(r, t, c, n)
              [] ~r.rig /\ r.numargs # 0 -> delayStr(r, t, c, n)
              [] OTHER -> IF r.numabs = 0 /\ r.h[r.head].uc >= CstUniv[c]
                          THEN bindStr(r, r.head, c, n) ELSE Fail(r)
    IN CASE IsFV(m, t) -> IF m.h[t].uc >= CstUniv[c] THEN bindStr(m, t, c, n) ELSE Fail(m)
         [] ConstHead(m, t) ->
              IF m.h[f].ind = c /\ m.h[t].n = n THEN ReadAt(m, m.h[t].args) ELSE Fail(m)
         [] Tag(m, t) \in {"app", "lam", "susp"} /\ ~ConstHead(m, t) -> normal(Hnorm(m, t))
         [] OTHER -> Fail(m)

get_m_structure(m, x, c, n) == unifyStr(m, Deref(m, x), c, n)

\* With types; the test of the arguments against the abstractions is the other
\* way round.
unifyTStr(m, t, c, n) ==
    LET f == Deref(m, m.h[t].f)
        normal(r) ==
            CASE r.rig /\ (~HasHead(r, c) \/ r.numabs # r.numargs + n) -> Fail(r)
              [] r.rig /\ HasHead(r, c) /\ r.numabs = r.numargs + n ->
                   IF r.numabs = 0 THEN ReadTypesAt(ReadAt(r, r.argvec), r.h[r.head].ty)
                   ELSE delayTStr(r, t, c, n)
              [] ~r.rig /\ r.numargs # 0 -> delayTStr(r, t, c, n)
              [] OTHER -> IF r.h[r.head].uc >= CstUniv[c] THEN bindTStr(r, r.head, c, n)
                          ELSE Fail(r)
    IN CASE IsFV(m, t) -> IF m.h[t].uc >= CstUniv[c] THEN bindTStr(m, t, c, n) ELSE Fail(m)
         [] ConstHead(m, t) ->
              IF m.h[f].ind = c /\ m.h[t].n = n
              THEN ReadTypesAt(ReadAt(m, m.h[t].args), m.h[f].ty) ELSE Fail(m)
         [] Tag(m, t) \in {"app", "lam", "susp"} /\ ~ConstHead(m, t) -> normal(Hnorm(m, t))
         [] OTHER -> Fail(m)

get_p_structure(m, x, c, n) == unifyTStr(m, Deref(m, x), c, n)

unifyList(m, t) ==
    LET normal(r) == CASE r.rig -> IF r.cons THEN ReadAt(r, r.argvec) ELSE Fail(r)
                       [] ~r.rig /\ r.numargs = 0 -> bindCons(r, r.head)
                       [] OTHER -> delayCons(r, t)
    IN CASE IsFV(m, t) -> bindCons(m, t)
         [] Tag(m, t) = "cons" -> ReadAt(m, m.h[t].args)
         [] Tag(m, t) \in {"app", "susp"} /\ ~ConstHead(m, t) -> normal(Hnorm(m, t))
         [] OTHER -> Fail(m)

get_list(m, x) == unifyList(m, Deref(m, x))

-----------------------------------------------------------------------------
(* The unify class: the arguments of the structure.                        *)

unify_variable(m, x) ==
    IF m.write THEN SetS(Write(m, x, Ref(m.sreg)), Var(m.adj))
    ELSE NextS(IF IsFV(m, m.sreg) THEN Write(m, x, Ref(m.sreg)) ELSE Copy(m, x, m.sreg))

\* In write mode: x, y is the address of the value, t is it dereferenced.  The
\* occurs check is made as the value is written, except that an atom of the
\* stack or a register is moved to the heap by the local instructions.
MayStay(m, t) == Tag(m, t) = "cons" \/ ~NHeapAddr(m, t)
OccursChecked(m, t, local) == m.oc /\ (~local \/ MayStay(m, t))

\* keep tells that the register is updated with what the heap holds.
KeepValue(m, x, t, keep) ==
    IF keep THEN Write(m, x, IF Tag(m, t) = "cons" THEN m.h[t] ELSE Ref(t)) ELSE m

CheckValue(m, x, t, local, keep) ==
    bindSreg(KeepValue(m, x, t, keep), t, local /\ Tag(m, t) # "cons")

unify_value_t(m, x) == Copy(m, m.sreg, x)
unify_value_p(m, t) == Write(m, m.sreg, IF StackAddr(m, t) THEN m.h[t] ELSE Ref(t))

LocalValue(m, x, t, keep) ==
    LET now(n, c) == IF keep THEN Write(n, x, c) ELSE n
        low(n) == IF m.oc /\ m.h[t].uc > m.adj
                  THEN [ModVarUC(n, t, m.adj) EXCEPT !.bnd = TRUE] ELSE n
        moved(l) == Write(now(Copy(l, m.sreg, t), Ref(m.sreg)), t, Ref(m.sreg))
    IN CASE MayStay(m, t) -> Write(KeepValue(m, x, t, keep), m.sreg,
                                  IF Tag(m, t) = "cons" THEN m.h[t] ELSE Ref(t))
         [] ~MayStay(m, t) /\ IsConst(m, t) /\ m.oc /\ m.h[t].uc > m.adj -> Fail(m)
         [] ~MayStay(m, t) /\ IsFV(m, t) -> moved(low(TrailETerm(m, t)))
         [] OTHER -> now(Copy(m, m.sreg, t), m.h[t])

\* The universe of the constant is looked up for the occurs check only: the
\* cell gets what uc holds.
Checked(m, c) ==
    IF ~m.oc THEN m
    ELSE IF m.adj < CstUniv[c] THEN Fail([m EXCEPT !.uc = CstUniv[c]])
    ELSE [m EXCEPT !.uc = CstUniv[c]]

unify_m_constant(m, c) ==
    LET write(k) == IF k.fail THEN k ELSE SetS(k, Const(k.uc, c))
    IN IF m.write THEN write(Checked(m, c)) ELSE NextS(unifyConst(m, Deref(m, m.sreg), c))

unify_p_constant(m, c) ==
    LET set(p) == [SetS(p, Ref(p.rt)) EXCEPT !.tywrite = TRUE]
        write(k) == IF k.fail THEN k ELSE set(Push(k, TConst(k.uc, c, k.hreg + 3)))
    IN IF m.write THEN write(Checked(m, c)) ELSE NextS(unifyTConst(m, Deref(m, m.sreg), c))

unify_integer(m, i) ==
    IF m.write THEN SetS(m, IntTm(i)) ELSE NextS(unifyInt(m, Deref(m, m.sreg), i))

unify_nil(m) == IF m.write THEN SetS(m, Nil) ELSE NextS(unifyNil(m, Deref(m, m.sreg)))

-----------------------------------------------------------------------------
(* Higher-order and logical instructions.                                  *)

finish_unify(m) == PatternUnify(m)
head_normalize(m, x) == Hnorm(m, x)

incr_universe(m) == [m EXCEPT !.ucreg = @ + 1]
decr_universe(m) == [m EXCEPT !.ucreg = @ - 1]
set_univ_tag(m, y, c) == Write(m, y, Const(m.ucreg, c))
tag_exists_t(m, x) == PushRef(m, x, Var(m.ucreg))
tag_exists_p(m, y) == Write(m, y, Var(m.ucreg))
=============================================================================
