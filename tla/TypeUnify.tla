----------------------------- MODULE TypeUnify ------------------------------
(***************************************************************************)
(* Interpretive first-order unification of types (simulator/types.c) over  *)
(* the pairs on the part of the push-down list above tybot.                *)
(***************************************************************************)
EXTENDS Terms

\* The cells of one vector, or of two interleaved, pushed so that the first
\* is on top.
RECURSIVE PushTypesToPDL(_, _, _)
PushTypesToPDL(m, a, n) ==
    IF n = 0 THEN m ELSE PushTypesToPDL(PushPDL(m, Arg(a, n)), a, n - 1)

RECURSIVE PushPairsToPDL(_, _, _, _)
PushPairsToPDL(m, a, b, n) ==
    IF n = 0 THEN m
    ELSE PushPairsToPDL(PushPDL(PushPDL(m, Arg(a, n)), Arg(b, n)), a, b, n - 1)

FuncArgs(fargs) == fargs + 2

\* The occurs check of tyvbb in the types above bot.
PushArgTypes(p, c) == PushTypesToPDL(p, FuncArgs(c.fargs), p.h[c.fargs].n)

OccType(p, t, c) ==
    CASE c.tag = "tref" -> IF p.tyvbb = t THEN Fail(p) ELSE p
      [] c.tag = "sort" -> p
      [] c.tag = "str" -> PushArgTypes(p, c)
      [] c.tag = "arrow" -> PushTypesToPDL(p, c.args, 2)

OccTopType(m, t) == OccType(PopPDL(m), t, m.h[t])

RECURSIVE TypesOcc(_, _)
TypesOcc(m, bot) ==
    IF m.fail \/ Len(m.pdl) <= bot THEN m
    ELSE TypesOcc(OccTopType(m, TypeDeref(m, TopPDL(m))), bot)

\* The variable with the higher address is the one bound.
BindTypeVars(m, v, w) ==
    IF w < v THEN Write(TrailType(m, v), v, m.h[w])
    ELSE Write(TrailType(m, w), w, m.h[v])

BindChecked(o, v, t) == IF o.fail THEN o ELSE Write(TrailType(o, v), v, o.h[t])

BindType(m, v, t) ==
    BindChecked(TypesOcc(PushPDL([m EXCEPT !.tyvbb = v], t), Len(m.pdl)), v, t)

UnifyTypePair(p, t1, c1, t2, c2) ==
    CASE t1 = t2 -> p
      [] t1 # t2 /\ c1.tag = "tref" /\ c2.tag = "tref" -> BindTypeVars(p, t1, t2)
      [] t1 # t2 /\ (c1.tag = "tref") # (c2.tag = "tref") ->
           BindType(p, IF c1.tag = "tref" THEN t1 ELSE t2, IF c1.tag = "tref" THEN t2 ELSE t1)
      [] c1.tag = "sort" /\ c2.tag = "sort" -> IF c1.k = c2.k THEN p ELSE Fail(p)
      [] c1.tag = "arrow" /\ c2.tag = "arrow" -> PushPairsToPDL(p, c1.args, c2.args, 2)
      [] c1.tag = "str" /\ c2.tag = "str" ->
           IF p.h[c1.fargs].k = p.h[c2.fargs].k
           THEN PushPairsToPDL(p, FuncArgs(c1.fargs), FuncArgs(c2.fargs), p.h[c1.fargs].n)
           ELSE Fail(p)
      [] OTHER -> Fail(p)

UnifyTopTypes(m, t1, t2) == UnifyTypePair(PopPDL(PopPDL(m)), t1, m.h[t1], t2, m.h[t2])

RECURSIVE TypesUnify(_)
TypesUnify(m) ==
    IF m.fail \/ Len(m.pdl) <= m.tybot THEN m
    ELSE TypesUnify(UnifyTopTypes(m, TypeDeref(m, TopPDL(PopPDL(m))), TypeDeref(m, TopPDL(m))))

\* The occurs check of the compiled form: of the structure or arrow at tyvbb.
OccTypeC(p, c) ==
    CASE c.tag \in {"tref", "sort"} -> p
      [] c.tag = "str" -> IF p.tyvbb = c.fargs THEN Fail(p) ELSE PushArgTypes(p, c)
      [] c.tag = "arrow" -> IF p.tyvbb = c.args THEN Fail(p) ELSE PushTypesToPDL(p, c.args, 2)

RECURSIVE TypesOccC(_)
TypesOccC(m) ==
    IF m.fail \/ Len(m.pdl) <= m.tybot THEN m
    ELSE TypesOccC(OccTypeC(PopPDL(m), m.h[TypeDeref(m, TopPDL(m))]))

\* The type environments of two constants (hopu.c).
ConstTypesUnify(m, ty1, ty2, n) ==
    TypesUnify(PushPairsToPDL([m EXCEPT !.tybot = Len(m.pdl)], ty1, ty2, n))

\* What a handler that takes the failure as a difference makes of it.
ResetTypesPDL(m) == [m EXCEPT !.fail = FALSE, !.pdl = SubSeq(@, 1, m.tybot)]
=============================================================================
