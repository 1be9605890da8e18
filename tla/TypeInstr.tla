----------------------------- MODULE TypeInstr ------------------------------
(***************************************************************************)
(* The instructions that build types and unify them (simulator/siminstr.c, *)
(* "instructions for unifying and creating types").  Operands are          *)
(* addresses, as in TermInstr.  A type under construction is written at    *)
(* the heap top; in read mode tysreg is the next type to be matched.       *)
(***************************************************************************)
EXTENDS TermInstr

CONSTANT KstArity    \* the arity of every type constructor

PushFreeType(m) == Push(m, RefType(m.hreg))

\* The type at t, an atom, where a type is written next.
PushType(m, t) == Push(m, m.h[t])

-----------------------------------------------------------------------------
(* The put and set classes.                                                *)

put_type_variable_t(m, x, a) ==
    LET p == PushFreeType(m) IN Copy(Copy(p, x, p.rt), a, p.rt)
put_type_variable_p(m, y, a) == LET p == Write(m, y, RefType(y)) IN Copy(p, a, y)
put_type_value(m, x, a) == Copy(m, a, TypeDeref(m, x))

\* A free type variable off the heap is moved there.
MoveType(m, t) == LET p == PushFreeType(TrailType(m, t)) IN Write(p, t, RefType(p.rt))

put_type_unsafe_value(m, y, a) ==
    LET t == TypeDeref(m, y)
    IN IF Tag(m, t) = "tref" /\ InCurEnv(m, t) THEN Copy(MoveType(m, t), a, t)
       ELSE Copy(m, a, t)

put_type_const(m, a, k) == Write(m, a, SortType(k))
put_type_structure(m, a, k) ==
    LET p == Push(m, StrFuncType(k, KstArity[k])) IN Write(p, a, StrType(p.rt))
put_type_arrow(m, a) == Write(m, a, ArrowType(m.hreg))

set_type_variable(m, x) == LET p == PushFreeType(m) IN Copy(p, x, p.rt)
set_type_value(m, x) == PushType(m, TypeDeref(m, x))
set_type_local_value(m, x) ==
    LET t == TypeDeref(m, x)
    IN IF Tag(m, t) = "tref" /\ StackAddr(m, t) THEN MoveType(m, t) ELSE PushType(m, t)
set_type_constant(m, k) == Push(m, SortType(k))

-----------------------------------------------------------------------------
(* The get class.                                                          *)

UnifyTypes(m, a, b) ==
    TypesUnify(PushPDL(PushPDL([m EXCEPT !.tybot = Len(m.pdl)], a), b))

get_type_variable(m, x, a) == Copy(m, x, a)
get_type_value(m, x, a) == UnifyTypes(m, x, a)

UnifySort(m, t, k) ==
    CASE Tag(m, t) = "tref" -> Write(TrailType(m, t), t, SortType(k))
      [] Tag(m, t) = "sort" /\ m.h[t].k = k -> m
      [] OTHER -> Fail(m)

get_type_constant(m, x, k) == UnifySort(m, TypeDeref(m, x), k)

\* Type write mode, for the structure or arrow that is written at args.
WriteTypes(m, args) == [m EXCEPT !.tyvbb = args, !.tywrite = TRUE]

get_type_structure(m, x, k) ==
    LET t == TypeDeref(m, x)
        c == m.h[t]
        bound == Write(TrailType(m, t), t, StrType(m.hreg))
    IN CASE c.tag = "tref" ->
              WriteTypes(Push(bound, StrFuncType(k, KstArity[k])), m.hreg)
         [] c.tag = "str" /\ m.h[c.fargs].k = k -> ReadTypesAt(m, FuncArgs(c.fargs))
         [] OTHER -> Fail(m)

get_type_arrow(m, x) ==
    LET t == TypeDeref(m, x)
        c == m.h[t]
    IN CASE c.tag = "tref" ->
              WriteTypes(Write(TrailType(m, t), t, ArrowType(m.hreg)), m.hreg)
         [] c.tag = "arrow" -> ReadTypesAt(m, c.args)
         [] OTHER -> Fail(m)

-----------------------------------------------------------------------------
(* The unify class.                                                        *)

NextType(m) == [m EXCEPT !.tysreg = @ + 2]

\* Fails where the type being written occurs in the type at t.
OccursC(m, t) == TypesOccC(PushPDL([m EXCEPT !.tybot = Len(m.pdl)], t))

ReadTypeValue(m, x) == NextType(UnifyTypes(m, TypeDeref(m, x), m.tysreg))

unify_type_variable(m, x) ==
    IF m.tywrite THEN set_type_variable(m, x) ELSE NextType(Copy(m, x, m.tysreg))

unify_type_value(m, x) ==
    LET write(t) == PushType(OccursC(m, t), t)
    IN IF m.tywrite THEN write(TypeDeref(m, x)) ELSE ReadTypeValue(m, x)

unify_envty_value(m, x) ==
    IF m.tywrite THEN set_type_value(m, x) ELSE ReadTypeValue(m, x)

\* The register form also updates the register.
WriteLocal(m, x, keep) ==
    LET kept(moved, t) == IF keep THEN Copy(moved, x, t) ELSE moved
        of(t) == IF Tag(m, t) = "tref" /\ StackAddr(m, t) THEN kept(MoveType(m, t), t)
                 ELSE PushType(m, t)
    IN of(TypeDeref(m, x))

LocalTypeValue(m, x, keep) ==
    LET of(t) == IF Tag(m, t) = "tref" THEN WriteLocal(m, x, keep)
                 ELSE PushType(OccursC(m, t), t)
    IN IF m.tywrite THEN of(TypeDeref(m, x)) ELSE ReadTypeValue(m, x)

unify_type_local_value_t(m, x) == LocalTypeValue(m, x, TRUE)
unify_type_local_value_p(m, y) == LocalTypeValue(m, y, FALSE)

unify_envty_local_value_t(m, x) ==
    IF m.tywrite THEN WriteLocal(m, x, TRUE) ELSE ReadTypeValue(m, x)
unify_envty_local_value_p(m, y) ==
    IF m.tywrite THEN WriteLocal(m, y, FALSE) ELSE ReadTypeValue(m, y)

unify_type_constant(m, k) ==
    IF m.tywrite THEN set_type_constant(m, k)
    ELSE NextType(UnifySort(m, TypeDeref(m, m.tysreg), k))
=============================================================================
