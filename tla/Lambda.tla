------------------------------- MODULE Lambda -------------------------------
(***************************************************************************)
(* What a term on the heap denotes: a lambda term with de Bruijn indices,  *)
(* a tree of                                                               *)
(*   <<"v", a>>         the free variable at address a                     *)
(*   <<"c", ind, tys>>  a constant                                         *)
(*   <<"k", x>>         nil or the list constructor                         *)
(*   <<"i", n>>, <<"r", x>>, <<"s", cs>>, <<"st", id>>                      *)
(*                      an integer, a real, a string, a stream              *)
(*   <<"b", i>>, <<"l", t>>, <<"a", t, u>>                                 *)
(* The reference against which the destructive routines are checked: a     *)
(* suspension is read by the meaning of its environment (Nadathur,         *)
(* "A notation for lambda terms": dataformats.h), beta and eta conversion  *)
(* are those of the lambda calculus.                                       *)
(***************************************************************************)
EXTENDS Terms

V(a) == <<"v", a>>
B(i) == <<"b", i>>
L(t) == <<"l", t>>
A(t, u) == <<"a", t, u>>

RECURSIVE Lams(_, _)
Lams(n, t) == IF n <= 0 THEN t ELSE L(Lams(n - 1, t))

RECURSIVE Apply(_, _)
Apply(t, args) == IF args = <<>> THEN t ELSE Apply(A(t, args[1]), Tail(args))

-----------------------------------------------------------------------------
(* The lambda calculus.                                                    *)

\* The indices above d moved by k.
RECURSIVE Shift(_, _, _)
Shift(t, k, d) ==
    CASE t[1] = "b" -> IF t[2] > d THEN B(t[2] + k) ELSE t
      [] t[1] = "l" -> L(Shift(t[2], k, d + 1))
      [] t[1] = "a" -> A(Shift(t[2], k, d), Shift(t[3], k, d))
      [] OTHER -> t

\* u for index d in t, whose binder goes away.
RECURSIVE Subst(_, _, _)
Subst(t, u, d) ==
    CASE t[1] = "b" -> IF t[2] = d THEN Shift(u, d - 1, 0)
                       ELSE IF t[2] > d THEN B(t[2] - 1) ELSE t
      [] t[1] = "l" -> L(Subst(t[2], u, d + 1))
      [] t[1] = "a" -> A(Subst(t[2], u, d), Subst(t[3], u, d))
      [] OTHER -> t

RECURSIVE Occurs(_, _)
Occurs(t, d) ==
    CASE t[1] = "b" -> t[2] = d
      [] t[1] = "l" -> Occurs(t[2], d + 1)
      [] t[1] = "a" -> Occurs(t[2], d) \/ Occurs(t[3], d)
      [] OTHER -> FALSE

Stuck == <<"k", "no normal form">>

\* The beta normal, eta contracted form, found in n contractions on a path.
RECURSIVE Normal(_, _)
Eta(t) ==
    IF t[1] = "a" /\ t[3] = B(1) /\ ~Occurs(t[2], 1) THEN Shift(t[2], -1, 0) ELSE L(t)
ApplyNormal(f, u, n) == IF f[1] = "l" THEN Normal(Subst(f[2], u, 1), n - 1) ELSE A(f, u)
Normal(t, n) ==
    CASE n = 0 -> Stuck
      [] n > 0 /\ t[1] = "l" -> Eta(Normal(t[2], n))
      [] n > 0 /\ t[1] = "a" -> ApplyNormal(Normal(t[2], n), Normal(t[3], n), n)
      [] OTHER -> t

\* Values for variables and type variables.
RECURSIVE InstantiateType(_, _)
InstantiateType(ty, s) ==
    CASE ty[1] = "tv" -> IF ty[2] \in DOMAIN s THEN s[ty[2]] ELSE ty
      [] ty[1] = "f" -> <<"f", ty[2], [i \in DOMAIN ty[3] |-> InstantiateType(ty[3][i], s)]>>
      [] ty[1] = "->" -> <<"->", InstantiateType(ty[2], s), InstantiateType(ty[3], s)>>
      [] OTHER -> ty

RECURSIVE Instantiate(_, _)
Instantiate(t, s) ==
    CASE t[1] = "v" -> IF t[2] \in DOMAIN s THEN s[t[2]] ELSE t
      [] t[1] = "c" -> <<"c", t[2], [i \in DOMAIN t[3] |-> InstantiateType(t[3][i], s)]>>
      [] t[1] = "l" -> L(Instantiate(t[2], s))
      [] t[1] = "a" -> A(Instantiate(t[2], s), Instantiate(t[3], s))
      [] OTHER -> t

RECURSIVE TypeVarsOf(_)
TypeVarsOf(ty) ==
    CASE ty[1] = "tv" -> {ty[2]}
      [] ty[1] = "f" -> UNION {TypeVarsOf(ty[3][i]) : i \in DOMAIN ty[3]}
      [] ty[1] = "->" -> TypeVarsOf(ty[2]) \cup TypeVarsOf(ty[3])
      [] OTHER -> {}

RECURSIVE Atoms(_)
Atoms(t) == CASE t[1] = "l" -> Atoms(t[2])
              [] t[1] = "a" -> Atoms(t[2]) \cup Atoms(t[3])
              [] OTHER -> {t}

-----------------------------------------------------------------------------
(* Reading the heap.                                                       *)

Depth == 60    \* objects on a path through the heap: more is a cycle

\* The addresses an object refers to.
Succ(c) ==
    CASE c.tag \in {"ref", "tref"} -> {c.to}
      [] c.tag = "cons" -> {Arg(c.args, 1), Arg(c.args, 2)}
      [] c.tag = "lam" -> {c.body}
      [] c.tag = "string" -> {c.data}
      [] c.tag = "app" -> {c.f} \cup {Arg(c.args, i) : i \in 1..c.n}
      [] c.tag = "susp" -> {c.t} \cup ({c.env} \ {NULL})
      [] c.tag = "@" -> {c.rest} \ {NULL}
      [] c.tag = "pair" -> {c.t} \cup ({c.rest} \ {NULL})
      [] OTHER -> {}

RECURSIVE EnvLen(_, _)
EnvLen(m, e) == IF e = NULL THEN 0 ELSE 1 + EnvLen(m, m.h[e].rest)

Kind(m, a) == IF a \notin DOMAIN m.h THEN "none"
              ELSE IF m.h[a].tag \in TermTags THEN "term"
              ELSE IF m.h[a].tag \in {"@", "pair"} THEN "env"
              ELSE IF m.h[a].tag = "strdata" THEN "chars" ELSE "type"

\* The objects reached from the term at a are live, of the right category and
\* not on a cycle, and an environment has as many items as its suspension says.
RECURSIVE Sound(_, _, _)
Sound(m, a, d) ==
    /\ d > 0
    /\ a \in DOMAIN m.h
    /\ a < StackBeg => a < m.hreg
    /\ \A b \in Succ(m.h[a]) : Sound(m, b, d - 1)
    /\ LET c == m.h[a]
       IN CASE c.tag = "susp" -> c.env # NULL => Kind(m, c.env) = "env"
            [] c.tag \in {"@", "pair"} -> c.rest # NULL => Kind(m, c.rest) = "env"
            [] c.tag = "ref" -> Kind(m, c.to) = "term"
            [] c.tag = "string" -> Kind(m, c.data) = "chars"
            [] OTHER -> TRUE
    /\ m.h[a].tag = "susp" => EnvLen(m, m.h[a].env) = m.h[a].ol

WellFormed(m, a) == Sound(m, a, Depth) /\ Kind(m, a) = "term"

\* The types of a constant.
RECURSIVE ReadType(_, _)
ReadType(m, a) ==
    LET t == TypeDeref(m, a)
        c == m.h[t]
    IN CASE c.tag = "tref" -> <<"tv", t>>
         [] c.tag = "sort" -> <<"s", c.k>>
         [] c.tag = "arrow" -> <<"->", ReadType(m, c.args), ReadType(m, c.args + 2)>>
         [] c.tag = "str" -> <<"f", m.h[c.fargs].k,
                               [i \in 1..m.h[c.fargs].n |-> ReadType(m, Arg(c.fargs, i + 1))]>>

\* The term at a.  An index is looked up in the environment: beyond it, it is
\* moved from the embedding level ol to nl; a dummy item stands for a binder
\* that is still there, a pair for a term moved to the new embedding level.
RECURSIVE Read(_, _), Suspend(_, _, _, _)
Suspend(m, t, s, d) ==
    CASE t[1] = "b" ->
           LET i == t[2] - d
               item == m.h[EnvListNth(m, s.env, i)]
           IN IF i <= 0 THEN t
              ELSE IF i > s.ol THEN B(i - s.ol + s.nl + d)
              ELSE IF item.tag = "@" THEN B(s.nl - item.l + d)
              ELSE Shift(Read(m, item.t), s.nl - item.l + d, 0)
      [] t[1] = "l" -> L(Suspend(m, t[2], s, d + 1))
      [] t[1] = "a" -> A(Suspend(m, t[2], s, d), Suspend(m, t[3], s, d))
      [] OTHER -> t

Read(m, a) ==
    LET c == m.h[a]
    IN CASE c.tag = "var" -> V(a)
         [] c.tag = "const" ->
              <<"c", c.ind, IF c.ty = NULL THEN <<>> ELSE <<ReadType(m, c.ty)>>>>
         [] c.tag = "nil" -> <<"k", "nil">>
         [] c.tag = "int" -> <<"i", c.val>>
         [] c.tag = "float" -> <<"r", c.val>>
         [] c.tag = "string" -> <<"s", m.h[c.data].chars>>
         [] c.tag = "stream" -> <<"st", c.id>>
         [] c.tag = "bvar" -> B(c.ind)
         [] c.tag = "ref" -> Read(m, c.to)
         [] c.tag = "cons" -> Apply(<<"k", "cons">>, <<Read(m, c.args), Read(m, c.args + 2)>>)
         [] c.tag = "lam" -> Lams(c.n, Read(m, c.body))
         [] c.tag = "app" -> Apply(Read(m, c.f), [i \in 1..c.n |-> Read(m, Arg(c.args, i))])
         [] c.tag = "susp" -> Suspend(m, Read(m, c.t), c, 0)

\* The meaning of the term at a; Stuck if it has none.
Meaning(m, a) == IF WellFormed(m, a) THEN Normal(Read(m, a), 30) ELSE Stuck
=============================================================================
