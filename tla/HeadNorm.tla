------------------------------ MODULE HeadNorm ------------------------------
(***************************************************************************)
(* Head normalisation, head normalisation with occurs check and full       *)
(* normalisation (simulator/hnorm.c, hnormlocal.c).  A term is normalised  *)
(* in the implicit environment ol, nl, env; [|t, ol, nl, env|] is the      *)
(* suspension of a substitution over t.  mode tells the three copies of    *)
(* the routines apart: "hn", "occ", "ln".                                  *)
(***************************************************************************)
EXTENDS Terms

SetEnv(m, o, n, e) == [m EXCEPT !.ol = o, !.nl = n, !.env = e]
SetEmptyEnv(m) == SetEnv(m, 0, 0, NULL)
EmptyEnv(m) == m.ol = 0 /\ m.nl = 0

InitRegs(m) == [m EXCEPT !.numabs = 0, !.numargs = 0, !.head = NULL, !.argvec = NULL]
SetRegsCons(m, t) == [m EXCEPT !.cons = TRUE, !.rig = TRUE, !.head = t, !.rt = t]
SetRegsRig(m, t) == [m EXCEPT !.cons = FALSE, !.rig = TRUE, !.head = t, !.rt = t]
SetRegsFlex(m, t) == [m EXCEPT !.cons = FALSE, !.rig = FALSE, !.head = t, !.rt = t]

UpdateToRef(m, t, target) == Write(TrailHTerm(m, t), t, Ref(target))

-----------------------------------------------------------------------------
(* Suspensions evaluated eagerly where their result is known at once.      *)

PushSuspOnLoc(m, t, o, n, e) == [Write(m, m.sp, Susp(o, n, t, e)) EXCEPT !.sp = @ + 4]

\* A term as an argument: an atom is copied into the vector, except for a
\* variable and a constant with types.
AtomAsArg(m, t, loc) ==
    IF IsFV(m, t) \/ (IsConst(m, t) /\ IsTConst(m, t)) THEN Write(m, loc, Ref(t))
    ELSE Write(m, loc, m.h[t])

\* [|t, 0, n, nil|] as the term of an environment item.  Here and below t is
\* dereferenced.
RenumberAsEnv(m, t, n) ==
    LET c == m.h[t]
    IN CASE c.tag = "bvar" -> Push(m, BV(c.ind + n))
         [] c.tag \in AtomicTags \ {"bvar"} -> Ret(m, t)
         [] c.tag \in {"lam", "cons", "app"} ->
              IF n = 0 THEN Ret(m, t) ELSE Push(m, Susp(0, n, t, NULL))
         [] c.tag = "susp" ->
              IF n = 0 THEN Ret(m, t) ELSE Push(m, Susp(c.ol, c.nl + n, t, c.env))

\* [|t, 0, n, nil|] as an argument at loc.
RenumberAsArg(m, t, n, loc) ==
    LET c == m.h[t]
    IN CASE c.tag = "bvar" -> Write(m, loc, BV(c.ind + n))
         [] c.tag \in AtomicTags \ {"bvar"} -> AtomAsArg(m, t, loc)
         [] c.tag \in {"lam", "cons", "app"} ->
              IF n = 0 THEN Write(m, loc, Ref(t))
              ELSE PushSuspOnLoc(Write(m, loc, Ref(m.sp)), t, 0, n, NULL)
         [] c.tag = "susp" ->
              IF n = 0 THEN Write(m, loc, Ref(t))
              ELSE PushSuspOnLoc(Write(m, loc, Ref(m.sp)),
                                 Deref(m, c.t), c.ol, c.nl + n, c.env)

ItemAsEnv(m, item, n) ==
    IF item.tag = "@" THEN Push(m, BV(n - item.l))
    ELSE RenumberAsEnv(m, Deref(m, item.t), n - item.l)

BVSuspAsEnv(m, i, o, n, e) ==
    IF i > o THEN Push(m, BV(i - o + n)) ELSE ItemAsEnv(m, m.h[EnvListNth(m, e, i)], n)

ItemAsArg(m, item, n, loc) ==
    IF item.tag = "@" THEN Write(m, loc, BV(n - item.l))
    ELSE RenumberAsArg(m, Deref(m, item.t), n - item.l, loc)

BVSuspAsArg(m, i, o, n, e, loc) ==
    IF i > o THEN Write(m, loc, BV(i - o + n))
    ELSE ItemAsArg(m, m.h[EnvListNth(m, e, i)], n, loc)

\* [|t, o, n, e|] as the term of an environment item.
SuspAsEnv(m, t, o, n, e) ==
    LET c == m.h[t]
    IN CASE c.tag = "bvar" -> BVSuspAsEnv(m, c.ind, o, n, e)
         [] c.tag \in AtomicTags \ {"bvar"} -> Ret(m, t)
         [] OTHER -> Push(m, Susp(o, n, t, e))

\* [|t, o, n, e|] as an argument at loc; rt tells whether the vector changed.
SuspAsArg(m, t, o, n, e, loc) ==
    LET c == m.h[t]
    IN CASE c.tag = "bvar" -> Ret(BVSuspAsArg(m, c.ind, o, n, e, loc), TRUE)
         [] c.tag \in AtomicTags \ {"bvar"} -> AtomAsArg(m, t, loc)
         [] OTHER -> Ret(PushSuspOnLoc(Write(m, loc, Ref(m.sp)), t, o, n, e), TRUE)

RECURSIVE PushSuspOverArgs(_, _, _, _, _, _, _)
PushSuspOverArgs(m, argvec, arity, o, n, e, loc) ==
    IF arity = 0 THEN m
    ELSE PushSuspOverArgs(SuspAsArg(m, Deref(m, argvec), o, n, e, loc),
                          argvec + 2, arity - 1, o, n, e, loc + 2)

-----------------------------------------------------------------------------
(* Argument vectors; rt tells whether a new vector was made.               *)

\* The cells of a vector for a copy of it: a variable is referred to.
CopiedArgs(m, argvec, n) ==
    [i \in 1..n |-> LET a == Arg(argvec, i) IN IF IsFV(m, a) THEN Ref(a) ELSE m.h[a]]

CopyArgs(m, argvec, n) == PushVec(m, CopiedArgs(m, argvec, n))

\* Fault: the arguments met last come first.
MakeArgvecEmpEnvFault(m, argvec, arity) ==
    IF m.numargs = 0
    THEN [m EXCEPT !.argvec = argvec, !.numargs = arity, !.rt = FALSE]
    ELSE [CopyArgs(CopyArgs(m, argvec, arity), m.argvec, m.numargs) EXCEPT
             !.argvec = m.hreg, !.numargs = arity + m.numargs, !.rt = TRUE]

MakeArgvecEmpEnv(m, argvec, arity) ==
    IF m.numargs = 0
    THEN [m EXCEPT !.argvec = argvec, !.numargs = arity, !.rt = FALSE]
    ELSE [CopyArgs(CopyArgs(m, m.argvec, m.numargs), argvec, arity) EXCEPT
             !.argvec = m.hreg, !.numargs = arity + m.numargs, !.rt = TRUE]

\* The suspensions of arity arguments, written at the heap top of m, where the
\* vector starts at vec; without a change the old vector serves.
GivenArgs(made, argvec, arity, vec, total) ==
    IF made.rt THEN [made EXCEPT !.hreg = made.sp, !.argvec = vec, !.numargs = total]
    ELSE [made EXCEPT !.argvec = argvec, !.numargs = arity]

SuspendedArgs(m, argvec, arity, o, n, e, vec, total) ==
    GivenArgs(PushSuspOverArgs([m EXCEPT !.sp = Arg(m.hreg, arity + 1)],
                               argvec, arity, o, n, e, m.hreg), argvec, arity, vec, total)

MakeArgvec(m, argvec, arity, o, n, e) ==
    SuspendedArgs(Ret(CopyArgs(m, m.argvec, m.numargs), m.numargs # 0),
                  argvec, arity, o, n, e, m.hreg, arity + m.numargs)

MakeConsArgvec(m, argvec, o, n, e) ==
    SuspendedArgs(Ret(m, FALSE), argvec, 2, o, n, e, m.hreg, 2)

-----------------------------------------------------------------------------
(* Environments.                                                           *)

\* @(nl+n-1) :: ... :: @nl :: env
AddNDummyEnv(m, n) ==
    LET at(i) == m.hreg + 2 * i
    IN [m EXCEPT !.h = [a \in {at(i) : i \in 0..n-1} |->
                          DummyEnv(m.nl + (a - m.hreg) \div 2,
                                   IF a = m.hreg THEN m.env ELSE a - 2)] @@ @,
                 !.hreg = at(n), !.rt = at(n - 1)]

\* The arguments paired with the current nl, in the environment o, k, e.
PairAt(s, at, last) == Write(s, at, PairEnv(s.nl, s.rt, last))

RECURSIVE Pairs(_, _, _, _, _, _, _, _)
Pairs(m, at, argvec, o, k, e, n, last) ==
    IF n = 0 THEN Ret(m, last)
    ELSE Pairs(PairAt(SuspAsEnv(m, Deref(m, argvec), o, k, e), at, last), at + 3,
               argvec + 2, o, k, e, n - 1, at)

AddNPair(m, argvec, o, k, e, n) ==
    Pairs([m EXCEPT !.hreg = @ + 3 * n], m.hreg, argvec, o, k, e, n, m.env)

AddNPairEmpEnv(m, argvec, n) ==
    LET at(i) == m.hreg + 3 * i
    IN [m EXCEPT !.h = [a \in {at(i) : i \in 0..n-1} |->
                          PairEnv(0, Arg(argvec, (a - m.hreg) \div 3 + 1),
                                  IF a = m.hreg THEN m.env ELSE a - 3)] @@ @,
                 !.hreg = at(n), !.rt = at(n - 1)]

\* [|lam(n, t), ol, nl, env|] -> lam(n, [|t, ol+n, nl+n, @(nl+n-1)::..::env|])
SuspInEnv(d, t, o, n) == SuspAsEnv(d, Deref(d, t), o, n, d.rt)
PushLam(b, n) == Push(b, Lam(n, b.rt))

PushSuspOverLam(m, lam) ==
    LET n == m.h[lam].n
    IN [PushLam(SuspInEnv(AddNDummyEnv(m, n), m.h[lam].body, m.ol + n, m.nl + n), n) EXCEPT
           !.hreg = m.hreg + 4 + 2 * n]

-----------------------------------------------------------------------------
(* Normalising.  whnf asks for the weak head normal form only: then an     *)
(* abstraction is returned as it is, with its environment in ol, nl, env.  *)

RECURSIVE Dispatch(_, _, _, _)

\* The term and the environment that rt points at.
NormRt(m, whnf, mode) == Dispatch(m, m.rt, whnf, mode)
InEnv(d, o, n) == SetEnv(d, o, n, d.rt)

RigidBV(m) == SetEmptyEnv(SetRegsRig(m, m.rt))

\* The term s of an environment item, k abstractions further in.
\* Fault: the abstractions between are not counted.
NormItemFault(m, s, k, whnf, mode) == Dispatch(SetEnv(m, 0, 0, NULL), s, whnf, mode)

NormItem(m, s, k, whnf, mode) ==
    IF k # 0 /\ IsSusp(m, s)
    THEN Dispatch(SetEnv(m, m.h[s].ol, m.h[s].nl + k, m.h[s].env), m.h[s].t, whnf, mode)
    ELSE Dispatch(SetEnv(m, 0, k, NULL), s, whnf, mode)

NormInEnv(m, item, whnf, mode) ==
    IF item.tag = "@" THEN RigidBV(Push(m, BV(m.nl - item.l)))
    ELSE NormItem(m, Deref(m, item.t), m.nl - item.l, whnf, mode)

NormBV(m, t, whnf, mode) ==
    LET i == m.h[t].ind
    IN CASE EmptyEnv(m) -> SetRegsRig(m, t)
         [] ~EmptyEnv(m) /\ i > m.ol -> RigidBV(Push(m, BV(i - m.ol + m.nl)))
         [] OTHER -> NormInEnv(m, m.h[EnvListNth(m, m.env, i)], whnf, mode)

NormLam(m, t, whnf, mode) ==
    LET n == m.h[t].n
    IN CASE whnf -> Ret(m, t)
         [] ~whnf /\ EmptyEnv(m) ->
              [Dispatch(m, m.h[t].body, FALSE, mode) EXCEPT !.rt = t, !.numabs = @ + n]
         [] OTHER -> [PushLam(Dispatch(InEnv(AddNDummyEnv(m, n), m.ol + n, m.nl + n),
                                      m.h[t].body, FALSE, mode), n) EXCEPT !.numabs = @ + n]

\* The arguments of a list cell or an application with its own registers kept.
KeepRegs(m, r) == [r EXCEPT !.head = m.head, !.argvec = m.argvec, !.numabs = m.numabs,
                            !.numargs = m.numargs, !.rig = m.rig, !.cons = m.cons]

RECURSIVE LnormArgs(_, _, _)
LnormArgs(m, argvec, arity) ==
    IF arity = 0 THEN m
    ELSE LnormArgs(Dispatch(InitRegs(m), argvec, FALSE, "ln"), argvec + 2, arity - 1)

\* Fault: the first argument is forgotten.
LnormArgvecEmpEnvFault(m, argvec, arity) == KeepRegs(m, LnormArgs(m, argvec + 2, arity - 1))

LnormArgvecEmpEnv(m, argvec, arity) == KeepRegs(m, LnormArgs(m, argvec, arity))

RefAt(a, at) == Write(a, at, Ref(a.rt))

RECURSIVE LnormArgsInto(_, _, _, _, _, _, _)
LnormArgsInto(m, at, argvec, arity, o, n, e) ==
    IF arity = 0 THEN m
    ELSE LnormArgsInto(RefAt(Dispatch(SetEnv(InitRegs(m), o, n, e), argvec, FALSE, "ln"), at),
                       at + 2, argvec + 2, arity - 1, o, n, e)

LnormArgvec(m, argvec, arity, o, n, e) ==
    KeepRegs(m, LnormArgsInto([m EXCEPT !.hreg = Arg(@, arity + 1)], m.hreg,
                              argvec, arity, o, n, e))

MakeArgvecLnorm(m, argvec, arity, o, n, e) ==
    [LnormArgvec(CopyArgs(m, m.argvec, m.numargs), argvec, arity, o, n, e) EXCEPT
        !.argvec = m.hreg, !.numargs = arity + m.numargs, !.rt = TRUE]

MakeArgvecEmpEnvLnorm(m, argvec, arity) ==
    MakeArgvecEmpEnv(LnormArgvecEmpEnv(m, argvec, arity), argvec, arity)

ConsRegs(r) == SetRegsCons(SetEmptyEnv(r), r.rt)
RemadeCons(made, t) == IF made.rt THEN Push(made, Cons(made.argvec)) ELSE Ret(made, t)

HnormCons(m, t) ==
    IF EmptyEnv(m)
    THEN SetRegsCons([m EXCEPT !.argvec = m.h[t].args, !.numargs = 2], t)
    ELSE ConsRegs(RemadeCons(MakeConsArgvec(m, m.h[t].args, m.ol, m.nl, m.env), t))

\* The list cell, the application that a variable is being bound to.
ConsOcc(m, t) == m.h[t].args = m.vbb
AppOcc(m, t) == t = m.vbb

LnormCons(m, t) ==
    LET args == m.h[t].args
    IN IF EmptyEnv(m)
       THEN SetRegsCons([LnormArgvecEmpEnv(m, args, 2) EXCEPT !.argvec = args, !.numargs = 2], t)
       ELSE ConsRegs([Push(LnormArgvec(m, args, 2, m.ol, m.nl, m.env), Cons(m.hreg)) EXCEPT
                         !.argvec = m.hreg, !.numargs = 2])

\* Contracts the redexes at the head of an application of the function rt to
\* the arity arguments at argvec; top is the environment the application was
\* met in.  The function that remains is returned, with the arguments it still has in
\* eh and their address in ea.
WithPairs(m, argvec, k, top) ==
    InEnv(IF EmptyEnv(top) THEN AddNPairEmpEnv(m, argvec, k)
          ELSE AddNPair(m, argvec, top.ol, top.nl, top.env, k), m.ol + k, m.nl)

LamRest(m, lam, arity) ==
    IF arity >= lam.n THEN Ret(m, lam.body) ELSE Push(m, Lam(lam.n - arity, lam.body))

RECURSIVE Contract(_, _, _, _, _, _)
Contract(m, argvec, arity, top, whnf, mode) ==
    IF m.fail \/ arity = 0 \/ ~IsLam(m, m.rt) THEN [m EXCEPT !.eh = arity, !.ea = argvec]
    ELSE LET lam == m.h[m.rt]
             k == IF arity <= lam.n THEN arity ELSE lam.n
         IN Contract(NormRt(LamRest(WithPairs(m, argvec, k, top), lam, arity),
                            whnf \/ arity > lam.n, mode),
                     Arg(argvec, k + 1), arity - k, top, whnf, mode)

\* The arguments of the application met in m, which c has left.
NormArgvec(c, m, mode) ==
    CASE mode = "ln" /\ EmptyEnv(m) -> MakeArgvecEmpEnvLnorm(c, c.ea, c.eh)
      [] mode = "ln" /\ ~EmptyEnv(m) -> MakeArgvecLnorm(c, c.ea, c.eh, m.ol, m.nl, m.env)
      [] mode # "ln" /\ EmptyEnv(m) -> MakeArgvecEmpEnv(c, c.ea, c.eh)
      [] OTHER -> MakeArgvec(c, c.ea, c.eh, m.ol, m.nl, m.env)

\* The application that stays, with the arguments made; same: with its function.
UpdateIf(old, new, t) == IF old THEN UpdateToRef(new, t, new.rt) ELSE new

RemadeApp(made, m, t, same) ==
    IF ~made.rt /\ same THEN Ret(made, t)
    ELSE UpdateIf(EmptyEnv(m), Push(made, App(made.numargs, made.head, made.argvec)), t)

ContractedApp(c, m, t, mode) ==
    CASE c.fail -> c
      [] ~c.fail /\ c.eh = 0 ->
           UpdateIf(EmptyEnv(m) /\ EmptyEnv(c), c, t)
      [] OTHER -> RemadeApp(NormArgvec(c, m, mode), m, t,
                            c.eh = m.h[t].n /\ c.rt = m.h[t].f)

NormApp(m, t, whnf, mode) ==
    ContractedApp(Contract(Dispatch(m, m.h[t].f, TRUE, mode), m.h[t].args, m.h[t].n, m,
                           whnf, mode), m, t, mode)

\* The suspended term, normalised in s, in the environment of m.
OverLam(s, t) == IF EmptyEnv(s) THEN UpdateToRef(s, t, s.rt) ELSE PushSuspOverLam(s, s.rt)

NormOuter(s, m, t, whnf, mode) ==
    CASE s.fail -> s
      [] ~s.fail /\ EmptyEnv(m) -> UpdateIf(EmptyEnv(s), s, t)
      [] OTHER -> NormRt(InitRegs(SetEnv(OverLam(s, t), m.ol, m.nl, m.env)), whnf, mode)

NormSusp(m, t, whnf, mode) ==
    LET c == m.h[t]
    IN NormOuter(Dispatch(SetEnv(m, c.ol, c.nl, c.env), c.t, whnf,
                          IF mode = "ln" /\ ~EmptyEnv(m) THEN "hn" ELSE mode),
                 m, t, whnf, mode)

-----------------------------------------------------------------------------
(* The dispatcher.  The occurs check and the full normalisation differ at  *)
(* list cells, at applications and at suspensions.                         *)

NormCons(m, t, mode) ==
    CASE mode = "ln" -> LnormCons(m, t)
      [] mode = "occ" /\ ConsOcc(m, t) -> Fail(m)
      [] OTHER -> HnormCons(m, t)

NormTerm(m, t, whnf, mode) ==
    LET tag == Tag(m, t)
    IN CASE tag = "bvar" -> NormBV(m, t, whnf, mode)
         [] tag = "cons" -> NormCons(m, t, mode)
         [] tag = "lam" -> NormLam(m, t, whnf, mode)
         [] tag = "app" -> IF mode = "occ" /\ AppOcc(m, t) THEN Fail(m)
                           ELSE NormApp(m, t, whnf, mode)
         [] tag = "susp" -> NormSusp(m, t, whnf, mode)
         [] tag = "var" -> SetRegsFlex(SetEmptyEnv(m), t)
         [] OTHER -> SetRegsRig(SetEmptyEnv(m), t)

Dispatch(m, t, whnf, mode) ==
    IF m.fail THEN m ELSE NormTerm(m, Deref(m, t), whnf, mode)

NormalForm(m, t, mode) == Dispatch(InitRegs(SetEmptyEnv(m)), t, FALSE, mode)

Hnorm(m, t) == NormalForm(m, t, "hn")
HnormOcc(m, t) == NormalForm(m, t, "occ")
Lnorm(m, t) == NormalForm(m, t, "ln")
=============================================================================
