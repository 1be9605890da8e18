------------------------------- MODULE Terms --------------------------------
(***************************************************************************)
(* The representation of terms and types on the heap                       *)
(* (simulator/dataformats.h, dataformats.c) and the operations of the      *)
(* abstract machine the term routines are built from: allocation at the    *)
(* heap top, destructive change, trailing (trail.c), the push-down list    *)
(* and the live list (abstmachine.c).                                      *)
(*                                                                         *)
(* Memory is word addressed.  Registers lie below the heap, the stack      *)
(* above it; h maps the address of the first word of every object to the   *)
(* object, so that two cells of an argument vector are two words apart and *)
(* an object is overwritten by writing over its first word.  0 is NULL.    *)
(*                                                                         *)
(* A routine of the C code is an operator from machine to machine; the     *)
(* pointer or flag it returns is left in rt, and fail is set when it       *)
(* throws EM_FAIL or, with the error in err, an error that ends the query.  *)
(***************************************************************************)
EXTENDS Integers, Sequences, FiniteSets, TLC

NULL == 0
HeapBeg == 100
StackBeg == 10000

-----------------------------------------------------------------------------
(* The objects, by category.                                               *)

Var(uc)               == [tag |-> "var", uc |-> uc]
Const(uc, ind)        == [tag |-> "const", uc |-> uc, ind |-> ind, ty |-> NULL]
TConst(uc, ind, env)  == [tag |-> "const", uc |-> uc, ind |-> ind, ty |-> env]
Nil                   == [tag |-> "nil"]
IntTm(i)              == [tag |-> "int", val |-> i]
FloatTm(x)            == [tag |-> "float", val |-> x]
StrTm(a)              == [tag |-> "string", data |-> a]
StreamTm(s)           == [tag |-> "stream", id |-> s]
BV(i)                 == [tag |-> "bvar", ind |-> i % 65536]
Ref(a)                == [tag |-> "ref", to |-> a]
Cons(args)            == [tag |-> "cons", args |-> args]
Lam(n, body)          == [tag |-> "lam", n |-> n % 65536, body |-> body]
App(n, f, args)       == [tag |-> "app", n |-> n % 65536, f |-> f, args |-> args]
Susp(ol, nl, t, env)  == [tag |-> "susp", ol |-> ol % 65536, nl |-> nl % 65536,
                          t |-> t, env |-> env]
DummyEnv(l, rest)     == [tag |-> "@", l |-> l, rest |-> rest]
PairEnv(l, t, rest)   == [tag |-> "pair", l |-> l, t |-> t, rest |-> rest]
DisPair(next, t1, t2) == [tag |-> "dispair", next |-> next, first |-> t1, second |-> t2]

\* The characters of a string with the length in their header: the characters
\* before the first NUL.
StrData(len, chars)   == [tag |-> "strdata", len |-> len, chars |-> chars]

SortType(k)           == [tag |-> "sort", k |-> k]
RefType(a)            == [tag |-> "tref", to |-> a]
ArrowType(args)       == [tag |-> "arrow", args |-> args]
StrType(fargs)        == [tag |-> "str", fargs |-> fargs]
StrFuncType(k, n)     == [tag |-> "func", k |-> k, n |-> n]

\* Words an object takes.
Size(c) == CASE c.tag \in {"app", "pair"} -> 3
             [] c.tag \in {"susp", "dispair"} -> 4
             [] c.tag = "const" /\ c.ty # NULL -> 3
             [] OTHER -> 2

AtomicTags == {"var", "const", "int", "float", "nil", "string", "stream", "bvar"}
TermTags == AtomicTags \cup {"ref", "cons", "lam", "app", "susp"}

-----------------------------------------------------------------------------
(* Reading.                                                                *)

Tag(m, a) == m.h[a].tag
IsFV(m, a) == Tag(m, a) = "var"
IsBV(m, a) == Tag(m, a) = "bvar"
IsConst(m, a) == Tag(m, a) = "const"
IsTConst(m, a) == m.h[a].ty # NULL
IsLam(m, a) == Tag(m, a) = "lam"
IsSusp(m, a) == Tag(m, a) = "susp"
SameConsts(m, a, b) == m.h[a].uc = m.h[b].uc /\ m.h[a].ind = m.h[b].ind
Arg(args, i) == args + 2 * (i - 1)

RECURSIVE Deref(_, _)
Deref(m, a) == IF Tag(m, a) = "ref" THEN Deref(m, m.h[a].to) ELSE a

RECURSIVE TypeDeref(_, _)
TypeDeref(m, a) == IF Tag(m, a) = "tref" /\ m.h[a].to # a
                   THEN TypeDeref(m, m.h[a].to) ELSE a

RECURSIVE EnvListNth(_, _, _)
EnvListNth(m, env, n) == IF n = 1 THEN env ELSE EnvListNth(m, m.h[env].rest, n - 1)

NHeapAddr(m, a) == a > m.hreg \/ a < HeapBeg
StackAddr(m, a) == a > m.hreg

-----------------------------------------------------------------------------
(* Writing.                                                                *)

Ret(m, v) == [m EXCEPT !.rt = v]
Fail(m) == [m EXCEPT !.fail = TRUE]
Error(m, e) == [m EXCEPT !.fail = TRUE, !.err = e]

Write(m, a, c) == [m EXCEPT !.h = (a :> c) @@ @]

\* An object pushed on the heap; its address is returned.
Push(m, c) == [m EXCEPT !.h = (m.hreg :> c) @@ @, !.rt = m.hreg, !.hreg = @ + Size(c)]

\* Cells of atomic size pushed one after the other; the first one's address
\* is returned.
PushVec(m, cells) ==
    [m EXCEPT !.h = [a \in {Arg(m.hreg, i) : i \in DOMAIN cells} |->
                        cells[(a - m.hreg) \div 2 + 1]] @@ @,
              !.rt = m.hreg, !.hreg = Arg(@, Len(cells) + 1)]

ModVarUC(m, a, uc) == Write(m, a, Var(uc))

\* The content of a cell where an argument or a binding can refer to it.
Trailed(m, a) == [m EXCEPT !.trail = Append(@, [a |-> a, c |-> m.h[a]])]

TrailTerm(m, a) ==
    IF a <= m.hb \/ (m.hreg < a /\ a < m.breg) THEN Trailed(m, a) ELSE m

TrailHTerm(m, a) == IF a < m.hb THEN Trailed(m, a) ELSE m

TrailETerm(m, a) == IF a < m.breg THEN Trailed(m, a) ELSE m

TrailType(m, a) ==
    IF a < m.hb \/ (m.hreg < a /\ a < m.breg) THEN Trailed(m, a) ELSE m

RECURSIVE UnwindTrail(_, _)
UnwindTrail(m, old) ==
    IF Len(m.trail) <= old THEN m
    ELSE LET item == m.trail[Len(m.trail)]
         IN UnwindTrail([Write(m, item.a, item.c) EXCEPT
                            !.trail = SubSeq(@, 1, Len(@) - 1)], old)

AddDisPair(m, t1, t2) ==
    LET p == Push(m, DisPair(m.ll, t1, t2)) IN [p EXCEPT !.ll = p.rt]

PushPDL(m, a) == [m EXCEPT !.pdl = Append(@, a)]
TopPDL(m) == m.pdl[Len(m.pdl)]
PopPDL(m) == [m EXCEPT !.pdl = SubSeq(@, 1, Len(@) - 1)]

\* The machine before any term is built.
EmptyMachine ==
    [h |-> <<>>, hreg |-> HeapBeg, hb |-> 0, breg |-> StackBeg, trail |-> <<>>,
     head |-> NULL, argvec |-> NULL, numabs |-> 0, numargs |-> 0,
     rig |-> FALSE, cons |-> FALSE, ol |-> 0, nl |-> 0, env |-> NULL,
     vbb |-> NULL, adj |-> 0, tyvbb |-> NULL, pdl |-> <<>>, pdlbot |-> 0,
     tybot |-> 0, ll |-> NULL, bnd |-> FALSE, copy |-> FALSE, fail |-> FALSE,
     err |-> "none",
     sp |-> NULL, rt |-> NULL, eh |-> NULL, ea |-> NULL, ix |-> <<>>,
     sreg |-> NULL, write |-> FALSE, oc |-> FALSE, tysreg |-> NULL, tywrite |-> FALSE,
     ucreg |-> 0, envuc |-> 0, ereg |-> StackBeg, uc |-> 0, jump |-> FALSE]
=============================================================================
