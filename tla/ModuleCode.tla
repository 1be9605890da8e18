----------------------------- MODULE ModuleCode -----------------------------
(***************************************************************************)
(* What the compiler leaves in the bytecode file of a module               *)
(* (compiler/codegen.ml, spitcode.ml, genCall and genExecute of            *)
(* clausegen.ml): the names and the numbers of its constants and kinds,    *)
(* its tables, how the names of the modules it accumulates and imports are *)
(* called in it, and its code.  Indices and addresses start from 0.        *)
(*                                                                         *)
(* A source module has a signature sig, the predicates expd of it that are *)
(* exportdef, its other constants, its kinds and the arity of every kind,  *)
(* the modules that it accumulates and imports, its clauses, and the       *)
(* clauses impls[k] of its k-th implication.  The head of a clause has one *)
(* argument, a constant.  A goal is <<"call", p>>, or <<"impl", k, p>>, p  *)
(* under the k-th implication.                                             *)
(***************************************************************************)
EXTENDS Integers, Sequences, FiniteSets, SequencesExt

CONSTANTS Pervasives,  \* the pervasive constants
          KindOf       \* the kind in the type of each constant

Elem(s, i) == s[i + 1]
Place(s, x) == (CHOOSE i \in DOMAIN s : s[i] = x) - 1

-----------------------------------------------------------------------------
\* Names.  What the signatures of other modules declare and the module's own
\* does not is local to it.
Others(src, m) == src[m].acc \o src[m].imp
NamesIn(src, ms, field) == FlattenSeq([i \in DOMAIN ms |-> src[ms[i]][field]])
RECURSIVE Extend(_, _, _)
Extend(own, names, new) ==
    IF new = <<>> THEN names
    ELSE Extend(own, IF Contains(own \o names, new[1]) THEN names ELSE Append(names, new[1]),
                Tail(new))

LocalConsts(src, m) ==
    Extend(src[m].sig, src[m].locals, NamesIn(src, Others(src, m), "sig"))
LocalKinds(src, m) ==
    Extend(src[m].kinds, src[m].lkinds, NamesIn(src, Others(src, m), "kinds"))

\* assignConstIndex, assignKindIndex.
ConstOf(src, m, c) ==
    CASE Contains(Pervasives, c) -> <<"P", Place(Pervasives, c)>>
      [] Contains(src[m].sig, c) -> <<"G", Place(src[m].sig, c)>>
      [] c = "hidden"            -> <<"H", 0>>
      [] OTHER                   -> <<"L", Place(LocalConsts(src, m), c)>>
KindInd(src, m, k) ==
    IF Contains(src[m].kinds, k) THEN <<"G", Place(src[m].kinds, k)>>
    ELSE <<"L", Place(LocalKinds(src, m), k)>>

\* assignSkelIndex: a type for every kind, from it to the pervasive kind o.
Skels(src, m) == src[m].kinds \o LocalKinds(src, m)
Skel(src, m, k) == << KindInd(src, m, k), <<"P", 0>> >>
KindData(src, m, k) == [name |-> k, arity |-> src[m].arity[k]]
ConstData(src, m, c) == [name |-> c, skel |-> Place(Skels(src, m), KindOf[c])]

\* collectRenamingInfo: for each module of ms, its names here.
Renaming(src, m, ms) ==
    [i \in DOMAIN ms |->
        [name |-> ms[i],
         kinds |-> [j \in DOMAIN src[ms[i]].kinds |->
            <<src[ms[i]].kinds[j], KindInd(src, m, src[ms[i]].kinds[j])>>],
         consts |-> [j \in DOMAIN src[ms[i]].sig |->
            <<src[ms[i]].sig[j], ConstOf(src, m, src[ms[i]].sig[j])>>]]]

-----------------------------------------------------------------------------
\* Predicates.  The clauses at 0 are those of the module, those at k those of
\* its k-th implication.
ClausesAt(s, w) == IF w = 0 THEN s.clauses ELSE s.impls[w]
ClausesOf(s, w, p) ==
    SelectSeq([i \in DOMAIN ClausesAt(s, w) |-> i], LAMBDA i : ClausesAt(s, w)[i].pred = p)
PredsAt(src, m, w) ==
    SelectSeq(LocalConsts(src, m) \o src[m].sig,
              LAMBDA p : ClausesOf(src[m], w, p) # <<>>)

\* Those that go on with the clauses there are outside, in the order in which
\* they are numbered (assignConstIndex, genImpDefs).
Extending(src, m, w) ==
    IF w > 0 THEN PredsAt(src, m, w)
    ELSE SelectSeq(PredsAt(src, m, 0),
                   LAMBDA p : Contains(src[m].sig, p) /\ p \notin src[m].expd)
NextClause(src, m, w, p) ==
    IF Contains(Extending(src, m, w), p) THEN Place(Extending(src, m, w), p) + 1 ELSE 0

\* The definitions of a module, in the order of their code.
Defs(src, m) ==
    FlattenSeq([w \in 1..(Len(src[m].impls) + 1) |->
        [i \in DOMAIN PredsAt(src, m, w - 1) |-> <<w - 1, PredsAt(src, m, w - 1)[i]>>]])

-----------------------------------------------------------------------------
\* Calls (genCall, genExecute).
InImplication(s, p) ==
    \E k \in DOMAIN s.impls : \E i \in DOMAIN s.impls[k] : s.impls[k][i].pred = p
Closed(src, m, p) == ~Contains(src[m].sig, p) \/ p \in src[m].expd
\* collectClosedConstsInAccs.
AccConst(src, m, p) ==
    Contains(NamesIn(src, src[m].acc, "sig"), p) /\ Closed(src, m, p)
Static(src, m, p) ==
    /\ ~InImplication(src[m], p)
    /\ \/ Closed(src, m, p) /\ ClausesOf(src[m], 0, p) # <<>>
       \/ AccConst(src, m, p)

Call(src, m, p, op) ==
    [op |-> CASE Static(src, m, p) -> op \o "_link_only"
              [] ~InImplication(src[m], p) /\ p \in src[m].expd -> "fail"
              [] OTHER -> op \o "_name",
     c |-> ConstOf(src, m, p)]
GoalCode(src, m, g, op) ==
    IF g[1] = "call" THEN << Call(src, m, g[2], op) >>
    ELSE << [op |-> "push_impl_point", t |-> g[2] - 1], Call(src, m, g[3], "call"),
            [op |-> "pop_impl_point"] >>
Goals(src, m, body) ==
    FlattenSeq([i \in DOMAIN body |-> GoalCode(src, m, body[i], "call")])

\* genClauseBodyCode.
Proceed == [op |-> "proceed"]
WithImports(src, m, body, at) ==
    LET k    == Len(src[m].imp)
        call == Goals(src, m, body)
        end  == at + 3 + k + Len(call)
    IN  << [op |-> "add_imports", seg |-> 1, l |-> at + 1 + k] >>
        \o [i \in 1..k |-> [op |-> "push_import", t |-> i - 1]]
        \o call
        \o << [op |-> "remove_imports", seg |-> 1, l |-> end],
              [op |-> "pop_imports", n |-> k], Proceed >>
BodyCode(src, m, w, body, at) ==
    CASE body = <<>> -> << Proceed >>
      [] w = 0 /\ src[m].imp # <<>> -> WithImports(src, m, body, at)
      [] Last(body)[1] = "impl" -> Append(Goals(src, m, body), Proceed)
      [] OTHER -> Goals(src, m, Front(body)) \o GoalCode(src, m, Last(body), "execute")

\* The code of a clause: the operands of what unifies its head, then its body.
\* "of" says which clause of the source it is.
Strings(s) ==
    Extend(<<>>, <<>>, FlattenSeq([w \in 1..(Len(s.impls) + 1) |->
        [i \in DOMAIN ClausesAt(s, w - 1) |-> ClausesAt(s, w - 1)[i].arg]]))
ClauseCode(src, m, w, i, h, at) ==
    LET cl == ClausesAt(src[m], w)[i]
    IN  << [op |-> "head", c |-> ConstOf(src, m, cl.arg),
            k |-> KindInd(src, m, KindOf[cl.arg]), s |-> Place(Strings(src[m]), cl.arg),
            h |-> h, of |-> <<w, i>>] >> \o BodyCode(src, m, w, cl.body, at + 1)

\* A definition stands for the instructions that choose among its clauses,
\* which the linker merges (module Linker); n is the number of its entry of
\* the next clause table, 0 if it has none.
RECURSIVE ClausesCode(_, _, _, _, _, _)
ClausesCode(src, m, w, cls, h, r) ==
    IF cls = <<>> THEN r
    ELSE ClausesCode(src, m, w, Tail(cls), h,
             [r EXCEPT !.code = @ \o ClauseCode(src, m, w, cls[1], h, r.at + Len(@)),
                       !.cls = Append(@, r.at + Len(r.code))])
DefCode(src, m, h, def, at) ==
    LET code == ClausesCode(src, m, def[1], ClausesOf(src[m], def[1], def[2]), h,
                            [at |-> at + 1, code |-> <<>>, cls |-> <<>>])
    IN  << [op |-> "def", cls |-> code.cls, n |-> NextClause(src, m, def[1], def[2]),
            def |-> def] >> \o code.code
Fail == [op |-> "fail"]
RECURSIVE DefsCode(_, _, _, _)
DefsCode(src, m, defs, code) ==
    IF Len(defs) = 0 THEN code
    ELSE DefsCode(src, m, Tail(defs),
                  code \o DefCode(src, m, Len(Defs(src, m)) - Len(defs), defs[1], Len(code)))
CodeOf(src, m) == DefsCode(src, m, Defs(src, m), << Fail >>)

-----------------------------------------------------------------------------
\* Tables.
DefAddr(code, def) ==
    (CHOOSE i \in DOMAIN code : code[i].op = "def" /\ code[i].def = def) - 1
ClauseAddr(code, of) ==
    (CHOOSE i \in DOMAIN code : code[i].op = "head" /\ code[i].of = of) - 1
SearchTab(src, m, code, w) ==
    [i \in DOMAIN PredsAt(src, m, w) |->
        <<ConstOf(src, m, PredsAt(src, m, w)[i]), DefAddr(code, <<w, PredsAt(src, m, w)[i]>>)>>]
\* The table of switch_on_constant for a definition.
HashTab(src, m, code, def) ==
    LET cls == ClausesOf(src[m], def[1], def[2])
    IN  [i \in DOMAIN cls |->
            <<ConstOf(src, m, ClausesAt(src[m], def[1])[cls[i]].arg),
              ClauseAddr(code, <<def[1], cls[i]>>)>>]
Inds(src, m, ps) == [i \in DOMAIN ps |-> ConstOf(src, m, ps[i])]

\* The file.  Modules are accumulated from the last to the first.
ByteCode(src, m) ==
    LET code == CodeOf(src, m)
    IN  [gkinds |-> [i \in DOMAIN src[m].kinds |-> KindData(src, m, src[m].kinds[i])],
         lkinds |-> [i \in DOMAIN LocalKinds(src, m) |->
                        KindData(src, m, LocalKinds(src, m)[i])],
         skels |-> [i \in DOMAIN Skels(src, m) |-> Skel(src, m, Skels(src, m)[i])],
         gconsts |-> [i \in DOMAIN src[m].sig |-> ConstData(src, m, src[m].sig[i])],
         lconsts |-> [i \in DOMAIN LocalConsts(src, m) |->
                         ConstData(src, m, LocalConsts(src, m)[i])],
         hconsts |-> << ConstData(src, m, "hidden") >>,
         strings |-> Strings(src[m]),
         impls |-> [k \in DOMAIN src[m].impls |->
            [ext |-> Inds(src, m, Extending(src, m, k)), tab |-> SearchTab(src, m, code, k)]],
         hashtabs |-> [j \in DOMAIN Defs(src, m) |-> HashTab(src, m, code, Defs(src, m)[j])],
         nct |-> Inds(src, m, Extending(src, m, 0)),
         expd |-> Inds(src, m, SelectSeq(src[m].sig, LAMBDA p : p \in src[m].expd)),
         tab |-> SearchTab(src, m, code, 0),
         acc |-> Renaming(src, m, Reverse(src[m].acc)),
         imp |-> Renaming(src, m, src[m].imp),
         code |-> code]
=============================================================================
