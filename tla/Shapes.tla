------------------------------- MODULE Shapes --------------------------------
(***************************************************************************)
(* What can be seen of compiled code without running it: at each address,  *)
(* whether the clause has an environment there, what is in its variables,  *)
(* what it has added to the program context and to the universe count, and *)
(* which registers its instructions may rely on.  Code in which each       *)
(* instruction finds what it needs, and leaves what the next one needs, is *)
(* well shaped.  Code with imports, and merged code, are not looked at.    *)
(*                                                                         *)
(* Clauses of implications also read variables of the clause around them:  *)
(* the last part says which table each of them was compiled for, which     *)
(* tables a clause has pushed, and when these lend what is read.           *)
(***************************************************************************)
EXTENDS Control

\* At an address: has the clause an environment of its own, with n variables;
\* what is in each ("none", a "value", a cut "level", a "goal" or the "cut"
\* point of that goal); how many records it has pushed, and universes entered;
\* cut: is b0 the "clause"'s cut point, that of the "goal" in a1, or unknown;
\* a1: is that a "goal", and the one in the first "slot"; ext: of how many
\* predicates of the record in ci may the definition be extended.
Shape(own, slot, univ, cut, a1) ==
    [own |-> own, n |-> Len(slot), slot |-> slot, pushed |-> 0, univ |-> univ,
     cut |-> cut, a1 |-> a1, ext |-> 0]

Entered == Shape(FALSE, <<>>, 0, "clause", "any")
Extended(m) == [Entered EXCEPT !.ext = m]
Returned == Shape(FALSE, <<>>, 0, "none", "any")
Solving == Shape(FALSE, <<>>, 0, "goal", "goal")
Dead == [Returned EXCEPT !.ext = -1]

\* The fixed code, where it is come to from elsewhere.
BootShape(q) == CASE q = AndCode -> Shape(TRUE, <<"goal", "cut">>, 0, "none", "any")
                  [] q = SolveCode -> Solving
                  [] q = OrCode -> Solving
                  [] q = AllCode -> Shape(TRUE, <<>>, 1, "none", "any")
                  [] q = NotCode1 -> Shape(FALSE, <<>>, 0, "clause", "goal")
                  [] OTHER -> Returned
IsFixed(q) == q \in {FailCode, AndCode, SolveCode, ProceedCode, OrCode, AllCode, StopCode,
                     NotCode2, NotCode1, HaltCode}

Trimmed(s, n) == [s EXCEPT !.n = n, !.slot = [y \in 1 .. n |-> @[y]]]
Set(s, y, kind) == [s EXCEPT !.slot[y] = kind]

\* Instructions of a kind.
ValueOps == {"put_variable", "tag_variable", "tag_exists", "set_univ_tag", "get_variable",
             "init_variable"}
SlotOps == ValueOps \cup {"get_level", "put_value", "put_goal", "put_level", "cut"}
CallOps == {"call", "call_name", "call_solve"}
MeOps == {"try_me_else", "retry_me_else", "trust_me"}
ToOps == {"try", "retry", "trust"}
ElseOps == {"try_else", "retry_else"}
Straight == SlotOps \cup CallOps \cup MeOps
               \cup {"allocate", "deallocate", "neck_cut", "unify", "init_variable_t",
                     "push_impl_point", "pop_impl_point", "incr_universe", "decr_universe"}
Switches == {"switch_on_reg", "switch_on_term", "switch_on_constant"}
Leaving == {"execute", "execute_name", "proceed", "solve"}
Halting == {"fail", "stop", "halt"}

\* What an instruction makes of a shape, for the one after it.
After(s, i) ==
    CASE i.op = "allocate" ->
            [s EXCEPT !.own = TRUE, !.n = i.n - 1, !.slot = [y \in 1 .. i.n - 1 |-> "none"]]
      [] i.op = "deallocate" ->
            [s EXCEPT !.own = FALSE, !.n = 0, !.slot = <<>>,
                      !.a1 = IF @ = "slot" THEN "goal" ELSE @]
      [] i.op \in ValueOps -> Set(s, i.y, "value")
      [] i.op = "get_level" -> Set(s, i.y, "level")
      [] i.op = "put_goal" -> [s EXCEPT !.a1 = "slot"]
      [] i.op = "put_level" -> [s EXCEPT !.cut = "goal"]
      [] i.op = "push_impl_point" -> [Trimmed(s, i.n) EXCEPT !.pushed = @ + 1]
      [] i.op = "pop_impl_point" -> [s EXCEPT !.pushed = @ - 1]
      [] i.op = "incr_universe" -> [s EXCEPT !.univ = @ + 1]
      [] i.op = "decr_universe" -> [s EXCEPT !.univ = @ - 1]
      [] i.op \in CallOps -> [Trimmed(s, i.n) EXCEPT !.cut = "none", !.a1 = "any", !.ext = 0]
      [] OTHER -> s

\* After these comes another clause, or another way to try.
Ends(i) == i.op \in {"proceed", "execute", "execute_name", "solve", "fail", "stop", "halt",
                     "try", "retry", "trust", "try_else", "retry_else", "trust_ext",
                     "switch_on_reg", "switch_on_term", "switch_on_constant"}

StartShape(code, q) ==
    LET i == code[q]
    IN  CASE i.op = "switch_on_reg" -> Extended(i.n)
          [] i.op = "trust_ext" -> Extended(i.m)
          [] i.op = "try" /\ code[q + 1].op = "trust_ext" -> Extended(code[q + 1].m)
          [] i.op = "try_me_else" /\ i.l = FailCode -> Dead
          [] OTHER -> Entered

Shapes(code) ==
    LET f[q \in 1 .. Len(code)] ==
            IF q <= Len(Boot)
            THEN IF IsFixed(q) THEN BootShape(q)
                 ELSE IF q - 1 \in {FailCode, AllCode - 2} THEN Dead
                 ELSE After(f[q - 1], code[q - 1])
            ELSE IF Ends(code[q - 1]) \/ f[q - 1] = Dead THEN StartShape(code, q)
            ELSE After(f[q - 1], code[q - 1])
    IN  f

-----------------------------------------------------------------------------
\* Whatever holds where the shape is s holds where it is t.
Fits(s, t) ==
    /\ s.own = t.own /\ s.n = t.n /\ s.slot = t.slot
    /\ s.pushed = t.pushed /\ s.univ = t.univ
    /\ t.cut # "none" => s.cut = t.cut
    /\ t.a1 # "any" => s.a1 = t.a1
    /\ t.ext \in 0 .. s.ext

\* The machine may go on at address l, where the shape is s.
LeadsTo(code, S, s, l) ==
    /\ l \in DOMAIN code /\ code[l].op \notin Alternatives
    /\ l = FailCode \/ Fits(s, S[l])

\* Backtracking may come to address l for another clause, the shape being s.
MayResume(code, S, s, l) ==
    /\ l \in DOMAIN code /\ code[l].op \in Alternatives
    /\ S[l].a1 = "any" /\ S[l].cut # "goal" /\ ~S[l].own /\ Fits(s, S[l])

InClause(s) == ~s.own /\ s.pushed = 0 /\ s.univ = 0

\* What the instruction i at q needs where the shape is s.
Finds(pr, S, q, s, i) ==
    LET on(l) == LeadsTo(pr.code, S, s, l)
        enters(l) == LeadsTo(pr.code, S, Entered, l)
        resumes(l) == MayResume(pr.code, S, s, l)
        is(op) == i.op = op
        in(ops) == i.op \in ops
    IN  /\ in(Straight \cup ToOps \cup ElseOps \cup Switches \cup Leaving \cup Halting
              \cup {"trust_ext"})
        /\ in(Straight) => LeadsTo(pr.code, S, After(s, i), q + 1)
        /\ in(Leaving \cup MeOps \cup ToOps \cup ElseOps \cup {"allocate", "trust_ext"}) =>
              InClause(s)
        /\ in(SlotOps) => s.own /\ i.y \in 1 .. s.n
        /\ in(ValueOps \cup {"get_level"}) => s.slot[i.y] = "none"
        /\ is("get_level") => s.cut = "clause"
        /\ is("put_value") => s.slot[i.y] = "value"
        /\ is("put_goal") => i.y = 1 /\ s.n = 2 /\ s.slot = <<"goal", "cut">> /\ s.cut = "none"
        /\ is("put_level") => i.y = 2 /\ s.n = 2 /\ s.slot = <<"goal", "cut">> /\ s.a1 = "slot"
        /\ is("cut") => s.slot[i.y] = "level" /\ s.cut # "goal"
        /\ is("neck_cut") => s.cut = "clause"
        /\ in({"cut", "neck_cut", "call_solve"}) => \A y \in 1 .. s.n : s.slot[y] # "cut"
        /\ is("allocate") => i.n \in Nat \ {0}
        /\ is("deallocate") => s.own
        /\ is("push_impl_point") => /\ s.own /\ i.n \in 0 .. s.n /\ i.t \in DOMAIN pr.tables
                                    /\ s.a1 # "slot"
        /\ is("pop_impl_point") => s.own /\ s.pushed > 0
        /\ is("decr_universe") => s.univ > 0
        /\ in(CallOps) => s.own /\ i.n \in 0 .. s.n
        /\ in({"call", "execute"}) => enters(i.l)
        /\ is("call_solve") => s.cut = "clause" /\ s.a1 = "goal"
        /\ is("solve") => s.cut = "goal" /\ s.a1 = "goal"
        /\ in(MeOps \cup ToOps \cup ElseOps) => i.n \in Nat
        /\ in(Alternatives) /\ (s.cut = "goal" \/ s.a1 # "any") => i.n > 0
        /\ in({"try_me_else", "retry_me_else"} \cup ElseOps) => resumes(i.l)
        /\ in({"try", "retry"}) => resumes(q + 1)
        /\ in(ToOps) => on(i.l)
        /\ in(ElseOps) => on(i.k)
        /\ is("trust_ext") => i.n \in Nat /\ s.cut = "clause" /\ i.m \in 1 .. s.ext
        /\ is("switch_on_reg") => i.n \in 1 .. s.ext /\ on(i.l) /\ on(i.k)
        /\ is("switch_on_term") => on(i.v) /\ on(i.c) /\ on(i.l) /\ on(i.b)
        /\ is("switch_on_constant") => \A c \in DOMAIN i.tab : on(i.tab[c])

\* Every table names predicates whose code may be called from outside.
TableShaped(pr, S, T) ==
    /\ T.segs \in Nat /\ Len(T.link) \in Nat
    /\ \A c \in DOMAIN T.code :
          LeadsTo(pr.code, S, Extended(Len(T.link)), T.code[c]) /\ T.code[c] # FailCode

\* Goals with a cut that leaves them: no query is one.
GoalKinds == {"and", "or", "some", "all", "not", "true", "fail", "stop", "cut", "atom"}
Cutting(goals, K) ==
    \A g \in DOMAIN goals :
       \/ goals[g].kind = "cut"
       \/ goals[g].kind = "and" /\ (goals[g].l \in K \/ goals[g].r \in K)
       \/ goals[g].kind = "or" /\ goals[g].r \in K
       \/ goals[g].kind \in {"some", "all"} /\ goals[g].l \in K
       => g \in K
GoalShaped(goals, g) ==
    /\ goals[g].kind \in GoalKinds
    /\ goals[g].kind \in {"and", "or", "some", "all", "not"} => goals[g].l \in DOMAIN goals
    /\ goals[g].kind \in {"and", "or"} => goals[g].r \in DOMAIN goals

CutGoalsOf(pr) == CHOOSE K \in SUBSET DOMAIN pr.goals :
                     Cutting(pr.goals, K) /\ K \cap pr.queries = {}

\* A shape has its fields, and says what is in each variable.
IsShape(s) == /\ DOMAIN s = {"own", "n", "slot", "pushed", "univ", "cut", "a1", "ext"}
              /\ s.n \in Nat /\ DOMAIN s.slot = 1 .. s.n

WellShaped(pr) ==
    LET S == Shapes(pr.code)
        T == pr.tables[pr.top]
    IN  /\ DOMAIN pr.code = 1 .. Len(pr.code) /\ Len(pr.code) \in Nat
        /\ \A q \in 1 .. Len(Boot) : q \in DOMAIN pr.code /\ pr.code[q] = Boot[q]
        /\ \A q \in DOMAIN pr.code : IsShape(S[q]) /\ (IsFixed(q) => S[q] = BootShape(q))
        /\ \A q \in DOMAIN pr.code : S[q] = Dead \/ Finds(pr, S, q, S[q], pr.code[q])
        /\ \A q \in DOMAIN pr.code : "y" \in DOMAIN pr.code[q] => pr.code[q].op \in SlotOps
        /\ \A t \in DOMAIN pr.tables : TableShaped(pr, S, pr.tables[t])
        /\ \A g \in DOMAIN pr.goals : GoalShaped(pr.goals, g)
        /\ \E K \in SUBSET DOMAIN pr.goals : Cutting(pr.goals, K) /\ K \cap pr.queries = {}
        /\ pr.top \in DOMAIN pr.tables /\ pr.stackEnd \in Nat /\ pr.ucMax \in Nat
        /\ FstCP + 1 + 2 * T.segs + 2 * Len(T.link) + ImpFixSize <= pr.stackEnd
        /\ (IF T.locals THEN 1 ELSE 0) <= pr.ucMax
        /\ ~pr.merged

-----------------------------------------------------------------------------
\* Clauses of implications, and what they share with the clause around them.

\* The table, if only one, from whose record the clause at an address must have
\* been found: code belongs to the definition that starts last before it, and
\* that of the module, or of a call by label, may be come to from anywhere.
NoTable == 0
Homes(pr) ==
    LET code == pr.code
        labels(t) == {pr.tables[t].code[c] : c \in DOMAIN pr.tables[t].code}
        called(q) == \E p \in Len(Boot) + 1 .. Len(code) :
                        code[p].op \in {"call", "execute"} /\ code[p].l = q
        f[q \in 1 .. Len(code)] ==
            LET ts == {t \in DOMAIN pr.tables : q \in labels(t)}
            IN  IF q <= Len(Boot) \/ pr.top \in ts \/ called(q) THEN NoTable
                ELSE IF ts # {} THEN CHOOSE t \in ts : TRUE
                ELSE f[q - 1]
    IN  f

\* The tables that the clause has pushed, oldest first.
PushedFrom(ts, i) == CASE i.op = "push_impl_point" -> Append(ts, i.t)
                       [] i.op = "pop_impl_point" -> Init1(ts)
                       [] OTHER -> ts
Pushes(code) ==
    LET f[q \in 1 .. Len(code)] ==
            IF q <= Len(Boot) \/ Ends(code[q - 1]) THEN <<>>
            ELSE PushedFrom(f[q - 1], code[q - 1])
    IN  f

\* The variables of the clause around it that clauses of table t read.
Shared(pr, H, t) == {pr.code[p].m : p \in {p \in DOMAIN pr.code :
                        pr.code[p].op \in {"init_variable", "init_variable_t"} /\ H[p] = t}}

\* Where the instruction i at q goes on within the definition.
GoesTo(i, q) ==
    (IF i.op \in Straight \cup {"try", "retry"} THEN {q + 1} ELSE {})
      \cup (IF i.op \in {"try_me_else", "retry_me_else", "switch_on_reg", "switch_on_term"}
                          \cup ToOps \cup ElseOps THEN {i.l} ELSE {})
      \cup (IF i.op \in ElseOps \cup {"switch_on_reg"} THEN {i.k} ELSE {})
      \cup (IF i.op = "switch_on_term" THEN {i.v, i.c, i.b} ELSE {})
      \cup (IF i.op = "switch_on_constant" THEN {i.tab[c] : c \in DOMAIN i.tab} ELSE {})

\* While a table is pushed, the variables its clauses share are kept and set.
Lent(pr, H, s, ts) ==
    /\ ts \in Seq(DOMAIN pr.tables) /\ Len(ts) = s.pushed
    /\ \A k \in 1 .. Len(ts) : \A y \in Shared(pr, H, ts[k]) :
          y \in 1 .. s.n /\ s.slot[y] = "value"

\* Variables shared with the clause around are read where it is known which
\* clause that is, and it keeps them for as long as the table is pushed.
ClosuresShaped(pr) ==
    LET S == Shapes(pr.code)
        H == Homes(pr)
        P == Pushes(pr.code)
    IN  /\ NoTable \notin DOMAIN pr.tables
        /\ \A q \in 1 .. Len(Boot) : H[q] = NoTable /\ P[q] = <<>>
        /\ \A t \in DOMAIN pr.tables : \A c \in DOMAIN pr.tables[t].code :
              H[pr.tables[t].code[c]] \in {NoTable} \cup ({t} \ {pr.top})
        /\ \A q \in DOMAIN pr.code :
              LET i == pr.code[q]
              IN  S[q] = Dead \/
                  /\ Lent(pr, H, S[q], P[q])
                  /\ \A l \in GoesTo(i, q) : H[l] \in {NoTable, H[q]}
                  /\ i.op \in Straight => P[q + 1] = PushedFrom(P[q], i)
                  /\ i.op \in Switches \cup {"deallocate"} => S[q].pushed = 0
                  /\ i.op \in {"call", "execute"} => H[i.l] = NoTable
                  /\ i.op \in {"init_variable", "init_variable_t"} => H[q] # NoTable
=============================================================================
