------------------------------ MODULE Control -------------------------------
(***************************************************************************)
(* The control part of the abstract machine: the stack of environments,    *)
(* choice points and implication/import records, the registers that thread *)
(* them, and the instructions that build, use and discard them             *)
(* (simulator/abstmachine.c, the control, choice, cut and logical          *)
(* instructions of simulator/siminstr.c, simulator/builtins/meta.c, the    *)
(* fail handler of simulator/simulator.c and the query cycle of front/);   *)
(* the layout of its records and the code segments that are built in       *)
(* (simulator/abstmachine.h, SINIT_initCode of simulator/siminit.c).       *)
(*                                                                         *)
(* The stack is modelled word by word, because what can go wrong with it   *)
(* is one record being laid over another: environments are trimmed by the  *)
(* operand of the last call, found back below the return address, and TOS  *)
(* is recomputed from I and B alone.  A word carries the name of the field *)
(* it was written as.  The heap and the terms are not here: a unification  *)
(* is a choice of failing, succeeding, or binding some variable of the     *)
(* stack.                                                                  *)
(***************************************************************************)
EXTENDS Integers, Sequences, FiniteSets

CONSTANT
    Systems     \* the programs to run, each with its memory and its queries

\* code: compiled code, placed after the built-in segments; tables: the tables
\* of its implications and imports, by number; top: that of the module queries
\* are put to; goals: the goals given to solve, by number; queries: those put
\* as queries; stackEnd: AM_stackEnd, the last word of the stack; ucMax:
\* DF_MAX_UNIVIND, the limit on the universe count; merged: has the linker
\* merged definitions with two clauses for one key?
ASSUME SystemAssumption ==
    \A s \in Systems : /\ DOMAIN s = {"code", "tables", "top", "goals", "queries",
                                     "stackEnd", "ucMax", "merged"}
                       /\ s.stackEnd \in Nat /\ s.ucMax \in Nat
                       /\ s.queries \subseteq DOMAIN s.goals

VARIABLES
    prog,       \* the code area, the tables that the loader filled in, the
                \* limits of the memory and the queries: one of Systems
    reg,        \* the registers
    stk,        \* the words of the stack, from AM_stackBeg
    trail,      \* trail items: an address and the two words it held
    status,     \* what the simulator and its driver are doing
    calls,      \* history: the calls not yet returned from
    snaps,      \* history: the stack at the creation of each choice point
    live,       \* history: how many variables of the top environment are
                \* still needed
    ctx         \* history: the records of the program context, oldest first

vars == <<prog, reg, stk, trail, status, calls, snaps, live, ctx>>
hist == <<calls, snaps, live, ctx>>

-----------------------------------------------------------------------------
\* AM_stackBeg, and AM_fstCP on top of a dummy import record.
StackBeg == 0
FstCP == 2

EnvFixSize == 4
CPFixSize  == 11
ImpFixSize == 6

TagImpl    == 0
TagImptWOL == 1
TagImptWL  == 2

\* A word of the stack: the field it was written as, and its value.
W(f, val) == [f |-> f, v |-> val]
Junk == W("junk", 0)

\* Writing consecutive words from an address on.
Write(m, a, ws) ==
    [b \in DOMAIN m |-> IF b - a + 1 \in DOMAIN ws THEN ws[b - a + 1] ELSE m[b]]

\* An instruction: its operation and its operands.
Op(op) == [op |-> op]
OpN(op, n) == [op |-> op, n |-> n]
OpY(op, y) == [op |-> op, y |-> y]

\* The code segments of SINIT_initCode, in their order.  The two "call"s only
\* give the continuation after them the size of its environment.
Boot == << Op("fail"),
           OpN("call", 2),
           OpY("put_goal", 1), OpY("put_level", 2), Op("deallocate"),
           Op("solve"),
           Op("proceed"),
           OpN("trust_me", 1), Op("solve"),
           OpN("call", 0),
           Op("decr_universe"), Op("deallocate"), Op("proceed"),
           Op("stop"),
           OpN("trust_me", 0), Op("proceed"),
           OpN("allocate", 2), OpY("get_level", 1), OpN("call_solve", 1),
           OpY("cut", 1), Op("fail"),
           Op("halt") >>

FailCode    == 1
AndCode     == 3
SolveCode   == 6
ProceedCode == 7
OrCode      == 8
AllCode     == 11
StopCode    == 14
NotCode2    == 15
NotCode1    == 17
HaltCode    == 22

-----------------------------------------------------------------------------
Code == prog.code
Tables == prog.tables
Top == prog.top
StackEnd == prog.stackEnd
UCMax == prog.ucMax

Addr == StackBeg .. StackEnd

\* INSACC_CALL_I1: the size operand of the call before a return address.
CallI1(cp) == Code[cp - 1].n

\* The instruction AM_preg points to, and the next one.
I == Code[reg.p]
Is(op) == status = "run" /\ I.op = op
Next1(r) == [r EXCEPT !.p = @ + 1]

v(a) == stk[a].v

\* The fields of the top environment and of a choice point at b.
envCP == v(reg.e + 1)
envUC == v(reg.e)
envCE == v(reg.e - 1)
envCI == v(reg.e - 2)
Y(n) == reg.e + 2 * n
Clenv(n) == reg.ce + 2 * n
cpNCL(b) == v(b - 1)
cpTR(b) == v(b - 2)
cpB(b) == v(b - 5)
cpCI(b) == v(b - 6)
cpCP(b) == v(b - 8)
cpE(b) == v(b - 9)

noEnv == reg.e = StackBeg
botCP(b) == b = FstCP
isFailInstr(p) == p = FailCode
isImpl(ip) == v(ip + 1) = TagImpl

\* Fault: there is no check.
stackError_Never(a) == FALSE

\* AM_stackError: a is past the stack.
stackError(a) == a > StackEnd

\* Fault: the room that the variables of the environment need is forgotten.
findtos_Bare(r, n) == IF r.tos > r.e THEN r.tos ELSE r.e + 2

findtos(r, n) == IF r.tos > r.e THEN r.tos ELSE r.e + 2 + 2 * n

\* Fault: the room that the variables of the environment need is forgotten.
findtosEnv_Bare(r) == IF r.tos > r.e THEN r.tos ELSE r.e + 2

findtosEnv(r) == IF r.tos > r.e THEN r.tos ELSE r.e + 2 + 2 * CallI1(r.cp)

\* Fault: TOS goes back to the program context, whatever the choice points.
settosreg_IgnoresB(r) == [r EXCEPT !.tos = r.i + ImpFixSize]

settosreg(r) ==
    [r EXCEPT !.tos = IF r.i > r.b THEN r.i + ImpFixSize ELSE r.b + 1]

\* Fault: the enclosing environment is left as it is.
WithCE_Kept(r) == r

\* cereg is reset when the clause comes from an implication.
WithCE(r) == IF isImpl(r.ci) THEN [r EXCEPT !.ce = v(r.ci)] ELSE r

\* How much of the environment a continuation returns to is needed there.
LiveAt(e, cp) == IF e = StackBeg THEN 0 ELSE CallI1(cp)

\* The choice points that still exist, and which of them a goal with cut point
\* r.b0 may go back to.
ChoicePoints == {FstCP} \cup {snaps[k].b : k \in 1 .. Len(snaps)}
Floor(r) == IF r.b0 \in ChoicePoints THEN r.b0 ELSE FstCP

\* A call not returned from: where to, and what it must find there.
Caller(r) == [ret |-> r.cp, e |-> r.e, i |-> r.i, uc |-> r.uc,
              ctx |-> ctx, floor |-> Floor(r)]

\* A sequence without its last element.
Init1(s) == SubSeq(s, 1, Len(s) - 1)

Return(r) == [r EXCEPT !.p = r.cp]
Popped == IF Len(calls) > 1 THEN Init1(calls) ELSE calls

\* One step that only moves the registers.
Regs(r) == reg' = r /\ UNCHANGED <<stk, trail, prog, status, hist>>

Fails == status' = "fail" /\ UNCHANGED <<reg, stk, trail, prog, hist>>

Overflow == status' = "error" /\ UNCHANGED <<reg, stk, trail, prog, hist>>

-----------------------------------------------------------------------------
\* Environments.

\* AM_mkEnv and AM_mkEnvWOUC: the fixed part of an environment at ep, and n
\* variables of which nothing is known.
EnvWords(r, n, uc) ==
    <<W("ci", r.ci), W("ce", r.e), uc, W("cp", r.cp)>>
        \o [k \in 1 .. 2 * n |-> Junk]

Allocate ==
    /\ Is("allocate")
    /\ LET ep == findtosEnv(reg) + EnvFixSize
       IN  IF stackError(ep + 2 * I.n)
           THEN Overflow
           ELSE /\ reg' = Next1([reg EXCEPT !.e = ep - 1])
                /\ stk' = Write(stk, ep - 3, EnvWords(reg, I.n, W("uc", reg.uc)))
                /\ live' = I.n - 1
                /\ UNCHANGED <<trail, prog, status, calls, snaps, ctx>>

Deallocate ==
    /\ Is("deallocate")
    /\ reg' = Next1([reg EXCEPT !.cp = envCP, !.e = envCE])
    /\ live' = LiveAt(envCE, envCP)
    /\ UNCHANGED <<stk, trail, prog, status, calls, snaps, ctx>>

\* Writing an environment variable: put_variable and tag_variable (a free
\* variable tagged with UCE), tag_exists (with UC), set_univ_tag (a constant),
\* get_variable (an argument), init_variable (what a variable of the enclosing
\* clause is), get_level (the cut point).
SetVar(op, w) ==
    /\ Is(op)
    /\ reg' = Next1(reg)
    /\ stk' = [stk EXCEPT ![Y(I.y)] = w]
    /\ UNCHANGED <<trail, prog, status, hist>>

PutVariable  == SetVar("put_variable", W("free", envUC))
TagVariable  == SetVar("tag_variable", W("free", envUC))
TagExists    == SetVar("tag_exists", W("free", reg.uc))
SetUnivTag   == SetVar("set_univ_tag", W("univ", reg.uc))
GetVariable  == SetVar("get_variable", W("arg", 0))
InitVariable == SetVar("init_variable", W("ref", Clenv(I.m)))
GetLevel     == SetVar("get_level", W("level", reg.b0))

\* Reading one into a register that is not modelled.
ToRegister == (Is("put_value") \/ Is("init_variable_t")) /\ Regs(Next1(reg))

PutLevel == Is("put_level") /\ Regs(Next1([reg EXCEPT !.b0 = v(Y(I.y))]))

\* put_value Y1,A1 of andCode.
PutGoal == Is("put_goal") /\ Regs(Next1([reg EXCEPT !.a1 = v(Y(I.y))]))

-----------------------------------------------------------------------------
\* Implication and import records.

\* AM_findCode: the innermost record, from ip outwards, with code for c.  A
\* record lies above the one it extends.
FindIP(ip, c) ==
    LET f[i \in StackBeg .. StackEnd] ==
            IF i = StackBeg \/ c \in DOMAIN Tables[v(i + 2)].code THEN i
            ELSE IF v(i + 4) \in StackBeg .. i - 1 THEN f[v(i + 4)] ELSE StackBeg
    IN  f[ip]
CodeAt(ip, c) == IF ip = StackBeg THEN 0 ELSE Tables[v(ip + 2)].code[c]

\* The words of a record for table t: its backchained vector, its next clause
\* table, filled in from the program context of r, and its fixed part.
RecordWords(r, t, word0, tag) ==
    LET T == Tables[t]
        m == Len(T.link)
        ip(k) == FindIP(r.i, T.link[m + 1 - k])
        ncl(k) == CodeAt(ip(k), T.link[m + 1 - k])
    IN  [k \in 1 .. 2 * T.segs |-> IF k % 2 = 1 THEN W("bck", 0)
                                               ELSE W("mrcp", r.b)]
        \o [k \in 1 .. 2 * m |->
               IF k % 2 = 0 THEN W("nclip", ip(k \div 2))
               ELSE W("ncl", IF ncl((k + 1) \div 2) = 0 THEN FailCode
                             ELSE ncl((k + 1) \div 2))]
        \o <<word0, W("tag", tag), W("pst", t), W("fc", 0), W("pip", r.i),
             W("psts", Cardinality(DOMAIN T.code))>>

VectorSize(t) == 2 * Tables[t].segs + 2 * Len(Tables[t].link)

\* The record at base, on top of the stack, becomes the program context; of
\* the top environment n variables are still needed.
PushRecord(base, t, word0, tag, uc, n) ==
    LET ip  == base + VectorSize(t)
        tos == ip + ImpFixSize
    IN  IF stackError(tos) \/ uc > UCMax
        THEN Overflow
        ELSE /\ stk' = Write(stk, base, RecordWords(reg, t, word0, tag))
             /\ reg' = Next1([reg EXCEPT !.tos = tos, !.i = ip, !.uc = uc])
             /\ ctx' = Append(ctx, ip)
             /\ live' = n
             /\ UNCHANGED <<trail, prog, status, calls, snaps>>

PushImplPoint ==
    /\ Is("push_impl_point")
    /\ PushRecord(findtos(reg, I.n), I.t, W("ce", reg.e), TagImpl, reg.uc, I.n)

NPreds(t) == W("npreds", Len(Tables[t].link))

PushImport ==
    /\ Is("push_import")
    /\ IF Tables[I.t].locals
       THEN PushRecord(reg.tos, I.t, NPreds(I.t), TagImptWL, reg.uc + 1, live)
       ELSE PushRecord(reg.tos, I.t, NPreds(I.t), TagImptWOL, reg.uc, live)

\* The newest n records go.
PopTo(r, n) == /\ reg' = Next1(settosreg(r))
               /\ ctx' = SubSeq(ctx, 1, Len(ctx) - n)
               /\ UNCHANGED <<stk, trail, prog, status, calls, snaps, live>>

PopImplPoint ==
    /\ Is("pop_impl_point")
    /\ PopTo([reg EXCEPT !.i = v(reg.i + 4)], 1)

\* Fault: the universe of the hidden constants of a module stays.
PopRecords_KeepsUC(k) ==
    LET f[j \in 0 .. k] == IF j = 0 THEN reg.i ELSE v(f[j - 1] + 4)
    IN  [reg EXCEPT !.i = f[k]]

\* The program context and the universe count once k records are popped.
PopRecords(k) ==
    LET f[j \in 0 .. k] ==
            IF j = 0 THEN reg
            ELSE LET r == f[j - 1]
                 IN  [r EXCEPT !.uc = IF v(r.i + 1) = TagImptWL THEN @ - 1 ELSE @,
                               !.i = v(r.i + 4)]
    IN  f[k]

PopImports ==
    /\ Is("pop_imports")
    /\ PopTo(PopRecords(I.n), I.n)

\* The nth backchained field of the record the clause comes from.
BCK(n) == reg.ci - 2 * v(reg.ci) - 2 * n

\* Fault: a field that a choice point has seen is not trailed.
SetBCK_NotTrailed(n, count) ==
    LET a == BCK(n)
    IN  /\ UNCHANGED trail
        /\ stk' = [stk EXCEPT ![a] = W("bck", count), ![a + 1] = W("mrcp", reg.b)]

\* The field is trailed if its most recent choice point is below B, and gets
\* a new count.
SetBCK(n, count) ==
    LET a == BCK(n)
    IN  /\ trail' = IF reg.b > v(a + 1)
                    THEN Append(trail, [addr |-> a,
                                        old |-> <<stk[a], stk[a + 1]>>])
                    ELSE trail
        /\ stk' = [stk EXCEPT ![a] = W("bck", count),
                              ![a + 1] = W("mrcp", reg.b)]

AddImports ==
    /\ Is("add_imports")
    /\ LET l == v(BCK(I.n))
       IN  /\ SetBCK(I.n, l + 1)
           /\ reg' = IF l > 0 THEN [reg EXCEPT !.p = I.l]
                     ELSE Next1([reg EXCEPT !.tos = findtos(reg, I.m)])
    /\ UNCHANGED <<status, hist, prog>>

RemoveImports ==
    /\ Is("remove_imports")
    /\ LET l == v(BCK(I.n))
       IN  /\ SetBCK(I.n, l - 1)
           /\ reg' = IF l > 1 THEN [reg EXCEPT !.p = I.l] ELSE Next1(reg)
    /\ UNCHANGED <<status, hist, prog>>

IncrUniverse ==
    /\ Is("incr_universe")
    /\ IF reg.uc = UCMax THEN Overflow
       ELSE Regs(Next1([reg EXCEPT !.uc = @ + 1]))

DecrUniverse == Is("decr_universe") /\ Regs(Next1([reg EXCEPT !.uc = @ - 1]))

-----------------------------------------------------------------------------
\* Calls and returns.

\* Fault: a call keeps the cut point of its caller.
Enter_KeepsB0(r, c) ==
    LET ip == FindIP(r.i, c)
    IN  WithCE([r EXCEPT !.p = CodeAt(ip, c), !.ci = ip])

\* The callee's code, its record, and the cut point: what a call by name, or
\* of a goal given to solve, does when the predicate has code in the context.
Enter(r, c) ==
    LET ip == FindIP(r.i, c)
    IN  WithCE([r EXCEPT !.b0 = r.b, !.p = CodeAt(ip, c), !.ci = ip])

HasCode(c) == CodeAt(FindIP(reg.i, c), c) # 0

\* The callee runs with continuation r.cp in the environment r.e.
Calling(r) == /\ calls' = Append(calls, Caller(r))
              /\ live' = LiveAt(r.e, r.cp)
              /\ UNCHANGED <<stk, trail, prog, status, snaps, ctx>>

CallLabel ==
    /\ Is("call")
    /\ reg' = [reg EXCEPT !.cp = reg.p + 1, !.ce = reg.e, !.b0 = reg.b, !.p = I.l]
    /\ Calling(reg')

CallName ==
    /\ Is("call_name")
    /\ IF HasCode(I.c)
       THEN /\ reg' = Enter([reg EXCEPT !.cp = reg.p + 1], I.c)
            /\ Calling(reg')
       ELSE Fails

Execute == /\ Is("execute")
           /\ Regs([reg EXCEPT !.b0 = reg.b, !.p = I.l])

ExecuteName == /\ Is("execute_name")
               /\ IF HasCode(I.c) THEN Regs(Enter(reg, I.c)) ELSE Fails

\* Back to the caller: what a return leaves behind.
Returning == /\ calls' = Popped
             /\ live' = LiveAt(reg.e, reg.cp)
             /\ UNCHANGED <<stk, trail, prog, snaps, ctx>>

Proceed ==
    /\ Is("proceed")
    /\ IF noEnv
       THEN /\ status' = "result"       \* EM_QUERY_RESULT
            /\ UNCHANGED <<reg, stk, trail, prog, hist>>
       ELSE /\ reg' = WithCE(Return([reg EXCEPT !.ci = envCI]))
            /\ Returning
            /\ UNCHANGED status

-----------------------------------------------------------------------------
\* Choice points.

\* The words of a choice point with n argument registers, of which only the
\* first is modelled.
CPWords(r, n, ncl) ==
    [k \in 1 .. 2 * n |-> IF k = 2 * n - 1 THEN W("a1", r.a1) ELSE Junk]
        \o <<W("cpuc", r.uc), W("cpe", r.e), W("cpcp", r.cp), W("cpi", r.i),
             W("cpci", r.ci), W("cpb", r.b), W("cpb0", r.b0), W("cpll", 0),
             W("cptr", Len(trail)), W("cpncl", ncl), W("cph", 0)>>

\* A choice point on top of the stack; the machine goes on with r.
Push(r, n, ncl) ==
    LET base == findtosEnv(reg)
        tos  == base + CPFixSize + 2 * n
    IN  IF stackError(tos)
        THEN Overflow
        ELSE /\ stk' = Write(stk, base, CPWords(reg, n, ncl))
             /\ reg' = [r EXCEPT !.tos = tos, !.b = tos - 1]
             /\ snaps' = Append(snaps, [b |-> tos - 1, base |-> base, stk |-> stk',
                                        calls |-> calls, ctx |-> ctx])
             /\ UNCHANGED <<trail, prog, status, calls, live, ctx>>

TryMeElse == Is("try_me_else") /\ Push(Next1(reg), I.n, I.l)
TryElse   == Is("try_else") /\ Push([reg EXCEPT !.p = I.k], I.n, I.l)
\* Fault: the label of the clause and that of the next one are swapped.
Try_Swapped == Is("try") /\ Push(Next1(reg), I.n, I.l)

Try       == Is("try") /\ Push([reg EXCEPT !.p = I.l], I.n, reg.p + 1)

\* AM_restoreRegsWoCI and AM_restoreRegs.
RestoreWoCI(n) ==
    LET b == reg.b
    IN  [reg EXCEPT !.b0 = v(b - 4), !.i = v(b - 7), !.cp = v(b - 8),
                    !.e = v(b - 9), !.uc = v(b - 10),
                    !.a1 = IF n > 0 THEN v(b - 12) ELSE @]
RestoreRegs(n) == WithCE([RestoreWoCI(n) EXCEPT !.ci = cpCI(reg.b)])

Discard(r) == settosreg([r EXCEPT !.b = cpB(reg.b)])

Newest == snaps[Len(snaps)]
Older == Init1(snaps)

\* Fault: the same clause is the next one again.
Retrying_KeepsNCL(r, ncl) ==
    /\ reg' = r
    /\ UNCHANGED <<stk, trail, prog, status, hist>>

\* The choice point stays, with another next clause.
Retrying(r, ncl) ==
    /\ reg' = r
    /\ stk' = [stk EXCEPT ![reg.b - 1] = W("cpncl", ncl)]
    /\ UNCHANGED <<trail, prog, status, hist>>

RetryMeElse == Is("retry_me_else") /\ Retrying(Next1(RestoreRegs(I.n)), I.l)
RetryElse   == /\ Is("retry_else")
               /\ Retrying([RestoreRegs(I.n) EXCEPT !.p = I.k], I.l)
Retry       == /\ Is("retry")
               /\ Retrying([RestoreRegs(I.n) EXCEPT !.p = I.l], reg.p + 1)

\* The choice point goes with its last clause.
Trusting(r) ==
    /\ reg' = Discard(r)
    /\ snaps' = Older
    /\ UNCHANGED <<stk, trail, prog, status, calls, live, ctx>>

TrustMe == Is("trust_me") /\ Trusting(Next1(RestoreRegs(I.n)))
Trust   == Is("trust") /\ Trusting([RestoreRegs(I.n) EXCEPT !.p = I.l])

\* The next clause is the one the mth entry of the next clause table has,
\* with its own record.  If that is the fail instruction only B and TOS are
\* reset, TOS from the I register of the attempt that failed.
TrustExt ==
    /\ Is("trust_ext")
    /\ LET ncl == cpCI(reg.b) - 2 * I.m
       IN  IF isFailInstr(v(ncl))
           THEN /\ reg' = Discard([reg EXCEPT !.p = v(ncl)])
                /\ snaps' = Older
                /\ status' = "fail"
                /\ UNCHANGED <<stk, trail, prog, calls, live, ctx>>
           ELSE Trusting(WithCE([RestoreWoCI(I.n) EXCEPT !.p = v(ncl),
                                                        !.ci = v(ncl + 1)]))

\* Is there a clause for the predicate in an outer record?
SwitchOnReg ==
    /\ Is("switch_on_reg")
    /\ Regs([reg EXCEPT !.p = IF isFailInstr(v(reg.ci - 2 * I.n))
                              THEN I.k ELSE I.l])

\* Which way the first argument leads is not modelled.
SwitchOnTerm == /\ Is("switch_on_term")
                /\ \E l \in {I.v, I.c, I.l, I.b} : Regs([reg EXCEPT !.p = l])

SwitchOnConstant ==
    /\ Is("switch_on_constant")
    /\ Fails \/ \E c \in DOMAIN I.tab : Regs([reg EXCEPT !.p = I.tab[c]])

Fail == Is("fail") /\ Fails

\* Each word of the stack as it is once the trail is unwound down to tr.
UnwoundTo(tr) ==
    LET At(a) == {i \in tr + 1 .. Len(trail) : trail[i].addr \in {a - 1, a}}
        Oldest(S) == CHOOSE i \in S : \A j \in S : i <= j
    IN  [a \in DOMAIN stk |->
            IF At(a) = {} THEN stk[a]
            ELSE LET item == trail[Oldest(At(a))]
                 IN  item.old[a - item.addr + 1]]

\* The handler of EM_FAIL in SIM_simulate.  Of a word that was not yet written
\* when the choice point was made nothing is known.
Backtrack ==
    /\ status = "fail"
    /\ IF botCP(reg.b)
       THEN /\ status' = "failed"
            /\ UNCHANGED <<reg, stk, trail, prog, hist>>
       ELSE /\ status' = "run"
            /\ stk' = LET U == UnwoundTo(cpTR(reg.b))
                          Known(a) == \/ a \in Newest.base .. reg.b
                                      \/ /\ a < Newest.base
                                         /\ Newest.stk[a].f # "junk"
                      IN  [a \in Addr |-> IF Known(a) THEN U[a] ELSE Junk]
            /\ trail' = SubSeq(trail, 1, cpTR(reg.b))
            /\ reg' = [reg EXCEPT !.p = cpNCL(reg.b)]
            /\ calls' = Newest.calls
            /\ ctx' = Newest.ctx
            /\ live' = LiveAt(cpE(reg.b), cpCP(reg.b))
            /\ UNCHANGED <<snaps, prog>>

-----------------------------------------------------------------------------
\* Cut: the choice points above b go.
UpTo(b) == SubSeq(snaps, 1, CHOOSE k \in 0 .. Len(snaps) :
                               /\ \A j \in 1 .. k : snaps[j].b <= b
                               /\ k = Len(snaps) \/ snaps[k + 1].b > b)

CutTo(b, r) ==
    /\ reg' = r
    /\ snaps' = UpTo(b)
    /\ UNCHANGED <<stk, trail, prog, status, calls, live, ctx>>

NeckCut == /\ Is("neck_cut")
           /\ CutTo(reg.b0, Next1(settosreg([reg EXCEPT !.b = reg.b0])))

Cut == /\ Is("cut")
       /\ LET b == v(Y(I.y))
          IN  CutTo(b, Next1(settosreg([reg EXCEPT !.b = b])))

-----------------------------------------------------------------------------
\* Unification, as far as the stack goes: it fails, it succeeds, or it binds a
\* free variable of an environment that the callers still need.
EnvChain(e, n, cp) ==
    LET f[k \in StackBeg .. StackEnd] ==
            IF k = StackBeg THEN {}
            ELSE {[e |-> v(k - 1), n |-> LiveAt(v(k - 1), v(k + 1))]}
                    \cup (IF v(k - 1) \in StackBeg .. k - 1 THEN f[v(k - 1)] ELSE {})
    IN  {x \in {[e |-> e, n |-> n]} \cup f[e] : x.e # StackBeg}

FreeVars == {a \in Addr \cap UNION {{x.e + 2 * y : y \in 1 .. x.n} :
                          x \in EnvChain(reg.e, live, reg.cp)} :
             stk[a].f = "free"}

\* Fault: no variable of the stack is trailed.
Bind_NotTrailed(a) ==
    /\ stk' = [stk EXCEPT ![a] = W("bound", 0)]
    /\ reg' = Next1(reg)
    /\ UNCHANGED <<trail, status, hist, prog>>

Bind(a) ==
    /\ trail' = IF a < reg.b
                THEN Append(trail, [addr |-> a, old |-> <<stk[a], stk[a + 1]>>])
                ELSE trail
    /\ stk' = [stk EXCEPT ![a] = W("bound", 0)]
    /\ reg' = Next1(reg)
    /\ UNCHANGED <<status, hist, prog>>

Unify == /\ Is("unify")
         /\ Fails \/ Regs(Next1(reg)) \/ \E a \in FreeVars : Bind(a)

-----------------------------------------------------------------------------
\* Interpreted goals: BIMETA_solve on the goal in A1, reached by a builtin
\* instruction or, within notCode1, by a call_builtin.
SolveReg ==
    IF I.op = "call_solve" THEN [Next1(reg) EXCEPT !.cp = reg.p + 1]
    ELSE IF noEnv THEN Next1(reg)
    ELSE WithCE([Next1(reg) EXCEPT !.ci = envCI])

SolveCalls == IF I.op = "call_solve" THEN Append(calls, Caller(SolveReg)) ELSE calls

Goal == prog.goals[reg.a1]
Solves(kind) == (Is("solve") \/ Is("call_solve")) /\ Goal.kind = kind

SolvePops == IF Len(SolveCalls) > 1 THEN Init1(SolveCalls) ELSE SolveCalls

\* An environment for the continuation cp of a goal, room being required for
\* n variables; its UC field is not written.
SolveIn(r, cp, g, n, vars2, uc) ==
    LET ep == findtosEnv(r) + EnvFixSize
    IN  IF stackError(ep + 2 * n) \/ uc > UCMax
        THEN Overflow
        ELSE /\ reg' = [r EXCEPT !.e = ep - 1, !.cp = cp, !.a1 = g, !.uc = uc,
                                 !.p = SolveCode]
             /\ stk' = Write(stk, ep - 3,
                             EnvWords(r, 0, stk[ep - 1]) \o vars2)
             /\ calls' = Append(SolveCalls, Caller(reg'))
             /\ live' = LiveAt(reg'.e, cp)
             /\ UNCHANGED <<trail, prog, status, snaps, ctx>>

SolveAnd ==
    /\ Solves("and")
    /\ SolveIn(SolveReg, AndCode, Goal.l, 3,
               <<W("goal", Goal.r), Junk, W("level", reg.b0), Junk>>, reg.uc)

SolveAll ==
    /\ Solves("all")
    /\ SolveIn(SolveReg, AllCode, Goal.l, 1, <<>>, reg.uc + 1)

\* Both alternatives of a choice point made by the interpreter: the machine
\* goes on with r and, when that fails, with the code at ncl and goal g.
SolvePush(r, n, g, ncl) ==
    LET old  == SolveReg
        base == findtosEnv(old)
        tos  == base + CPFixSize + 2 * n
    IN  IF stackError(tos)
        THEN Overflow
        ELSE /\ stk' = Write(stk, base, CPWords([old EXCEPT !.a1 = g], n, ncl))
             /\ reg' = [r EXCEPT !.tos = tos, !.b = tos - 1]
             /\ calls' = SolveCalls
             /\ snaps' = Append(snaps, [b |-> tos - 1, base |-> base, stk |-> stk',
                                        calls |-> calls', ctx |-> ctx])
             /\ live' = LiveAt(r.e, r.cp)
             /\ UNCHANGED <<trail, prog, status, ctx>>

\* The first disjunct has the new choice point for a cut point too.
SolveOr ==
    /\ Solves("or")
    /\ SolvePush([SolveReg EXCEPT !.a1 = Goal.l, !.p = SolveCode,
                     !.b0 = findtosEnv(SolveReg) + CPFixSize + 1],
                 1, Goal.r, OrCode)

\* The goal is a builtin predicate: the builtin instruction that BIMETA_solve
\* continues with is run along (it resets cireg), then BIMETA_not.
SolveNot ==
    /\ Solves("not")
    /\ SolvePush([SolveReg EXCEPT !.a1 = Goal.l, !.p = NotCode1, !.b0 = reg.b],
                 0, 0, NotCode2)

SolveStep(r, cs) == /\ reg' = r
                    /\ calls' = cs
                    /\ live' = LiveAt(r.e, r.cp)
                    /\ UNCHANGED <<stk, trail, prog, status, ctx>>

SolveSome == /\ Solves("some")
             /\ SolveStep([SolveReg EXCEPT !.a1 = Goal.l, !.p = SolveCode],
                          SolveCalls)
             /\ UNCHANGED snaps

SolveTrue == /\ Solves("true")
             /\ SolveStep(Return(SolveReg), SolvePops)
             /\ UNCHANGED snaps

\* Only B is reset by an interpreted cut.
SolveCut == /\ Solves("cut")
            /\ SolveStep([Return(SolveReg) EXCEPT !.b = reg.b0], SolvePops)
            /\ snaps' = UpTo(reg.b0)

SolveAtom ==
    /\ Solves("atom")
    /\ IF HasCode(Goal.c)
       THEN SolveStep(Enter(SolveReg, Goal.c), SolveCalls) /\ UNCHANGED snaps
       ELSE Fails

SolveFail == Solves("fail") /\ Fails

SolveStop == /\ Solves("stop")
             /\ SolveStep([SolveReg EXCEPT !.p = StopCode], SolveCalls)
             /\ UNCHANGED snaps

\* EM_TOP_LEVEL and EM_EXIT leave the simulator for good.
Stop == /\ Is("stop") \/ Is("halt")
        /\ status' = "stopped"
        /\ UNCHANGED <<reg, stk, trail, prog, hist>>

-----------------------------------------------------------------------------
\* The driver.

ModuleIP == FstCP + 1 + VectorSize(Top)

\* FRONT_initModuleContext: the backchained vector starts anew, and the
\* hidden constants of the module take a universe of their own.
InitBCK(m) ==
    Write(m, FstCP + 1, [k \in 1 .. 2 * Tables[Top].segs |->
                            IF k % 2 = 1 THEN W("bck", 0) ELSE W("mrcp", FstCP)])

TopUC == IF Tables[Top].locals THEN 1 ELSE 0

\* SINIT_simInit, the import record of the module by FRONT_moduleInstall, and
\* FRONT_initModuleContext.
Init ==
    /\ \E s \in Systems : prog = [s EXCEPT !.code = Boot \o @]
    /\ LET blank == [a \in StackBeg .. StackEnd |-> Junk]
           bare  == Write(blank, StackBeg,
                          <<W("npreds", 0), W("tag", TagImptWOL), W("cph", 0)>>)
           tag   == IF Tables[Top].locals THEN TagImptWL ELSE TagImptWOL
           r     == [tos |-> ModuleIP + ImpFixSize, e |-> StackBeg, b |-> FstCP,
                     b0 |-> FstCP, i |-> StackBeg, ci |-> StackBeg, ce |-> StackBeg,
                     uc |-> TopUC, p |-> FailCode, cp |-> ProceedCode, a1 |-> 0]
       IN  /\ stk = InitBCK(Write(bare, FstCP + 1,
                                  RecordWords(r, Top, NPreds(Top), tag)))
           /\ reg = [r EXCEPT !.i = ModuleIP]
           /\ trail = <<>>
           /\ status = "idle"
           /\ calls = <<>>
           /\ snaps = <<>>
           /\ live = 0
           /\ ctx = <<ModuleIP>>

\* QUERY_solveQuery, for a new query.
StartQuery(g) ==
    /\ status = "idle"
    /\ status' = "run"
    /\ reg' = [reg EXCEPT !.p = SolveCode, !.cp = ProceedCode, !.a1 = g]
    /\ calls' = <<Caller(reg')>>
    /\ UNCHANGED <<stk, trail, prog, snaps, live, ctx>>

\* QUERY_solveQuery again: the simulator is set to fail.
MoreAnswers ==
    /\ status = "result"
    /\ status' = "run"
    /\ reg' = [reg EXCEPT !.p = FailCode]
    /\ UNCHANGED <<stk, trail, prog, hist>>

\* FRONT_cleanModule, SINIT_reInitSimState and FRONT_initModuleContext.
EndQuery ==
    /\ status \in {"result", "failed"}
    /\ status' = "idle"
    /\ reg' = [reg EXCEPT !.i = ModuleIP, !.tos = ModuleIP + ImpFixSize,
                          !.e = StackBeg, !.b = FstCP, !.uc = TopUC]
    /\ trail' = <<>>
    /\ UNCHANGED prog
    /\ stk' = InitBCK(stk)
    /\ calls' = <<>>
    /\ snaps' = <<>>
    /\ live' = 0
    /\ ctx' = <<ModuleIP>>

-----------------------------------------------------------------------------

Step ==
    \/ Allocate \/ Deallocate
    \/ PutVariable \/ TagVariable \/ TagExists \/ SetUnivTag
    \/ GetVariable \/ InitVariable \/ ToRegister \/ GetLevel \/ PutLevel \/ PutGoal
    \/ PushImplPoint \/ PopImplPoint
    \/ AddImports \/ RemoveImports \/ PushImport \/ PopImports
    \/ IncrUniverse \/ DecrUniverse
    \/ CallLabel \/ CallName \/ Execute \/ ExecuteName \/ Proceed
    \/ TryMeElse \/ TryElse \/ Try
    \/ RetryMeElse \/ RetryElse \/ Retry
    \/ TrustMe \/ Trust \/ TrustExt
    \/ SwitchOnReg \/ SwitchOnTerm \/ SwitchOnConstant \/ Fail \/ Backtrack \/ NeckCut \/ Cut \/ Unify
    \/ SolveAnd \/ SolveOr \/ SolveSome \/ SolveAll \/ SolveTrue
    \/ SolveCut \/ SolveNot \/ SolveAtom \/ SolveFail \/ SolveStop
    \/ Stop

Next == \/ \E g \in prog.queries : StartQuery(g)
        \/ MoreAnswers \/ EndQuery
        \/ Step

Spec == Init /\ [][Next]_vars

\* SIM_simulate never waits: the machine takes steps as long as it can.
FairSpec == Spec /\ WF_vars(Step)

-----------------------------------------------------------------------------
Statuses == {"idle", "run", "fail", "result", "failed", "stopped", "error"}

\* Type invariant: the registers stay within the stack and the code.  (CI is
\* not reset between queries, and what is read into CE through it may be
\* anything: ClosureAlive says where CE counts.)
TypeOK ==
    /\ DOMAIN stk = Addr
    /\ {reg.tos, reg.e, reg.b, reg.b0, reg.i, reg.ci} \subseteq Addr
    /\ reg.p \in 1 .. Len(Code) /\ reg.cp \in 1 .. Len(Code)
    /\ reg.uc \in 0 .. UCMax
    /\ \A k \in 1 .. Len(trail) : trail[k].addr \in Addr
    /\ status \in Statuses
    /\ live \in Nat

\* Every call still to return, from here or after backtracking to any choice
\* point, finds the environment of its caller as it left it: the return
\* address and the caller's caller are those of the call before.  Trimming,
\* last calls and TOS never let a record be laid over one that is needed.
Linked(cs) == \A j \in 2 .. Len(cs) :
                 /\ stk[cs[j].e + 1] = W("cp", cs[j - 1].ret)
                 /\ stk[cs[j].e - 1] = W("ce", cs[j - 1].e)

ContinuationsIntact == /\ Linked(calls)
                       /\ \A k \in 1 .. Len(snaps) : Linked(snaps[k].calls)

\* A predicate that succeeds returns to the call it was entered for, with the
\* program context and the universe count of that call: what implications,
\* imports and universal goals added in between has been taken away again.
ReturnsHome ==
    Is("proceed") =>
       LET c == calls[Len(calls)]
       IN  /\ reg.cp = c.ret /\ reg.e = c.e
           /\ reg.i = c.i /\ reg.uc = c.uc

\* The instructions that restore the registers from a choice point.
Alternatives == {"retry_me_else", "retry_else", "retry",
                 "trust_me", "trust", "trust_ext"}

\* The extents of the records that the machine may still read.
EnvExtents(e, n, cp) ==
    {[at |-> x.e, lo |-> x.e - 2, hi |-> x.e + 1 + 2 * x.n] :
        x \in EnvChain(e, n, cp)}

ImpExtents(ip) ==
    LET f[i \in Addr] ==
            IF i = StackBeg THEN {}
            ELSE {[at |-> i, lo |-> i - VectorSize(v(i + 2)), hi |-> i + 5]}
                    \cup (IF v(i + 4) \in StackBeg .. i - 1 THEN f[v(i + 4)] ELSE {})
    IN  f[ip]

CPExtents(s) ==
    LET cp == cpCP(s.b)
        e  == cpE(s.b)
    IN  {[at |-> s.b, lo |-> s.base, hi |-> s.b]}
           \cup EnvExtents(e, LiveAt(e, cp), cp)
           \cup ImpExtents(v(s.b - 7))

Extents == EnvExtents(reg.e, live, reg.cp) \cup ImpExtents(reg.i)
              \cup UNION {CPExtents(snaps[k]) : k \in 1 .. Len(snaps)}

\* The records in use never share a word, and all of them lie between
\* AM_fstCP and the place where the next record is put.
RecordsApart ==
    status = "run" /\ I.op \notin Alternatives =>
       /\ \A x, y \in Extents : x.at = y.at \/ x.hi < y.lo \/ y.hi < x.lo
       /\ \A x \in Extents : /\ FstCP < x.lo
                             /\ x.hi < findtos(reg, live)

\* Backtracking brings back every word that was known when the choice point
\* was made, whatever was bound, counted, pushed or cut since.
Restored ==
    \A k \in 1 .. Len(snaps) :
       LET s == snaps[k]
           U == UnwoundTo(cpTR(s.b))
       IN  \A a \in FstCP + 1 .. s.b :
              \/ s.stk[a].f = "junk" \/ a = s.b - 1
              \/ U[a] = s.stk[a]

\* The same of the backchained fields alone: after backtracking the machine
\* knows again how often each module's imports are in the context.
CountsRestored ==
    \A k \in 1 .. Len(snaps) :
       LET s == snaps[k]
           U == UnwoundTo(cpTR(s.b))
       IN  \A a \in FstCP + 1 .. s.base - 1 :
              s.stk[a].f \in {"bck", "mrcp"} => U[a] = s.stk[a]

\* A cut goes back to a choice point that still exists, and a level kept for
\* a later cut names one.
CutsToLive ==
    /\ Is("neck_cut") \/ Is("get_level") \/ Solves("cut") =>
          reg.b0 \in ChoicePoints
    /\ Is("cut") => stk[Y(I.y)].f = "level" /\ v(Y(I.y)) \in ChoicePoints

\* The sizes by which environments are trimmed leave every variable in place
\* for as long as the clause has a use for it, and a variable has a value by
\* the time it is read.
Values == {"free", "bound", "univ", "arg", "ref"}
HasValue(a) == stk[a].f \in Values

SlotsAlive ==
    /\ status = "run" /\ "y" \in DOMAIN I => I.y <= live
    /\ Is("put_value") => HasValue(Y(I.y))

\* A clause of an implication finds the variables it shares with the clause
\* the implication is in: that environment is still there, the variable not
\* yet trimmed away, and set.
ClosureAlive ==
    Is("init_variable") \/ Is("init_variable_t") =>
       /\ \E x \in EnvChain(reg.e, live, reg.cp) : x.e = reg.ce /\ I.m <= x.n
       /\ HasValue(Clenv(I.m))

\* The instructions for the second and later clauses of a predicate are only
\* come to by backtracking to the choice point that names them.  (Not in merged
\* code, where try_else has its labels swapped: see NoneSkipped of Indexing.)
AlternativesByBacktracking ==
    status = "run" /\ I.op \in Alternatives /\ ~prog.merged =>
       /\ ~botCP(reg.b)
       /\ cpNCL(reg.b) = reg.p

\* Each query comes to an end: an answer, failure or an error.
QueryEnds == (status = "run") ~> (status \notin {"run", "fail"})

=============================================================================
