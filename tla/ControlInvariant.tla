-------------------------- MODULE ControlInvariant --------------------------
(***************************************************************************)
(* The inductive invariant behind the properties of Control, for programs  *)
(* whose code is well shaped.                                              *)
(*                                                                         *)
(* A view is what a clause can rely upon: a stack m, registers r, how many *)
(* variables n of the top environment are needed, the calls cs and the     *)
(* records cx of its context, the choice points ps, and the shape s of the *)
(* code where it goes on.  The machine has one view while it runs, and     *)
(* each choice point keeps another, of the stack when it was made.         *)
(***************************************************************************)
EXTENDS Shapes

CodeShapes == Shapes(Code)
ShapeAt(q) == CodeShapes[q]
Cutters == CutGoalsOf(prog)

Points(ps) == {FstCP} \cup {ps[k].b : k \in 1 .. Len(ps)}
LastB(ps) == IF ps = <<>> THEN FstCP ELSE ps[Len(ps)].b

\* A sequence, whatever its elements.
IsSeq(s) == s \in Seq({s[k] : k \in 1 .. Len(s)})

\* The machine may go on at l where the shape is s.
Goes(s, l) == LeadsTo(Code, CodeShapes, s, l)

-----------------------------------------------------------------------------
\* The records of the program context.
RecStart(m, x) == x - VectorSize(m[x + 2].v)
RecEnd(x) == x + ImpFixSize
Links(m, x) == Len(Tables[m[x + 2].v].link)

\* The code for the yth predicate that the kth record extends: none, or that
\* of an older record.
NextClause(m, cx, k, y) ==
    LET l == m[cx[k] - 2 * y].v
        ip == m[cx[k] - 2 * y + 1].v
    IN  /\ m[cx[k] - 2 * y].f = "ncl" /\ m[cx[k] - 2 * y + 1].f = "nclip"
        /\ \/ l = FailCode
           \/ \E j \in 1 .. k - 1 : /\ ip = cx[j]
                                    /\ Goes(Extended(Links(m, cx[j])), l)

Record(m, cx, k) ==
    LET x == cx[k]
    IN  /\ RecEnd(x) <= StackEnd
        /\ m[x + 2].f = "pst" /\ m[x + 2].v \in DOMAIN Tables
        /\ FstCP < RecStart(m, x)
        /\ m[x + 4] = W("pip", IF k = 1 THEN StackBeg ELSE cx[k - 1])
        /\ \A j \in 1 .. k - 1 : RecEnd(cx[j]) <= RecStart(m, x)
        /\ \A y \in 1 .. Links(m, x) : NextClause(m, cx, k, y)

Records(m, cx) ==
    /\ cx \in Seq(Nat) /\ cx # <<>> /\ cx[1] = ModuleIP
    /\ \A k \in 1 .. Len(cx) : Record(m, cx, k)

-----------------------------------------------------------------------------
\* Where records, environments and choice points lie.
EnvEnd(f) == f.e + 2 + 2 * f.n

Frames(e, n, cs) ==
    {[e |-> cs[j].e, n |-> CallI1(cs[j].ret)] : j \in 2 .. Len(cs)}
       \cup (IF e = StackBeg THEN {} ELSE {[e |-> e, n |-> n]})

\* The environment f is before, or after, what lies from a up to z.
Beside(f, a, z) == z <= f.e - 2 \/ EnvEnd(f) <= a

Placed(m, f, cx, ps) ==
    /\ f.e \in Nat /\ f.n \in Nat
    /\ FstCP < f.e - 2 /\ EnvEnd(f) <= StackEnd + 1
    /\ \A k \in 1 .. Len(cx) : Beside(f, RecStart(m, cx[k]), RecEnd(cx[k]))
    /\ \A k \in 1 .. Len(ps) : Beside(f, ps[k].base, ps[k].b + 1)

Layout(m, fs, tos, cx, ps) ==
    /\ \A k \in 1 .. Len(cx) : RecStart(m, cx[k]) \in Nat /\ RecEnd(cx[k]) \in Nat
    /\ \A k \in 1 .. Len(ps) : ps[k].base \in Nat /\ ps[k].b \in Nat
    /\ \A f \in fs : Placed(m, f, cx, ps) /\ Beside(f, tos, tos)
    /\ \A f, g \in fs : (f.e = g.e /\ f.n = g.n) \/ Beside(f, g.e - 2, EnvEnd(g))
    /\ \A k \in 1 .. Len(cx), l \in 1 .. Len(ps) :
          RecEnd(cx[k]) <= ps[l].base \/ ps[l].b < RecStart(m, cx[k])
    /\ \A k \in 1 .. Len(cx) : RecEnd(cx[k]) <= tos
    /\ \A k \in 1 .. Len(ps) : ps[k].b < tos
    /\ tos \in Addr

-----------------------------------------------------------------------------
\* Environments.
Slot(m, a, kind) ==
    /\ kind = "none" => m[a].f = "junk"
    /\ kind = "value" => m[a].f \in Values
    /\ kind = "level" => m[a].f = "level"
    /\ kind = "goal" => m[a].f = "goal" /\ m[a].v \in DOMAIN prog.goals
    /\ kind = "cut" => m[a].f = "level" /\ m[a].v \in Addr
    /\ m[a + 1].f = "junk"

\* An environment at e of a clause of shape s, called by c.
Environment(m, c, e, s) ==
    /\ m[e + 1] = W("cp", c.ret) /\ m[e - 1] = W("ce", c.e)
    /\ m[e - 2].f = "ci" /\ m[e - 2].v \in Addr
    /\ \A y \in 1 .. s.n : /\ Slot(m, e + 2 * y, s.slot[y])
                           /\ s.slot[y] = "cut" => s.slot[1] = "goal"

\* Where a cut in goal g, solved for c, may go back to: no other goal has one.
CutPoint(ps, c, g, b) ==
    \/ b \in Points(ps) /\ c.floor <= b
    \/ g \notin Cutters /\ c.floor = FstCP

Levels(m, c, e, s, ps) ==
    \A y \in 1 .. s.n :
       LET b == m[e + 2 * y].v
       IN  /\ s.slot[y] = "level" =>
                 /\ b \in Points(ps) /\ c.floor <= b
                 /\ \A z \in 1 .. s.n : s.slot[z] = "level" => m[e + 2 * z].v = b
           /\ s.slot[y] = "cut" => CutPoint(ps, c, m[e + 2].v, b)

\* What the clause called by c, suspended in its call d, may still cut, d has
\* not cut.
Spared(m, c, d, s) ==
    \A y \in 1 .. s.n :
       LET b == m[d.e + 2 * y].v
       IN  /\ s.slot[y] = "level" => b <= d.floor
           /\ s.slot[y] = "cut" =>
                 b <= d.floor \/ (m[d.e + 2].v \notin Cutters /\ c.floor = FstCP)

\* The shape s is that of the return address of a call.
ReturnsTo(s, ret) ==
    /\ s.own /\ s.cut = "none" /\ s.a1 = "any" /\ s.ext = 0
    /\ s.n \in Nat /\ CallI1(ret) = s.n
    /\ Code[ret].op \notin Alternatives

\* The clause called by c waits for its call d.
Suspended(m, c, d, ps) ==
    LET s == ShapeAt(d.ret)
    IN  /\ ReturnsTo(s, d.ret)
        /\ Environment(m, c, d.e, s) /\ Levels(m, c, d.e, s, ps) /\ Spared(m, c, d, s)
        /\ s.univ \in Nat /\ d.uc = c.uc + s.univ
        /\ s.pushed \in Nat /\ Len(d.ctx) = Len(c.ctx) + s.pushed

Called(c, cx, ps) ==
    /\ c.ret \in DOMAIN Code /\ c.uc \in 0 .. UCMax /\ c.e \in Nat
    /\ c.floor \in Nat /\ c.floor \in Points(ps)
    /\ Len(c.ctx) \in 1 .. Len(cx) /\ c.i = cx[Len(c.ctx)]

Calls(m, cs, cx, ps) ==
    /\ IsSeq(cs) /\ cs # <<>>
    /\ cs[1].e = StackBeg /\ cs[1].ret = ProceedCode
    /\ \A j \in 1 .. Len(cs) : Called(cs[j], cx, ps)
    /\ \A j \in 1 .. Len(cs), i \in 1 .. Len(cs) :
          i < j => /\ cs[i].e < cs[j].e /\ cs[i].floor <= cs[j].floor
                   /\ Len(cs[i].ctx) <= Len(cs[j].ctx)
    /\ \A j \in 2 .. Len(cs) : Suspended(m, cs[j - 1], cs[j], ps)

\* The clause that is being run, called by c: its environment, or its caller's;
AtEnv(m, r, n, c, ps, s) ==
    /\ n \in Nat
    /\ s.own => /\ n = s.n /\ c.e < r.e /\ r.e \in Nat
                /\ Environment(m, c, r.e, s) /\ Levels(m, c, r.e, s, ps)
    /\ ~s.own => r.e = c.e /\ r.cp = c.ret /\ n = LiveAt(c.e, c.ret)

\* its program context and universe count;
InContext(r, c, cx, s) ==
    /\ s.univ \in Nat /\ r.uc = c.uc + s.univ /\ r.uc \in 0 .. UCMax
    /\ s.pushed \in Nat /\ Len(cx) = Len(c.ctx) + s.pushed
    /\ r.i = cx[Len(cx)]

\* the record it comes from; its cut point; the goal in a1.
FromRecord(m, r, c, cx, s) ==
    /\ s.ext \in Nat
    /\ s.ext > 0 => \E k \in 1 .. Len(c.ctx) : r.ci = cx[k] /\ s.ext <= Links(m, cx[k])

CutKnown(m, r, c, ps, s) ==
    /\ s.cut = "clause" =>
          /\ r.b0 \in Points(ps) /\ c.floor <= r.b0
          /\ s.own => \A y \in 1 .. s.n : s.slot[y] = "level" => m[r.e + 2 * y].v = r.b0
    /\ s.cut = "goal" => CutPoint(ps, c, r.a1, r.b0)

GoalKnown(m, r, s) ==
    /\ s.a1 # "any" => r.a1 \in DOMAIN prog.goals
    /\ s.a1 = "slot" => s.own /\ 0 < s.n /\ s.slot[1] = "goal" /\ r.a1 = m[r.e + 2].v

Running(m, r, n, c, cx, ps, s) ==
    /\ AtEnv(m, r, n, c, ps, s)
    /\ InContext(r, c, cx, s)
    /\ FromRecord(m, r, c, cx, s)
    /\ CutKnown(m, r, c, ps, s)
    /\ GoalKnown(m, r, s)

View(m, r, n, cs, cx, ps, s) ==
    /\ Records(m, cx)
    /\ Layout(m, Frames(r.e, n, cs), r.tos, cx, ps)
    /\ Calls(m, cs, cx, ps)
    /\ Running(m, r, n, cs[Len(cs)], cx, ps, s)

-----------------------------------------------------------------------------
\* Choice points, in the stack m, and the trail tr.
Mark(s) == s.stk[s.b - 2].v
Below(ps, k) == SubSeq(ps, 1, k - 1)

\* The registers that a choice point keeps.
SavedRegs(s) ==
    LET m == s.stk
        b == s.b
    IN  [tos |-> s.base, uc |-> m[b - 10].v, e |-> m[b - 9].v, cp |-> m[b - 8].v,
         i |-> m[b - 7].v, ci |-> m[b - 6].v, b |-> m[b - 5].v, b0 |-> m[b - 4].v,
         a1 |-> m[b - 12].v]

SavedLive(s) == LiveAt(SavedRegs(s).e, SavedRegs(s).cp)

\* The environments that a choice point keeps.
KeptFrames(s) == Frames(SavedRegs(s).e, SavedLive(s), s.calls)

\* Those of the environments fs and the records cx that lie below the choice
\* point d are among those it keeps, and no more of them is needed than there.
Inherits(fs, cx, d) ==
    /\ \A f \in fs : f.e < d.base => \E g \in KeptFrames(d) : f.e = g.e /\ f.n <= g.n
    /\ \A k \in 1 .. Len(cx) : cx[k] < d.base => \E j \in 1 .. Len(d.ctx) : cx[k] = d.ctx[j]

Heir(fs, cx, ps) == \A k \in 1 .. Len(ps) : Inherits(fs, cx, ps[k])

\* Of this word nothing was known when the choice point was made.
Unknown(s, a) == a < s.base /\ s.stk[a].f = "junk"

\* What is known of a word still is known, but that it may have been bound.
Keeps(s, m) ==
    /\ \A a \in StackBeg .. s.b : \/ Unknown(s, a) \/ a = s.b - 1
                                  \/ m[a] = s.stk[a]
                                  \/ s.stk[a].f = "free" /\ m[a].f = "bound"
    /\ m[s.b - 1].f = "cpncl"

\* Then the trail tr has it, up to item z.
Trailed(s, m, tr, z) ==
    \A a \in StackBeg .. s.b :
       s.stk[a].f = "free" /\ m[a].f = "bound" =>
          \E i \in Mark(s) + 1 .. z : tr[i].addr = a

\* The trail item has what the choice point knows.
Logged(s, item) ==
    /\ item.addr # s.b - 1 /\ item.addr # s.b - 2
    /\ \A w \in 0 .. 1 : item.addr + w <= s.b =>
          Unknown(s, item.addr + w) \/ item.old[w + 1] = s.stk[item.addr + w]

\* After a free variable comes the unused half of its slot; words of which
\* nothing is known are all alike.
Spaced(m) == \A a \in Addr : m[a].f = "free" /\ a + 1 \in Addr =>
                                m[a + 1].f \notin {"free", "bound"}
Tidy(m) == /\ DOMAIN m = Addr /\ Spaced(m)
           /\ \A a \in Addr : m[a].f = "junk" => m[a] = Junk

\* The record of the module that queries are put to is the first one.
Rooted(m) == Record(m, <<ModuleIP>>, 1) /\ m[ModuleIP + 2].v = Top

\* The choice point as it was made.
Made(ps, k) ==
    LET s == ps[k]
        r == SavedRegs(s)
    IN  /\ s.b \in Addr /\ s.base \in Nat
        /\ FstCP < s.base /\ s.base + CPFixSize - 1 <= s.b
        /\ Tidy(s.stk)
        /\ \A d \in 0 .. CPFixSize - 1 : s.stk[s.b - d].f \notin {"junk", "free", "bound"}
        /\ {r.e, r.b0, r.i, r.ci} \subseteq Addr /\ r.cp \in DOMAIN Code /\ r.e < s.base
        /\ r.b = LastB(Below(ps, k))
        /\ Mark(s) \in Nat
        /\ \A j \in 1 .. k - 1 : /\ ps[j].b < s.base /\ Mark(ps[j]) <= Mark(s)
                                 /\ Keeps(ps[j], s.stk)
                                 /\ Inherits(KeptFrames(s), s.ctx, ps[j])

\* The alternative at q may be gone on with.
Waits(ps, k, q) ==
    LET d == ps[k]
        r == SavedRegs(d)
        s == ShapeAt(q)
    IN  /\ q \in DOMAIN Code /\ Code[q].op \in Alternatives
        /\ View(d.stk, r, SavedLive(d), d.calls, d.ctx, Below(ps, k), s)
        /\ ~s.own
        /\ s.cut = "goal" \/ s.a1 # "any" => d.base + CPFixSize + 1 <= d.b

\* Backtracking brings back what it knows.
Kept(m, tr, ps, k) ==
    LET s == ps[k]
    IN  /\ Mark(s) <= Len(tr)
        /\ Keeps(s, m) /\ Trailed(s, m, tr, Len(tr))
        /\ \A i \in Mark(s) + 1 .. Len(tr) : Logged(s, tr[i])
        /\ \A j \in 1 .. k - 1 : Trailed(ps[j], s.stk, tr, Mark(s))

Memory(m, tr, ps) ==
    /\ Tidy(m) /\ Rooted(m)
    /\ IsSeq(tr) /\ \A k \in 1 .. Len(tr) : tr[k].addr \in Addr
    /\ IsSeq(ps)
    /\ \A k \in 1 .. Len(ps) : Made(ps, k) /\ Waits(ps, k, m[ps[k].b - 1].v)
                               /\ Kept(m, tr, ps, k)

-----------------------------------------------------------------------------
\* The machine comes back to its newest choice point.
Resumed ==
    LET s == Newest
    IN  /\ snaps # <<>>
        /\ \A a \in StackBeg .. s.b :
              a = s.b - 1 \/ stk[a] = s.stk[a] \/ (Unknown(s, a) /\ stk[a].f = "junk")
        /\ calls = s.calls /\ ctx = s.ctx
        /\ reg.p = stk[s.b - 1].v
        /\ live = SavedLive(s)

Idle == /\ calls = <<>> /\ snaps = <<>> /\ trail = <<>> /\ ctx = <<ModuleIP>>
        /\ reg.i = ModuleIP /\ reg.e = StackBeg /\ reg.tos = RecEnd(ModuleIP)
        /\ reg.uc = TopUC /\ live = 0

IsLive == status = "run" /\ I.op \notin Alternatives \cup Halting

\* Also where it only stops or fails, the machine has some view; what it shares
\* with a choice point is what the choice point keeps.
Using == (status = "run" /\ I.op \notin Alternatives) \/ status = "result"
InUse == /\ \E t : View(stk, reg, live, calls, ctx, snaps, t)
         /\ Heir(Frames(reg.e, live, calls), ctx, snaps)

Joined(m, cs) == \A j \in 2 .. Len(cs) : /\ m[cs[j].e + 1] = W("cp", cs[j - 1].ret)
                                          /\ m[cs[j].e - 1] = W("ce", cs[j - 1].e)

Registers(r, ps) ==
    /\ DOMAIN r = {"tos", "e", "b", "b0", "i", "ci", "ce", "uc", "p", "cp", "a1"}
    /\ {r.tos, r.e, r.b, r.b0, r.i, r.ci} \subseteq Addr
    /\ r.p \in DOMAIN Code /\ r.cp \in DOMAIN Code /\ r.uc \in 0 .. UCMax
    /\ r.b = LastB(ps) /\ r.b < r.tos
    /\ RecEnd(r.i) <= StackEnd

Loaded == \E s \in Systems : prog = [s EXCEPT !.code = Boot \o @]

IInv ==
    /\ Loaded
    /\ status \in Statuses /\ live \in Nat
    /\ Memory(stk, trail, snaps)
    /\ Registers(reg, snaps)
    /\ Joined(stk, calls)
    /\ status = "idle" => Idle
    /\ IsLive => View(stk, reg, live, calls, ctx, snaps, ShapeAt(reg.p))
    /\ Using => InUse
    /\ status = "run" /\ I.op \in Alternatives => Resumed

-----------------------------------------------------------------------------
\* What the clauses of implications rely upon besides.
CodeHomes == Homes(prog)
CodePushes == Pushes(Code)

\* The clause called by c comes from ci, a record for table t, if that is known.
ComesFrom(m, ci, c, cx, t) ==
    t # NoTable => \E k \in 2 .. Len(c.ctx) : ci = cx[k] /\ m[cx[k] + 2].v = t

\* The records that the clause called by c has pushed by q lend the clause's
\* environment, at e, which has kept where the clause comes from.
Lends(m, c, e, q, cx) ==
    /\ \A k \in 1 .. Len(CodePushes[q]) :
          /\ m[cx[Len(c.ctx) + k]].v = e
          /\ m[cx[Len(c.ctx) + k] + 2].v = CodePushes[q][k]
    /\ ComesFrom(m, m[e - 2].v, c, cx, CodeHomes[q])

\* The yth predicate that the kth record extends has its code from the record
\* that is kept with it.
NextHome(m, cx, k, y) ==
    LET t == CodeHomes[m[cx[k] - 2 * y].v]
    IN  t # NoTable => \E j \in 2 .. k - 1 : /\ m[cx[k] - 2 * y + 1].v = cx[j]
                                             /\ m[cx[j] + 2].v = t

Implications(m, cx) ==
    /\ \A k \in 1 .. Len(cx) : \A y \in 1 .. Links(m, cx[k]) : NextHome(m, cx, k, y)
    /\ \A k \in 2 .. Len(cx) : m[cx[k]].f = "ce" /\ m[cx[k] + 1] = W("tag", TagImpl)

\* So do the clauses that wait for their calls.
Lending(m, cs, cx) ==
    /\ Len(cs[1].ctx) = 1
    /\ \A j \in 2 .. Len(cs) : Lends(m, cs[j - 1], cs[j].e, cs[j].ret, cx)

\* Of a clause that goes on at q, with its environment, if any, at e.
Closures(m, e, ci, cs, cx, q) ==
    /\ Implications(m, cx)
    /\ Lending(m, cs, cx)
    /\ ShapeAt(q).own => Lends(m, cs[Len(cs)], e, q, cx)
    /\ ComesFrom(m, ci, cs[Len(cs)], cx, CodeHomes[q])

\* CE is the environment that the record in CI lends.
Enclosed(m, r, q) == CodeHomes[q] # NoTable => r.ce = m[r.ci].v

\* Also of one that a choice point may resume.
Resumes(m, d) == Closures(d.stk, SavedRegs(d).e, SavedRegs(d).ci, d.calls, d.ctx, m[d.b - 1].v)

\* The second inductive invariant.
CInv ==
    /\ IsLive => Closures(stk, reg.e, reg.ci, calls, ctx, reg.p) /\ Enclosed(stk, reg, reg.p)
    /\ \A k \in 1 .. Len(snaps) : Resumes(stk, snaps[k])
=============================================================================
