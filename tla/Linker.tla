------------------------------- MODULE Linker -------------------------------
(***************************************************************************)
(* How the linker puts together the definitions that accumulated modules   *)
(* have for one predicate (linker/code.c, MergeHashTabs of                 *)
(* linker/hashtab.c): the code of the younger definition is patched so     *)
(* that the older one follows.  Code is a sequence of instructions; what   *)
(* the linker deletes becomes "fail".  try_else and retry_else have two    *)
(* labels, l and k, in the order in which the instruction holds them.      *)
(***************************************************************************)
EXTENDS Integers, Sequences, TLC

Deleted == [op |-> "fail"]

\* The code after a merge, and where the merged sequence starts.
Merged(code, at) == [code |-> code, at |-> at]
Label(code, i, at) == [code EXCEPT ![i].l = at]
Become(code, i, op) == [code EXCEPT ![i].op = op]
Del(code, i) == [code EXCEPT ![i] = Deleted]

-----------------------------------------------------------------------------
\* try/retry/trust sequences.
IsPlural(code, s) == code[s].op \in {"try", "try_else"}

\* The instruction of a sequence that comes after the one at c.
Following(code, c) == IF code[c].op \in {"try", "retry"} THEN c + 1 ELSE code[c].k

RECURSIVE TrustOf(_, _)
TrustOf(code, c) ==
    IF code[c].op = "trust" THEN c ELSE TrustOf(code, Following(code, c))

\* The first instruction of a sequence that is no longer the first.
Continue(code, s) ==
    Become(code, s, IF code[s].op = "try" THEN "retry" ELSE "retry_else")

TrustAt(n, l) == [op |-> "trust", n |-> n, l |-> l]
SetTryElseL2(code, c, op, at) ==
    [code EXCEPT ![c] = [op |-> op, n |-> @.n, l |-> @.l, k |-> at]]

\* MergeSubSequence.
MergeSubSequence(code, younger, older, n) ==
    LET new == Len(code) + 1
        c   == TrustOf(code, younger)
    IN  CASE IsPlural(code, younger) /\ IsPlural(code, older) ->
                Merged(SetTryElseL2(Continue(code, older), c, "retry_else", older),
                       younger)
          [] IsPlural(code, younger) /\ ~IsPlural(code, older) ->
                Merged(Append(SetTryElseL2(code, c, "retry_else", new),
                              TrustAt(n, older)), younger)
          [] ~IsPlural(code, younger) /\ IsPlural(code, older) ->
                Merged(Append(Continue(code, older),
                              [op |-> "try_else", n |-> n, l |-> younger, k |-> older]),
                       new)
          [] OTHER ->
                Merged(code \o << [op |-> "try", n |-> n, l |-> younger],
                                  TrustAt(n, older) >>, new)

\* MergeHashTabs: the entries cs of the older table go into the younger one,
\* that of the switch_on_constant at c.
RECURSIVE MergeHashTabs(_, _, _, _, _)
MergeEntry(code, c, tab, k, n) ==
    IF k \notin DOMAIN code[c].tab
    THEN [code EXCEPT ![c].tab = @ @@ (k :> tab[k])]
    ELSE LET m == MergeSubSequence(code, code[c].tab[k], tab[k], n)
         IN  [m.code EXCEPT ![c].tab[k] = m.at]
MergeHashTabs(code, c, tab, cs, n) ==
    IF cs = {} THEN code
    ELSE LET k == CHOOSE x \in cs : TRUE
         IN  MergeHashTabs(MergeEntry(code, c, tab, k, n), c, tab, cs \ {k}, n)

-----------------------------------------------------------------------------
\* The constant and the list clauses of two switch_on_term instructions.

MergeConstants(code, y, o, n) ==
    LET c == code[y].c
        d == code[o].c
    IN  CASE code[d].op # "switch_on_constant" -> code
          [] code[c].op # "switch_on_constant" -> [code EXCEPT ![y].c = d]
          [] OTHER -> MergeHashTabs(Del(code, d), c, code[d].tab,
                                    DOMAIN code[d].tab, n)

MergeLists(code, y, o, n) ==
    LET c == code[y].l
        d == code[o].l
    IN  CASE code[d].op = "fail" -> code
          [] code[c].op = "fail" -> Label(code, y, d)
          [] OTHER -> LET m == MergeSubSequence(code, c, d, n)
                      IN  Label(m.code, y, m.at)

-----------------------------------------------------------------------------
\* Sequences of clauses.
IsSwitch(code, a) == code[a].op = "switch_on_term"

\* The last clause of several.
RECURSIVE LastClause(_, _)
LastClause(code, c) ==
    IF code[code[c].l].op = "retry_me_else" THEN LastClause(code, code[c].l)
    ELSE code[c].l

\* A choice instruction in the room left before a single clause at s.
Room(code, s, op, n, l) == [code EXCEPT ![s - 1] = [op |-> op, n |-> n, l |-> l]]

RECURSIVE MergeSequence(_, _, _, _)
\* MergeTerm: the switch_on_term at o goes into the one at y.  The code that
\* is labelled for a bound variable is not touched: it is that of all clauses.
MergeTerm(code, y, o, n) ==
    LET m == MergeSequence(code, code[y].v, code[o].v, n)
        v == [m.code EXCEPT ![y].v = m.at]
    IN  Del(MergeLists(MergeConstants(v, y, o, n), y, o, n), o)

\* The last clause is no longer the last.
Retry(code, c, l) ==
    [code EXCEPT ![c] = [op |-> "retry_me_else", n |-> @.n, l |-> l]]

\* The clauses at older follow those at younger.  If a switch ends the one and
\* starts the other they become one.
MergePlurals(code, younger, older, n, c) ==
    IF IsSwitch(code, c + 1) /\ IsSwitch(code, older + 1)
    THEN MergeTerm(Del(Retry(code, c, code[older].l), older), c + 1, older + 1, n)
    ELSE Become(Retry(code, c, older), older, "retry_me_else")

MergeSequence(code, younger, older, n) ==
    LET plural(s) == code[s].op = "try_me_else"
        c == LastClause(code, younger)
    IN  CASE plural(younger) /\ plural(older) ->
                Merged(MergePlurals(code, younger, older, n, c), younger)
          [] plural(younger) /\ ~plural(older) ->
                Merged(IF IsSwitch(code, c + 1) /\ IsSwitch(code, older)
                       THEN MergeTerm(code, c + 1, older, n)
                       ELSE Retry(Room(code, older, "trust_me", n, 0), c, older - 1),
                       younger)
          [] ~plural(younger) /\ plural(older) ->
                Merged(IF IsSwitch(code, younger) /\ IsSwitch(code, older + 1)
                       THEN MergeTerm(Del(Room(code, younger, "try_me_else", n,
                                               code[older].l), older),
                                      younger, older + 1, n)
                       ELSE Become(Room(code, younger, "try_me_else", n, older),
                                   older, "retry_me_else"),
                       younger - 1)
          [] OTHER ->
                IF IsSwitch(code, younger) /\ IsSwitch(code, older)
                THEN Merged(MergeTerm(code, younger, older, n), younger)
                ELSE Merged(Room(Room(code, younger, "try_me_else", n, older - 1),
                                 older, "trust_me", n, 0),
                            younger - 1)

-----------------------------------------------------------------------------
\* MergeDefs, with TidySwitchOnReg for the younger definition, which is open:
\* it will not have to look for one to extend.
Tidy(code, younger) ==
    [code EXCEPT ![younger] = Deleted, ![code[younger].l] = Deleted,
                 ![code[younger].l + 1] = Deleted]

MergeOpen(m, older, try) ==
    Merged([m.code EXCEPT ![older].k = m.at, ![try].l = m.at], older)

MergeDefs(code, older, younger) ==
    LET n == code[code[younger].l].n
        y == code[younger].k
        tidied == Tidy(code, younger)
    IN  IF code[older].op = "switch_on_reg"
        THEN MergeOpen(MergeSequence(tidied, y, code[older].k, n),
                       older, code[older].l)
        ELSE MergeSequence(tidied, y, older, n)
=============================================================================
