---------------------------- MODULE ModuleScopes ----------------------------
(***************************************************************************)
(* What modules mean, read from their source alone: which names are one,   *)
(* which clauses a predicate has in a context.  It is what the linker and  *)
(* the loader are checked against.                                         *)
(*                                                                         *)
(* A path says how a module came into the program: the top module, then at *)
(* each step the index of one that it accumulates, counted from the last,  *)
(* or imports.  An imported module with all that is accumulated into it is *)
(* one scope.  A context is a sequence of entries, the newest last: the    *)
(* clauses of the scope path for w = 0, those of the w-th implication of   *)
(* the module at path otherwise.                                           *)
(***************************************************************************)
EXTENDS Integers, Sequences, SequencesExt

CONSTANT Pervasives

ModAt(src, top, path) ==
    FoldLeft(LAMBDA m, s : IF s.kind = "acc" THEN Reverse(src[m].acc)[s.i] ELSE src[m].imp[s.i],
             top, path)

\* The name x of the module at path: it is the name of the module above if it
\* is in the signature.
RECURSIVE Identity(_, _, _, _)
Identity(src, top, path, x) ==
    CASE Contains(Pervasives, x) -> [name |-> x, path |-> <<>>]
      [] ~Contains(Pervasives, x) /\ path # <<>> /\ Contains(src[ModAt(src, top, path)].sig, x) ->
            Identity(src, top, Front(path), x)
      [] OTHER -> [name |-> x, path |-> path]
RECURSIVE KindIdentity(_, _, _, _)
KindIdentity(src, top, path, k) ==
    IF path # <<>> /\ Contains(src[ModAt(src, top, path)].kinds, k)
    THEN KindIdentity(src, top, Front(path), k)
    ELSE [name |-> k, path |-> path]

\* The scope of a module: up to where it was last imported.
Scope(path) == SubSeq(path, 1, Max({0} \cup {i \in DOMAIN path : path[i].kind = "imp"}))

\* The modules of a scope, in the order of their clauses: before its own come
\* those of the modules that a module accumulates, in the order it names them.
RECURSIVE Accumulated(_, _, _)
Accumulated(src, top, path) ==
    LET n == Len(src[ModAt(src, top, path)].acc)
    IN  Append(FlattenSeq([i \in 1..n |->
                    Accumulated(src, top, Append(path, [kind |-> "acc", i |-> n + 1 - i]))]),
               path)

\* The clauses of a module, or of an implication of it, for the predicate id.
Clauses(src, top, path, w, id) ==
    LET s   == src[ModAt(src, top, path)]
        cls == IF w = 0 THEN s.clauses ELSE s.impls[w]
        is  == SelectSeq([i \in DOMAIN cls |-> i],
                         LAMBDA i : Identity(src, top, path, cls[i].pred) = id)
    IN  [j \in DOMAIN is |-> [path |-> path, of |-> <<w, is[j]>>]]
ClausesIn(src, top, e, id) ==
    IF e.w > 0 THEN Clauses(src, top, e.path, e.w, id)
    ELSE FlattenSeq([j \in DOMAIN Accumulated(src, top, e.path) |->
                        Clauses(src, top, Accumulated(src, top, e.path)[j], 0, id)])

\* A scope has the last clauses of what is local to it and of what its module
\* exports closed.
Closes(src, top, e, id) ==
    LET s == src[ModAt(src, top, e.path)]
    IN  /\ e.w = 0
        /\ \/ Scope(id.path) = e.path
           \/ id.name \in s.expd /\ Identity(src, top, e.path, id.name) = id

\* The clauses that a call of id tries in the context ctx.
Visible(src, top, ctx, id) ==
    LET last == Max({1} \cup {i \in DOMAIN ctx : Closes(src, top, ctx[i], id)})
    IN  FlattenSeq([i \in 1..(Len(ctx) + 1 - last) |->
                        ClausesIn(src, top, ctx[Len(ctx) + 1 - i], id)])

\* The context in which a clause of the module at path is solved: its imports
\* are there, added behind the others unless they are already.
Imports(src, top, path) ==
    [i \in DOMAIN src[ModAt(src, top, path)].imp |->
        [path |-> Append(path, [kind |-> "imp", i |-> i]), w |-> 0]]
WithImports(src, top, ctx, path) ==
    FoldLeft(LAMBDA c, e : IF Contains(c, e) THEN c ELSE Append(c, e), ctx,
             Imports(src, top, path))

-----------------------------------------------------------------------------
\* All the paths of a program.
RECURSIVE PathsFrom(_, _, _)
PathsFrom(src, top, path) ==
    LET s == src[ModAt(src, top, path)]
        below(kind, n) == UNION {PathsFrom(src, top, Append(path, [kind |-> kind, i |-> i])) :
                                    i \in 1..n}
    IN  {path} \cup below("acc", Len(s.acc)) \cup below("imp", Len(s.imp))
=============================================================================
