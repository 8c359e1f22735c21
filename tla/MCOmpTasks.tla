----------------------------- MODULE MCOmpTasks -----------------------------
(***************************************************************************)
(* Instances of OmpTasks for TLC.                                          *)
(***************************************************************************)
EXTENDS OmpTasks

\* Two scalars.
PairAlias == {"x", "y"}
PairDecl == [a \in PairAlias |-> a]
PairIndexes == [a \in PairAlias |-> <<>>]

Use(r, w) == [reads |-> r, writes |-> w]

Small(S) == {{}} \cup {{a} : a \in S}

Assignments == {Use(r, {w}) : r \in Small(Alias), w \in Alias}

\* Also a call that only reads.
Accesses == Assignments \cup {Use({r}, {}) : r \in Alias}

Instr(kind, scope, f) ==
  [kind |-> kind, scope |-> scope, loop |-> 0, reads |-> f.reads, writes |-> f.writes]

Nothing == Use({}, {})
Simple(f) == Instr("simple", 0, f)

\* s; s; s; s
StraightPrograms ==
  {<<Simple(f), Simple(g), Simple(h), Simple(k)>> : f, g, h, k \in Accesses}

\* s; s; delete x; s
Deletions ==
  {<<Simple(f), Simple(g), Instr("delete", 0, Use({"x"}, {"x"})), Simple(h)>> :
     f, g, h \in Accesses}

\* if (x) { s; } else { s; } s; s
Branches ==
  {<<Instr("if", 0, Use({"x"}, {})), Instr("block", 1, Nothing), Instr("simple", 2, f),
     Instr("block", 1, Nothing), Instr("simple", 4, g), Simple(h), Simple(k)>> :
     f, g, h, k \in Assignments}

\* s; if (c) { goto exit; } s; s
Jumps ==
  {<<Simple(f), Instr("if", 0, Nothing), Instr("block", 2, Nothing),
     Instr("goto", 3, Nothing), Simple(g), Simple(h)>> : f, g, h \in Accesses}

RunPrograms == StraightPrograms \cup Deletions \cup Branches \cup Jumps
=============================================================================
