---------------------------- MODULE MCTaskGraph ----------------------------
(***************************************************************************)
(* Instances of TaskGraph for TLC: the alias tables and the instruction    *)
(* lists of the runs.                                                      *)
(***************************************************************************)
EXTENDS TaskGraph

\* A scalar and an array with one known and one unknown subscript.
LineAlias == {"x", "a[1]", "a[i]"}
LineDecl == [a \in LineAlias |-> IF a = "x" THEN "x" ELSE "a"]
LineIndexes ==
  [a \in LineAlias |->
     CASE a = "x" -> <<>> [] a = "a[1]" -> <<1>> [] a = "a[i]" -> <<-1>>]

Small(S) == {{}} \cup {{a} : a \in S}

\* An assignment reads at most one element and writes at most one.
Assignments ==
  {f \in [reads : Small(Alias), writes : Small(Alias)] :
     f.reads \cup f.writes # {}}

Instr(kind, scope, loop, f) ==
  [kind |-> kind, scope |-> scope, loop |-> loop,
   reads |-> f.reads, writes |-> f.writes]

Nothing == [reads |-> {}, writes |-> {}]
Condition == [reads |-> {"x"}, writes |-> {}]

Simple(f) == Instr("simple", 0, 0, f)

StraightPrograms ==
  {<<Simple(f), Simple(g), Simple(h), Simple(k)>> : f, g, h, k \in Assignments}

\* s; if (x) { s; } s
Branches ==
  {<<Simple(f), Instr("if", 0, 0, Condition), Instr("block", 2, 0, Nothing),
     Instr("simple", 3, 0, g), Simple(h)>> : f, g, h \in Assignments}

\* s; for (; x;) { s; } s, where the for gets the dependencies of its body
WithLoop(p, n) == [p EXCEPT ![n] = Instr("for", 0, 0, TraverseForStmt(p, n))]

Loops ==
  {WithLoop(<<Simple(f), Simple(Nothing), Instr("header", 2, 2, Condition),
              Instr("simple", 2, 2, g), Simple(h)>>, 2) :
     f, g, h \in Assignments}

BuildPrograms == StraightPrograms \cup Branches \cup Loops
=============================================================================
