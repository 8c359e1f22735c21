---------------------------- MODULE MCStmtOrder ----------------------------
(***************************************************************************)
(* Instances for TLC: a function is compiled from its first statement to    *)
(* the written order (TaskGraph, GraphOptimizer and StmtOrder together).    *)
(***************************************************************************)
EXTENDS StmtOrder

\* A scalar and an array with one known and one unknown subscript.
LineAlias == {"x", "a[1]", "a[i]"}
LineDecl == [a \in LineAlias |-> IF a = "x" THEN "x" ELSE "a"]
LineIndexes ==
  [a \in LineAlias |->
     CASE a = "x" -> <<>> [] a = "a[1]" -> <<1>> [] a = "a[i]" -> <<-1>>]

\* Two elements that never overlap.
Two == {"x", "a[1]"}

Use(r, w) == [reads |-> r, writes |-> w]
Small(S) == {{}} \cup {{a} : a \in S}

\* A statement reads at most one of the elements S and writes at most one.
Uses(S) == {f \in [reads : Small(S), writes : Small(S)] : f.reads \cup f.writes # {}}
Writing(S) == {f \in Uses(S) : f.writes # {}}

Instr(kind, scope, loop, f) ==
  [kind |-> kind, scope |-> scope, loop |-> loop,
   reads |-> f.reads, writes |-> f.writes]

Simple(f) == Instr("simple", 0, 0, f)
Plain(kind) == Instr(kind, 0, 0, Use({}, {}))

\* s; s; s; s
StraightPrograms ==
  {<<Simple(f), Simple(g), Simple(h), Simple(k)>> : f, g, h, k \in Uses(Two)}

\* s; s; s, with elements that may overlap
WritingPrograms ==
  {<<Simple(f), Simple(g), Simple(h)>> : f, g, h \in Writing(LineAlias)}

\* s; decl; s; s; s
Declarations ==
  {<<Simple(f), Plain("decl"), Simple(g), Simple(h), Simple(k)>> :
     f, g, h, k \in Writing(Two)}

\* s; if (x) { s; s; } s
TwoInBranch ==
  {<<Simple(f), Instr("if", 0, 0, Use({"x"}, {})), Instr("block", 2, 0, Use({}, {})),
     Instr("simple", 3, 0, g), Instr("simple", 3, 0, h), Simple(k)>> :
     f, g, h, k \in Writing(Two)}

\* s; if (x) { s; } s; s
TwoAfterBranch ==
  {<<Simple(f), Instr("if", 0, 0, Use({"x"}, {})), Instr("block", 2, 0, Use({}, {})),
     Instr("simple", 3, 0, g), Simple(h), Simple(k)>> :
     f, g, h, k \in Writing(Two)}

\* delete x; s; s; s
Deletions ==
  {<<Instr("delete", 0, 0, Use({"x"}, {"x"})), Simple(f), Simple(g), Simple(h)>> :
     f, g, h \in Writing(Two)}

WithLoop(p, n) == [p EXCEPT ![n] = Instr("for", 0, 0, TraverseForStmt(p, n))]

\* s; for (; x;) { s; s; } s, the condition a bare variable: no header
BareLoops ==
  {WithLoop(<<Simple(f), Plain("simple"), Instr("simple", 2, 2, g),
              Instr("simple", 2, 2, h), Simple(k)>>, 2) : f, g, h, k \in Writing(Two)}

\* s; for (; x < c;) { s; s; } s
HeaderLoops ==
  {WithLoop(<<Simple(f), Plain("simple"), Instr("header", 2, 2, Use({"x"}, {})),
              Instr("simple", 2, 2, g), Instr("simple", 2, 2, h), Simple(k)>>, 2) :
     f, g, h, k \in Writing(Two)}

CompilePrograms ==
  StraightPrograms \cup WritingPrograms \cup Declarations \cup TwoInBranch
    \cup TwoAfterBranch \cup Deletions \cup BareLoops \cup HeaderLoops
=============================================================================
