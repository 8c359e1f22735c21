---------------------------- MODULE MCFootprints ----------------------------
(***************************************************************************)
(* Two ints, two pointers to them, a pointer to those, and two references. *)
(***************************************************************************)
EXTENDS Footprints

MCVar == {"x", "y", "p", "q", "pp", "r", "t"}
MCLevel == [v \in MCVar |-> CASE v \in {"p", "q"} -> 1 [] v = "pp" -> 2 [] OTHER -> 0]
MCRef == {"r", "t"}

E(v, d) == [v |-> v, d |-> d, mode |-> "value"]
A(v, d, mode) == [v |-> v, d |-> d, mode |-> mode]
L(v, d) == [v |-> v, d |-> d]
By(callee, s) == [s EXCEPT !.callee = callee]
Plain == [globals |-> {}, does |-> {}]
S(op, lhs, call, args) ==
  [op |-> op, lhs |-> lhs, call |-> call, args |-> args, callee |-> Plain]
NoLhs == L("x", 0)

IntExprs == {E("p", 1), E("q", 1), E("pp", 2), E("r", 0), E("t", 0)}
PtrExprs == {E("x", -1), E("y", -1), E("p", 0), E("q", 0), E("pp", 1)}
PtrLhs == {L("p", 0), L("q", 0), L("pp", 1)}
IntLhs == {L("p", 1), L("pp", 2), L("t", 0)}

IntAssigns ==
  {S("=", L("x", 0), FALSE, <<e>>) : e \in IntExprs}
    \cup {S("=", l, FALSE, <<E("y", 0)>>) : l \in IntLhs}
    \cup {S("op=", L("q", 1), FALSE, <<E("y", 0), e>>) : e \in {E("pp", 2), E("r", 0)}}

PtrAssigns ==
  {S("=", l, FALSE, <<e>>) : l \in PtrLhs, e \in PtrExprs}
    \cup {S("=", L("pp", 0), FALSE, <<E(v, -1)>>) : v \in {"p", "q"}}
    \cup {S("=", L("p", 0), FALSE, <<>>)}

\* p = f(&x, &y), p = f(q, &y), *pp = f(p, pp), q = f(p), y = f(x, &x)
CallAssigns ==
  {S("=", L("p", 0), TRUE, <<A("x", -1, "ptr"), A("y", -1, "ptrRO")>>),
   S("=", L("p", 0), TRUE, <<A("q", 0, "select"), A("y", -1, "ptr")>>),
   S("=", L("pp", 1), TRUE, <<A("p", 0, "select"), A("x", -1, "ptr")>>),
   S("=", L("q", 0), TRUE, <<A("p", 0, "select")>>),
   S("=", L("y", 0), TRUE, <<A("x", 0, "value"), A("x", -1, "ptr")>>)}

Others ==
  {S("++", NoLhs, FALSE, <<e>>) : e \in {E("y", 0), E("p", 1), E("pp", 2), E("t", 0)}}
    \cup {S("call", NoLhs, TRUE, <<A("x", 0, "ref"), A("y", -1, "ptrRO"), A("q", 1, "value")>>),
          S("call", NoLhs, TRUE, <<A("r", 0, "ref"), A("y", 0, "refRO")>>),
          S("bind", L("r", 0), FALSE, <<A("x", 0, "refRO")>>),
          S("bind", L("t", 0), FALSE, <<A("r", 0, "refRO")>>),
          S("method", NoLhs, FALSE, <<E("x", 0)>>),
          S("constmethod", NoLhs, FALSE, <<E("y", 0)>>),
          S("delete", NoLhs, FALSE, <<E("p", 0)>>)}

\* q = f(pp) and p = f(q, pp), returning *pp; *pp = f(pp); y = f(&p), which reads
\* *p; f(&x) and o.m(), which use globals; r = f(x), which may return the global
\* it is given; f(&x), f following and setting what it can.
Follower == [globals |-> {}, does |-> {"follows"}]
Callers ==
  {By(Follower, S("=", L("q", 0), TRUE, <<A("pp", 0, "select")>>)),
   By(Follower, S("=", L("p", 0), TRUE, <<A("q", 0, "value"), A("pp", 0, "select")>>)),
   By(Follower, S("=", L("pp", 1), TRUE, <<A("pp", 0, "value")>>)),
   By(Follower, S("=", L("y", 0), TRUE, <<A("p", -1, "ptrRO")>>)),
   By([globals |-> {"x"}, does |-> {"follows", "sets"}],
      S("call", NoLhs, TRUE, <<A("x", -1, "ptr")>>)),
   By([globals |-> {"y", "p"}, does |-> {}], S("constmethod", NoLhs, FALSE, <<E("x", 0)>>)),
   By([globals |-> {"x"}, does |-> {"refers"}], S("bind", L("r", 0), TRUE, <<A("x", 0, "ref")>>))}

StraightLine == IntAssigns \cup PtrAssigns \cup CallAssigns \cup Callers \cup Others

\* In a branch: what replaces no target.
Conditional ==
  {S("=", L("p", 1), FALSE, <<E("y", 0)>>),
   S("=", L("p", 0), TRUE, <<A("x", -1, "ptr"), A("y", -1, "ptrRO")>>),
   S("++", NoLhs, FALSE, <<E("p", 1)>>)}

ASSUME MCStatementsHandled ==
  Statements = StraightLine => \A s \in Statements : Handled(s)

NoBranches == {}

\* f(p) and f(*p), which write through the pointer.
PointerArguments ==
  StraightLine \cup {S("call", NoLhs, TRUE, <<A("p", 0, "ptr")>>),
                     S("call", NoLhs, TRUE, <<A("p", 1, "ref")>>)}
=============================================================================
