----------------------------- MODULE MCPrepare -----------------------------
(***************************************************************************)
(* Instances of Prepare for TLC: functions of up to two statements of each *)
(* kind and their exits.                                                   *)
(***************************************************************************)
EXTENDS Prepare

V(x) == VarRef(<<"var", x>>)
Lit(x) == [op |-> "lit", name |-> <<"lit", x>>, args |-> <<>>]
Call(g, args) == [op |-> "call", name |-> <<"call", g>>, args |-> args]
Plus(l, r) == [op |-> "binary", name |-> <<"+", "">>, args |-> <<l, r>>]
Neg(e) == [op |-> "unary", name |-> <<"-", "">>, args |-> <<e>>]
Paren(e) == [op |-> "paren", name |-> <<"()", "">>, args |-> <<e>>]

Var(x, type, init) == [name |-> <<"var", x>>, type |-> type, init |-> init]
Decls(ds) == [k |-> "decl", vars |-> ds]
Expr(e) == [k |-> "expr", e |-> e]
Let(x, e) == Set(<<"var", x>>, e)
If(decls, condVar, cond, bare, then, else) ==
  [k |-> "if", decls |-> decls, condVar |-> condVar, cond |-> cond, bare |-> bare,
   then |-> then, else |-> else]
Repeat(kind, decls, cond, inc, body) ==
  [k |-> kind, decls |-> decls, condVar |-> <<>>, cond |-> cond, inc |-> inc, body |-> body]

\* Statements that a second one of the kind may follow: the calls of the n-th
\* are named after n.
Heads(n) ==
  LET g(k) == Call("g" \o n \o k, <<V("a")>>)
      x == Var("x", "plain", g("x"))
      y == Var("y", "const", Plus(V("x"), g("y")))
  IN  {If(<<>>, <<x>>, NoExpr, FALSE, <<Expr(Call("u" \o n, <<V("x")>>))>>, <<>>),
       If(<<x, y>>, <<>>, V("y"), FALSE, <<Let("a", V("y"))>>, <<Let("a", V("x"))>>),
       If(<<x>>, <<Var("z", "plain", V("x"))>>, NoExpr, TRUE, <<Let("a", g("t"))>>,
          <<If(<<>>, <<y>>, NoExpr, FALSE, <<Let("a", V("y"))>>, <<>>)>>),
       Repeat("for", <<x>>, V("x"), g("i"), <<Let("a", V("x"))>>),
       Repeat("while", <<>>, g("c"), NoExpr, <<Let("a", g("b"))>>),
       Repeat("do", <<>>, V("a"), NoExpr, <<Expr(g("b"))>>)}

Declarations(n) ==
  LET b == "b" \o n
      c == "c" \o n
      g == Call("g" \o n, <<V("a")>>)
      h == Call("h" \o n, <<V(b)>>)
  IN  {Decls(<<Var(b, "plain", g), Var(c, "const", h)>>),
       Decls(<<Var(b, "const", g), Var(c, "ref", V(b))>>),
       Decls(<<Var(b, "plain", NoExpr), Var(c, "ref", V("a"))>>),
       Decls(<<Var(b, "noDefault", g), Var(c, "ref", h)>>),
       Decls(<<Var(b, "plain", Call("k" \o n, <<g>>)), Var(c, "plain", h)>>)}

\* At most one expression that C++ may evaluate in several orders.  A unary
\* operator stands in front of a call and in an argument of a call that stays:
\* in an argument of a call that is made beforehand it would come out as ++.
NestedCalls(n) ==
  LET g == Call("g" \o n, <<V("a")>>)
      h(x) == Call("h" \o n, <<x>>)
      k(x, y) == Call("k" \o n, <<x, y>>)
      m(x) == Call("m" \o n, <<x>>)
  IN  {Let("a", Neg(h(Paren(Plus(Neg(V("a")), Neg(g)))))), Expr(Call("f", <<h(g)>>))}
      \cup IF n = "2" THEN {} ELSE
        {Expr(k(g, h(Lit("1")))), Expr(k(V("a"), h(Plus(g, m(Lit("1")))))),
         Let("a", Plus(h(g), m(V("a"))))}

\* if (a) return 1;  while (a) { if (a) return a; }  and the like
Exits ==
  {<<If(<<>>, <<>>, V("a"), TRUE, <<Return(Lit("1"))>>, <<>>), Return(Call("w", <<V("a")>>))>>,
   <<If(<<>>, <<>>, V("a"), TRUE, <<Return(Lit("1"))>>, <<Return(Lit("2"))>>)>>,
   <<Repeat("while", <<>>, V("a"), NoExpr,
        <<If(<<>>, <<>>, V("a"), FALSE, <<Return(V("a"))>>, <<>>), Let("a", Lit("3"))>>),
     Return(Lit("4"))>>,
   <<Return(V("a"))>>}

VoidExits ==
  {<<If(<<>>, <<>>, V("a"), TRUE, <<Return(NoExpr)>>, <<>>), Expr(Call("w", <<V("a")>>))>>,
   <<Return(NoExpr)>>, <<>>}

First == Decls(<<Var("a", "plain", Lit("0"))>>)

\* A declaration's variables and what uses them afterwards.
Used(s) == {<<s>>} \cup
  (IF s.k # "decl" THEN {}
   ELSE {<<s, Expr(Call("u", <<VarRef(s.vars[2].name)>>))>>})

Middle ==
  LET all(n) == Heads(n) \cup Declarations(n) \cup NestedCalls(n)
  IN  {<<s>> \o t : s \in all("1"), t \in UNION {Used(r) : r \in all("2")}}

MCSources ==
  {[void |-> FALSE, body |-> <<First>> \o m \o e] : m \in Middle, e \in Exits}
  \cup {[void |-> TRUE, body |-> <<First>> \o m \o e] : m \in Middle, e \in VoidExits}

MCOracles == [1..3 -> BOOLEAN]
=============================================================================
