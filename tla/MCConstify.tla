----------------------------- MODULE MCConstify -----------------------------
(***************************************************************************)
(* Instances of Constify for TLC.  Functions are defined before they are   *)
(* called.                                                                 *)
(***************************************************************************)
EXTENDS Constify

MCName == {"m", "n"}
MCEntity == {"a", "x", "y", "p", "q", "m", "n", "o", "t", "u", "f", "g"}

X(e) == [base |-> e, of |-> NoEntity, shape |-> "plain"]
Hidden(e) == [X(e) EXCEPT !.shape = "hidden"]
Stuck(e) == [X(e) EXCEPT !.shape = "stuck"]
Member(e, o) == [X(e) EXCEPT !.of = o]
Nothing == X(NoEntity)

Plain(kind) ==
  [kind |-> kind, target |-> NoEntity, ptr |-> FALSE, left |-> Nothing, source |-> Nothing,
   init |-> "none", place |-> "single", const |-> FALSE, fixed |-> FALSE, name |-> NoEntity,
   meth |-> NoEntity, form |-> "function", system |-> FALSE, params |-> <<>>,
   args |-> <<>>, writes |-> {}]

Value(v, place, init) ==
  [Plain("var") EXCEPT !.target = v, !.place = place, !.init = init]
Pointer(v, place, init, x) ==
  [Value(v, place, init) EXCEPT !.ptr = TRUE, !.source = x]
Assign(x) == [Plain("assign") EXCEPT !.left = x]
Inc(x) == [Plain("inc") EXCEPT !.left = x]
Point(x, y) == [Assign(x) EXCEPT !.ptr = TRUE, !.source = y]
Return(x) == [Plain("return") EXCEPT !.ptr = TRUE, !.left = x]
ReturnValue(x) == [Plain("return") EXCEPT !.const = TRUE, !.left = x]

Parameter(v) == [name |-> v, ptr |-> TRUE, top |-> FALSE]
ByValue == [Parameter(NoEntity) EXCEPT !.ptr = FALSE]
Call(param, x) == [Plain("call") EXCEPT !.params = <<Parameter(param)>>, !.args = <<x>>]
Construct(x) == [Plain("call") EXCEPT !.form = "construct", !.params = <<ByValue>>, !.args = <<x>>]
Indirect(x) == [Plain("call") EXCEPT !.form = "indirect", !.args = <<x>>]

\* strcpy(x, y), and a call that writes nothing: printf(f, y)
System(x, y) ==
  [Plain("call") EXCEPT !.system = TRUE, !.params = <<Parameter(NoEntity), Parameter(NoEntity)>>,
                        !.args = <<x, y>>, !.writes = {1}]
Reads(x, y) ==
  [Plain("call") EXCEPT !.system = TRUE, !.args = <<x, y>>,
                        !.params = <<[Parameter(NoEntity) EXCEPT !.top = TRUE]>>]

\* x = y of a class of the system, x[y] const, and const o @ y of the unit
SystemOperator(x, y) ==
  [System(x, y) EXCEPT !.form = "operator", !.params = <<Parameter(NoEntity)>>, !.writes = {}]
Subscript(x, y) == [SystemOperator(x, y) EXCEPT !.const = TRUE, !.params = <<ByValue>>]
Operator(m, o, y) ==
  [Plain("call") EXCEPT !.form = "operator", !.target = m, !.const = TRUE,
                        !.params = <<ByValue>>, !.args = <<X(o), y>>]
SystemMethod(x, const) ==
  [Plain("call") EXCEPT !.form = "method", !.system = TRUE, !.const = const, !.left = x]

Method(m, name, const) ==
  [Plain("method") EXCEPT !.target = m, !.name = name, !.const = const]
Fixed(m, name) == [Method(m, name, FALSE) EXCEPT !.fixed = TRUE]
This(t, m) == [Plain("this") EXCEPT !.target = t, !.meth = m]
MethodCall(m, const, object) ==
  [Plain("call") EXCEPT !.form = "method", !.target = m, !.const = const, !.left = X(object)]

\* void f(int *a) { *a = 1; }  and functions that return a, hand it to a
\* library, call themselves, or only read it
Bodies ==
  {<<>>, <<Assign(X("a"))>>, <<Return(X("a"))>>, <<System(X("a"), X("a"))>>,
   <<Call("a", X("a")), Inc(X("a"))>>}
Callee(body) == <<Pointer("a", "param", "none", Nothing)>> \o body

\* int x = 0, or int x;  int *p = &x, or new int, or the value of a call;
\* int *&q = p, or int *q;
Locals ==
  {<<Value("x", "single", xi), pd, qd>> :
     xi \in {"none", "value"},
     pd \in {Pointer("p", "single", "value", X("x")), Pointer("p", "single", "call", Hidden(NoEntity)),
             Pointer("p", "single", "new", Nothing)},
     qd \in {Pointer("q", "single", "value", X("p")), Pointer("q", "single", "none", Nothing)}}

Calls == {Call("a", X("p")), Call("a", X("q"))}
Statements ==
  Calls \cup
  {Assign(X("q")), Inc(X("x")), Point(X("q"), X("x")), Point(X("p"), X("q")),
   System(X("q"), Stuck("x")), System(X("q"), Hidden(NoEntity)), Return(X("p")),
   ReturnValue(X("x"))}

\* *(q + 1) = 1;  q = nullptr;  fp(q);  return (p);  x + 1 handed over;
\* printf("..", q);  v[0] read and returned
Others ==
  {Assign(Stuck("q")), Point(X("q"), Stuck(NoEntity)), Indirect(X("q")), Return(Stuck("p")),
   Call("a", Stuck("p")), Reads(Stuck(NoEntity), X("q")), ReturnValue(Hidden("x"))}

\* The bodies differ where f is called.
Pointers ==
  {Callee(b) \o l \o <<s1, s2>> : b \in Bodies, l \in Locals, s1 \in Calls, s2 \in Statements}
  \cup {Callee(b) \o l \o <<s1, s2>> : b \in Bodies, l \in Locals, s1 \in Statements, s2 \in Calls}
  \cup {Callee(<<>>) \o l \o <<s1, s2>> : l \in Locals, s1, s2 \in Statements}
  \cup {Callee(b) \o l \o <<s1, s2>> :
          b \in Bodies, l \in Locals, s1 \in {Inc(X("x")), Call("a", X("q"))}, s2 \in Others}

\* void h(C *a) {..}  class C { int *f; void n(int *g) {..}  void m() {..} };
\* int x = 0, y = 0; C o; o.m(); o.n(&x);
Reading(t, m, v) ==
  {<<>>, <<Pointer(v, "single", "value", X("f")), This(t, m)>>}
Sharing(t, m) ==
  {<<Call("a", X(t)), This(t, m)>>, <<Return(X(t)), This(t, m)>>}

\* A member is written in a method that shares its name with another one.
MemberWrite(t, m) == <<Point(Member("f", t), X("g")), This(t, m)>>

Class(b, name, const, nb, mb) ==
  Callee(b)
  \o <<[Plain("field") EXCEPT !.target = "f", !.ptr = TRUE], Method("n", name, const),
       Pointer("g", "param", "none", Nothing)>> \o nb
  \o <<Method("m", "m", FALSE)>> \o mb
  \o <<Value("x", "multi", "value"), Value("y", "multi", "value"),
       Value("o", "single", "value"), MethodCall("m", FALSE, "o"),
       [MethodCall("n", const, "o") EXCEPT !.params = <<Parameter("g")>>, !.args = <<X("x")>>]>>

SelfCall(const) == <<MethodCall("n", const, "t"), This("t", "m")>>

Classes ==
  {Class(b, name, const, nb, mb) :
     b \in Bodies, name \in {"m", "n"}, const \in BOOLEAN, nb \in Reading("u", "n", "q"),
     mb \in Reading("t", "m", "p") \cup Sharing("t", "m")}
  \cup {Class(b, name, const, nb, SelfCall(const)) :
     b \in Bodies, name \in {"m", "n"}, const \in BOOLEAN, nb \in Reading("u", "n", "q")}
  \cup {Class(b, name, FALSE, nb, mb) :
     b \in Bodies, name \in {"m", "n"}, nb \in Sharing("u", "n"),
     mb \in Reading("t", "m", "p") \cup Sharing("t", "m")}
  \cup {Class(b, "m", FALSE, MemberWrite("u", "n"), mb) :
     b \in Bodies, mb \in Reading("t", "m", "p") \cup Sharing("t", "m")}

\* class C { C(); C(int); static void n(); T operator@(int) const; };  C o(x);
\* and objects of classes of the system, written by assignment, by methods, or
\* read through a subscript.
Objects ==
  {<<Fixed("m", "m"), Fixed("n", "m"), Method("u", "n", TRUE)>> \o b
   \o <<Value("x", "single", "value"), Construct(X("x")), Value("o", "single", "value"),
        Value("p", "single", "value"), Operator("u", "o", X("x"))>> \o s :
     b \in {<<>>, <<This("t", "u")>>},
     s \in {<<SystemOperator(X("o"), X("p"))>>, <<SystemMethod(X("p"), FALSE)>>,
            <<SystemMethod(X("o"), TRUE), Subscript(X("p"), X("x"))>>,
            <<Call("a", X("x")), SystemMethod(X("p"), TRUE)>>}}

MCUnits == Pointers \cup Classes
             \cup {Callee(b) \o o : b \in Bodies, o \in Objects}

ASSUME MCUnitsHandled == \A u \in MCUnits : Handled(u)
=============================================================================
