------------------------------- MODULE Prepare -------------------------------
(***************************************************************************)
(* The passes that prepare a function for TaskGraph, in the order of the   *)
(* documented chain: DuplicateFunctions, ConditionUnstack,                 *)
(* MultipleDeclSplitter, Unstack, DeclarationSplitter and GotoTransfo.     *)
(* Every pass rewrites the text the one before left.                       *)
(*                                                                         *)
(* An expression is a record of an operator (none, lit, var, call, unary,  *)
(* binary, paren), a name and operands.  Every call has a name of its own, and the *)
(* variable __tempVar_n made for a call is named after it.  A statement is *)
(* a record whose field k tells what it is:                                *)
(*   decl    vars: names with their types and initial values               *)
(*   expr, set, return, goto, label                                        *)
(*   if      decls, condVar: what its head declares; bare: the first       *)
(*           branch is a statement and not a block                         *)
(*   while, do, for     decls, condVar, inc as far as they exist           *)
(*   block                                                                 *)
(* A name is a pair: "var" and the name in the source, or the prefix of a  *)
(* name the passes make and what it is made for.                           *)
(***************************************************************************)
EXTENDS Naturals, Sequences, FiniteSets, SequencesExt

CONSTANTS
  Sources,            \* the functions to try: whether void, and the body
  functionsToIgnore,  \* the filters of the command line
  functionsToParse,
  mainName,
  Oracles             \* outcomes of the first conditions tested; others fail

VARIABLES
  source,    \* the function "f" as it was written
  funcs,     \* name |-> function
  pass       \* the passes that have run

prepVars == <<source, funcs, pass>>

Chain ==
  <<"DuplicateFunctions", "ConditionUnstack", "MultipleDeclSplitter", "Unstack",
    "DeclarationSplitter", "GotoTransfo">>

NoExpr    == [op |-> "none", name |-> <<"none", "">>, args |-> <<>>]
VarRef(v) == [op |-> "var", name |-> v, args |-> <<>>]

temp(c) == <<"__tempVar", c[2]>>
refT(v) == <<"__refT", v[2]>>
result  == <<"__result", "">>

Map(Op(_), s) == [i \in 1..Len(s) |-> Op(s[i])]
FlatMap(Op(_), s) == FlattenSeq(Map(Op, s))

Decl(d)    == [k |-> "decl", vars |-> <<d>>]
Set(v, e)  == [k |-> "set", name |-> v, e |-> e]
Block(b)   == [k |-> "block", body |-> b]
Return(e)  == [k |-> "return", e |-> e]
Goto       == [k |-> "goto"]
Label      == [k |-> "label"]
-----------------------------------------------------------------------------
(* DuplicateFunctions: f_apacSeq is the text of f, its calls of f renamed. *)

sequentialName == "f_apacSeq"

RECURSIVE renameCalls(_)
renameCalls(e) ==
  [e EXCEPT !.args = Map(renameCalls, @),
            !.name = IF e.op = "call" /\ @ = <<"call", "f">>
                       THEN <<"call", sequentialName>> ELSE @]

RECURSIVE changeNames(_)
changeNames(body) ==
  LET inDecl(d) == [d EXCEPT !.init = renameCalls(@)]
      each(s) ==
        CASE s.k = "decl" -> [s EXCEPT !.vars = Map(inDecl, @)]
          [] s.k \in {"expr", "set", "return"} -> [s EXCEPT !.e = renameCalls(@)]
          [] s.k = "if" -> [s EXCEPT !.decls = Map(inDecl, @), !.condVar = Map(inDecl, @),
                                     !.cond = renameCalls(@), !.then = changeNames(@),
                                     !.else = changeNames(@)]
          [] s.k \in {"while", "do", "for"} ->
               [s EXCEPT !.decls = Map(inDecl, @), !.condVar = Map(inDecl, @),
                         !.cond = renameCalls(@), !.inc = renameCalls(@),
                         !.body = changeNames(@)]
          [] s.k = "block" -> [s EXCEPT !.body = changeNames(@)]
          [] OTHER -> s
  IN  Map(each, body)
-----------------------------------------------------------------------------
(* ConditionUnstack: declarations leave the heads of if, while and for.    *)

Scoped(decls, s) == <<Block(decls \o <<s>>)>>

\* The condition becomes the variable that was declared in its place.
Condition(s) == IF s.condVar = <<>> THEN s.cond ELSE VarRef(s.condVar[1].name)

ConditionUnstack(s) ==
  LET heads == s.decls \o s.condVar
  IN  IF s.k \notin {"if", "while", "for"} \/ heads = <<>> THEN <<s>>
      ELSE Scoped(Map(Decl, heads),
                  [s EXCEPT !.decls = <<>>, !.condVar = <<>>, !.cond = Condition(s)])
-----------------------------------------------------------------------------
(* MultipleDeclSplitter: a declaration for each variable.                  *)


MultipleDeclSplitter(s) == IF s.k = "decl" THEN Map(Decl, s.vars) ELSE <<s>>
-----------------------------------------------------------------------------
(* Unstack: the calls in the arguments of a call are made beforehand.      *)

\* The outermost calls of an expression.
RECURSIVE findTopCallsInExpr(_)
findTopCallsInExpr(e) ==
  IF e.op = "call" THEN <<e>> ELSE FlatMap(findTopCallsInExpr, e.args)

Nested(call) == FlatMap(findTopCallsInExpr, call.args)

\* An argument of a call that is made beforehand: calls and operators are
\* looked into, everything else is printed as it is.  A unary operator comes
\* out as ++ unless it is --.
RECURSIVE createCallArgString(_)
createCallArgString(e) ==
  CASE e.op = "call"   -> VarRef(temp(e.name))
    [] e.op = "binary" -> [e EXCEPT !.args = Map(createCallArgString, @)]
    [] e.op = "unary"  -> [e EXCEPT !.name = IF @ = <<"--", "">> THEN @ ELSE <<"++", "">>,
                                    !.args = Map(createCallArgString, @)]
    [] OTHER           -> e

\* An argument of a call that stays: the text of each call in it is replaced.
RECURSIVE Replaced(_)
Replaced(e) ==
  IF e.op = "call" THEN VarRef(temp(e.name)) ELSE [e EXCEPT !.args = Map(Replaced, @)]

\* The calls below a call, innermost first.  The children of a node are kept
\* in a map, whose order is order's.
RECURSIVE createTempVarStrings(_, _)
createTempVarStrings(call, order) ==
  LET each(c) ==
        createTempVarStrings(c, order) \o
        <<Decl([name |-> temp(c.name), type |-> "plain",
                init |-> [c EXCEPT !.args = Map(createCallArgString, @)]])>>
      children == Nested(call)
  IN  FlatMap(each, IF order = "forward" THEN children ELSE Reverse(children))

\* The outermost calls of an expression stay, with temporaries for arguments.
RECURSIVE modifyCalls(_)
modifyCalls(e) ==
  IF e.op = "call" THEN [e EXCEPT !.args = Map(Replaced, @)]
                   ELSE [e EXCEPT !.args = Map(modifyCalls, @)]

Hoisted(exprs, order) ==
  LET each(c) == createTempVarStrings(c, order)
  IN  FlatMap(each, FlatMap(findTopCallsInExpr, exprs))

\* The temporaries are declared in front of the expression.  Inside the head
\* of a statement or behind "return" this is not C++.
Broken == [op |-> "broken", name |-> <<"none", "">>, args |-> <<>>]
InHead(e) == IF Hoisted(<<e>>, "forward") = <<>> THEN e ELSE Broken

Unstack(s, order) ==
  LET inits == [i \in 1..Len(s.vars) |-> s.vars[i].init]
      modified(d) == [d EXCEPT !.init = modifyCalls(@)]
  IN  CASE s.k = "decl" -> Hoisted(inits, order) \o <<[s EXCEPT !.vars = Map(modified, @)]>>
        [] s.k \in {"expr", "set"} ->
             Hoisted(<<s.e>>, order) \o <<[s EXCEPT !.e = modifyCalls(@)]>>
        [] s.k = "return" -> <<[s EXCEPT !.e = InHead(@)]>>
        [] s.k = "if" -> <<[s EXCEPT !.cond = InHead(@)]>>
        [] s.k \in {"while", "do", "for"} ->
             <<[s EXCEPT !.cond = InHead(@), !.inc = InHead(@)]>>
        [] OTHER -> <<s>>
-----------------------------------------------------------------------------
(* DeclarationSplitter: all variables of a declaration, then all values.   *)

\* The declaration and the assignment a variable becomes.
stringVarDecl(d) ==
  CASE d.init = NoExpr \/ d.type = "noDefault" -> [decl |-> <<Decl(d)>>, init |-> <<>>]
    [] d.type = "const" \/ (d.type = "ref" /\ d.init.op # "var") ->
         [decl |-> <<Decl([d EXCEPT !.type = "wrapper", !.init = NoExpr]),
                     Decl([d EXCEPT !.name = refT(d.name), !.type = "ref"])>>,
          init |-> <<Set(d.name, VarRef(refT(d.name)))>>]
    [] OTHER ->
         [decl |-> <<Decl([d EXCEPT !.init = NoExpr,
                                    !.type = IF @ = "ref" THEN "wrapper" ELSE @])>>,
          init |-> <<Set(d.name, d.init)>>]

DeclarationSplitter(s) ==
  LET declPart(d) == stringVarDecl(d).decl
      initPart(d) == stringVarDecl(d).init
  IN  IF s.k = "decl" THEN FlatMap(declPart, s.vars) \o FlatMap(initPart, s.vars)
                      ELSE <<s>>
-----------------------------------------------------------------------------
(* GotoTransfo: one exit.                                                  *)

\* The returns found: not those of a do.
RECURSIVE returnsList(_)
returnsList(body) ==
  LET each(s) ==
        CASE s.k = "return" -> <<s>>
          [] s.k = "if" -> returnsList(s.then) \o returnsList(s.else)
          [] s.k \in {"while", "for", "block"} -> returnsList(s.body)
          [] OTHER -> <<>>
  IN  FlatMap(each, body)

\* The return value is kept before the jump.
createGotoString(s) ==
  (IF s.e = NoExpr THEN <<>> ELSE <<Set(result, s.e)>>) \o <<Goto>>

\* An if whose first branch is a bare return: it becomes a block.
Braced(s) == <<[s EXCEPT !.then = createGotoString(s.then[1]), !.bare = FALSE]>>

RECURSIVE replaceReturns(_)
replaceReturns(body) ==
  LET each(s) ==
        CASE s.k = "return" -> createGotoString(s)
          [] s.k = "if" ->
               LET below == [s EXCEPT !.else = replaceReturns(@)]
               IN  IF s.bare /\ s.then[1].k = "return" THEN Braced(below)
                   ELSE <<[below EXCEPT !.then = replaceReturns(@)]>>
          [] s.k \in {"while", "for", "block"} -> <<[s EXCEPT !.body = replaceReturns(@)]>>
          [] OTHER -> <<s>>
  IN  FlatMap(each, body)

\* Slip: a single return is always taken for the last statement.
ToTransform_Several(f) == Len(returnsList(f.body)) > 1

\* Several returns, or one that does not end a void function.
ToTransform(f) ==
  LET n == Len(returnsList(f.body))
  IN  n > 1 \/ (n = 1 /\ f.void /\ Last(f.body).k # "return")

GotoTransfo(f) ==
  LET noValue == [name |-> result, type |-> "plain", init |-> NoExpr]
  IN  IF ~ToTransform(f) THEN f
      ELSE [f EXCEPT !.body =
              (IF f.void THEN <<>> ELSE <<Decl(noValue)>>)
              \o <<Block(replaceReturns(f.body)), Label>>
              \o (IF f.void THEN <<>> ELSE <<Return(VarRef(result))>>)]
-----------------------------------------------------------------------------
\* What a pass makes of a statement.
Apply(p, order, s) ==
  CASE p = "ConditionUnstack"     -> ConditionUnstack(s)
    [] p = "MultipleDeclSplitter" -> MultipleDeclSplitter(s)
    [] p = "Unstack"              -> Unstack(s, order)
    [] p = "DeclarationSplitter"  -> DeclarationSplitter(s)

\* A bare branch ends with its first statement.
Unbraced(s) ==
  IF s.k = "if" /\ s.bare /\ Len(s.then) > 1
    THEN <<[s EXCEPT !.then = <<Head(@)>>]>> \o Tail(s.then)
    ELSE <<s>>

\* A traversal of the body.
RECURSIVE Rewrite(_, _, _)
Rewrite(p, order, body) ==
  LET below(s) ==
        CASE s.k = "if" -> [s EXCEPT !.then = Rewrite(p, order, @),
                                     !.else = Rewrite(p, order, @)]
          [] s.k \in {"while", "do", "for", "block"} ->
               [s EXCEPT !.body = Rewrite(p, order, @)]
          [] OTHER -> s
      each(s) == FlatMap(Unbraced, Apply(p, order, below(s)))
  IN  FlatMap(each, body)

\* Slip: the sequential versions are not left alone.
isToParseFunction_All(name) ==
  /\ name \notin functionsToIgnore
  /\ functionsToParse = {} \/ name \in functionsToParse \/ name = mainName

\* The functions a pass goes into.
isToParseFunction(name) ==
  /\ name # sequentialName
  /\ name \notin functionsToIgnore
  /\ functionsToParse = {} \/ name \in functionsToParse \/ name = mainName

PrepInit ==
  /\ source \in Sources
  /\ funcs = [name \in {"f"} |-> source]
  /\ pass = 0

RunPass(p) == pass < Len(Chain) /\ Chain[pass + 1] = p /\ pass' = pass + 1

DuplicateFunctionsPass ==
  /\ RunPass("DuplicateFunctions")
  /\ funcs' = IF isToParseFunction("f")
                THEN [name \in {"f", sequentialName} |->
                        IF name = "f" THEN funcs["f"]
                        ELSE [funcs["f"] EXCEPT !.body = changeNames(@)]]
                ELSE funcs
  /\ UNCHANGED source

\* The passes that rewrite statement by statement.
StatementPass(p) ==
  /\ RunPass(p)
  /\ \E order \in {"forward", "backward"} :
       funcs' = [name \in DOMAIN funcs |->
                   IF isToParseFunction(name)
                     THEN [funcs[name] EXCEPT !.body = Rewrite(p, order, @)]
                     ELSE funcs[name]]
  /\ UNCHANGED source

GotoTransfoPass ==
  /\ RunPass("GotoTransfo")
  /\ funcs' = [name \in DOMAIN funcs |->
                 IF isToParseFunction(name) THEN GotoTransfo(funcs[name]) ELSE funcs[name]]
  /\ UNCHANGED source

PrepNext ==
  \/ DuplicateFunctionsPass
  \/ StatementPass("ConditionUnstack")
  \/ StatementPass("MultipleDeclSplitter")
  \/ StatementPass("Unstack")
  \/ StatementPass("DeclarationSplitter")
  \/ GotoTransfoPass

PrepSpec == PrepInit /\ [][PrepNext]_prepVars
-----------------------------------------------------------------------------
(* What a function does: its trace, the calls it makes, the variables it   *)
(* sets, the conditions it tests and what it returns.  A value is a term,  *)
(* a name applied to terms.  Conditions come out as o.oracle says.  Text   *)
(* that C++ does not accept puts "broken" in the trace.                    *)

Source(v) == v[1] = "var"
Log(st, event) == [st EXCEPT !.log = Append(@, event)]

Start ==
  [log |-> <<>>, val |-> <<>>, ref |-> <<>>, wrapper |-> {}, scope |-> {},
   tests |-> 0, jump |-> "no"]

Target(st, v) == IF v \in DOMAIN st.ref THEN st.ref[v] ELSE v
Read(st, v) ==
  IF Target(st, v) \in DOMAIN st.val THEN st.val[Target(st, v)]
  ELSE <<<<"unset", v[2]>>, <<>>>>

With(f, v, x) == [w \in DOMAIN f \cup {v} |-> IF w = v THEN x ELSE f[w]]
Without(f, S) == [w \in DOMAIN f \ S |-> f[w]]

RECURSIVE Term(_, _)
Term(st, e) ==
  LET sub(x) == Term(st, x)
  IN  CASE e.op = "var"   -> Read(st, e.name)
        [] e.op = "paren" -> sub(e.args[1])
        [] OTHER          -> <<e.name, Map(sub, e.args)>>

\* The calls an expression makes, in one of the orders C++ allows: operands
\* forward or backward, and perhaps all arguments before the outermost calls.
Ordered(o, s) == IF o.order = "forward" THEN s ELSE Reverse(s)

RECURSIVE Calls(_, _, _)
Calls(st, e, o) ==
  LET sub(x) == Calls(st, x, o)
      inner == FlatMap(sub, Ordered(o, e.args))
  IN  CASE e.op = "call"   -> inner \o <<<<"call", Term(st, e)>>>>
        [] e.op = "broken" -> <<<<"broken">>>>
        [] OTHER           -> inner

Evaluations(st, e, o) ==
  LET top == Ordered(o, findTopCallsInExpr(e))
      below(c) == FlatMap(LAMBDA x : Calls(st, x, o), Ordered(o, c.args))
      own(c) == <<"call", Term(st, c)>>
  IN  IF o.rootsLast /\ e.op # "broken"
        THEN FlatMap(below, top) \o Map(own, top)
        ELSE Calls(st, e, o)

Eval(st, e, o) == [st EXCEPT !.log = @ \o Evaluations(st, e, o)]

\* A reference, or the wrapper that stands for one, is bound to a variable.
Bind(st, v, e) ==
  LET bound == [st EXCEPT !.ref = With(@, v, Target(st, e.name))]
  IN  CASE e.op # "var" -> Log(st, <<"broken">>)
        [] e.op = "var" /\ Source(v) -> Log(bound, <<"init", v, Read(st, e.name)>>)
        [] OTHER -> bound

Store(st, v, e, event) ==
  LET t == Term(st, e)
      stored == [st EXCEPT !.val = With(@, Target(st, v), t)]
  IN  IF Source(v) THEN Log(stored, <<event, Target(st, v), t>>) ELSE stored

Assign(st, v, e, o) ==
  IF v \in st.wrapper THEN Bind(Eval(st, e, o), v, e)
                      ELSE Store(Eval(st, e, o), v, e, "set")

Declare(st, d, o) ==
  LET fresh ==
        [st EXCEPT !.val = Without(@, {d.name}), !.ref = Without(@, {d.name}),
                   !.scope = @ \cup {d.name},
                   !.wrapper = IF d.type = "wrapper" THEN @ \cup {d.name} ELSE @ \ {d.name}]
      named == IF d.name \in st.scope THEN Log(fresh, <<"broken">>) ELSE fresh
      ready == Eval(named, d.init, o)
  IN  IF d.init = NoExpr THEN named
      ELSE CASE d.type = "ref" /\ d.init.op = "var" -> Bind(ready, d.name, d.init)
             [] d.type = "ref" /\ d.init.op # "var" -> Store(ready, d.name, d.init, "init")
             [] d.type = "const"                    -> Store(ready, d.name, d.init, "init")
             [] OTHER                               -> Store(ready, d.name, d.init, "set")

\* What a block declares ends with it.
Leave(inner, outer) ==
  LET back(new, old) ==
        [v \in (DOMAIN new \ inner.scope) \cup (DOMAIN old \cap inner.scope) |->
           IF v \in inner.scope THEN old[v] ELSE new[v]]
  IN  [inner EXCEPT !.val = back(@, outer.val), !.ref = back(@, outer.ref),
                    !.wrapper = (@ \ inner.scope) \cup (outer.wrapper \cap inner.scope),
                    !.scope = outer.scope]
Enter(st) == [st EXCEPT !.scope = {}]

\* A condition, and how it comes out.
Test(st, e, o) ==
  LET evaluated == Eval(st, e, o)
  IN  Log([evaluated EXCEPT !.tests = @ + 1], <<"test", Term(st, e)>>)
Holds(st, o) == st.tests \in DOMAIN o.oracle /\ o.oracle[st.tests]

RECURSIVE Exec(_, _, _)
RECURSIVE Loop(_, _, _)

Declares(st, ds, o) == FoldLeft(LAMBDA x, d : Declare(x, d, o), st, ds)
Scope(st, body, o) == Leave(Exec(Enter(st), body, o), st)

Step(st, s, o) ==
  CASE s.k = "decl"   -> Declares(st, s.vars, o)
    [] s.k = "expr"   -> Eval(st, s.e, o)
    [] s.k = "set"    -> Assign(st, s.name, s.e, o)
    [] s.k = "return" -> LET x == Eval(st, s.e, o)
                         IN  [IF s.e = NoExpr THEN x ELSE Log(x, <<"return", Term(st, s.e)>>)
                                EXCEPT !.jump = "return"]
    [] s.k = "goto"   -> [st EXCEPT !.jump = "goto"]
    [] s.k = "label"  -> st
    [] s.k = "block"  -> Scope(st, s.body, o)
    [] s.k = "if"     -> LET x == Test(Declares(Enter(st), s.decls \o s.condVar, o),
                                       Condition(s), o)
                         IN  Leave(Scope(x, IF Holds(x, o) THEN s.then ELSE s.else, o), st)
    [] s.k = "do"     -> Loop(Scope(st, s.body, o), s, o)
    [] s.k = "while"  -> Loop(st, s, o)
    [] s.k = "for"    -> Leave(Loop(Declares(Enter(st), s.decls, o), s, o), st)

\* The rounds of a loop.
Loop(st, s, o) ==
  LET x == Test(Declares(Enter(st), s.condVar, o), Condition(s), o)
      y == Scope(x, s.body, o)
      z == Leave(IF y.jump = "no" THEN Eval(y, s.inc, o) ELSE y, st)
  IN  IF st.jump # "no" THEN st
      ELSE IF Holds(x, o) THEN Loop(z, s, o) ELSE Leave(x, st)

\* A jump skips the statements up to the label.
Exec(st, body, o) ==
  IF body = <<>> THEN st
  ELSE Exec(CASE st.jump = "no" -> Step(st, Head(body), o)
              [] st.jump = "goto" /\ Head(body).k = "label" -> [st EXCEPT !.jump = "no"]
              [] OTHER -> st,
            Tail(body), o)

Environments(oracle) ==
  [oracle : {oracle}, order : {"forward", "backward"}, rootsLast : BOOLEAN]
Trace(f, o) == Exec(Start, f.body, o).log

RECURSIVE Statements(_)
Statements(body) ==
  LET each(s) == {s} \cup
        CASE s.k = "if" -> Statements(s.then) \cup Statements(s.else)
          [] s.k \in {"while", "do", "for", "block"} -> Statements(s.body)
          [] OTHER -> {}
  IN  UNION {each(body[i]) : i \in 1..Len(body)}
-----------------------------------------------------------------------------

\* The sequential version stays the text of the source, calling itself where
\* the source calls f: no later pass goes into it.
SequentialKept ==
  pass > 0 /\ isToParseFunction("f") =>
    funcs[sequentialName] = [source EXCEPT !.body = changeNames(@)]

\* What TaskGraph is given: a declaration declares one variable and gives no
\* value (except for types without default constructor and for what a wrapper
\* is bound to), no argument of a call calls, and the function is left at its
\* end only.
ReadyForTasks ==
  pass = Len(Chain) /\ isToParseFunction("f") =>
    LET body == funcs["f"].body
        all == Statements(body)
    IN  /\ \A s \in all : s.k = "decl" =>
             /\ Len(s.vars) = 1
             /\ s.vars[1].init = NoExpr \/ s.vars[1].type = "noDefault"
                  \/ s.vars[1].name[1] = "__refT"
        /\ \A s \in all : s.k \in {"expr", "set"} => Hoisted(<<s.e>>, "forward") = <<>>
        /\ \A s \in all : s.k = "return" => s = Last(body)
=============================================================================
