------------------------------ MODULE Constify ------------------------------
(***************************************************************************)
(* The constify tool (transforms/Constify): three traversals of a          *)
(* translation unit.  The first enters every variable, method and "this"   *)
(* in a table and links what must lose its const together; the second      *)
(* takes const away from what is modified and from all it is linked to;    *)
(* the third writes const into the declarations that kept it.              *)
(*                                                                         *)
(* A unit is the sequence of its AST nodes in the order of traversal,      *)
(* nodes of headers and of functions that are not parsed left out.  An     *)
(* expression is                                                           *)
(*   base    the variable, member or "this" it really designates, points   *)
(*           to or refers to, or NoEntity (a value, a new)                 *)
(*   of      the object base is a member of, when that member itself is    *)
(*           written, referred to or pointed to                            *)
(*   shape   what getInnerPtr and getInnerExpr make of it: "plain" when    *)
(*           they find base, "hidden" when they find nothing (a call, v[0] *)
(*           of a class), "stuck" when they give up after ten rounds (a    *)
(*           literal, nullptr, an expression in parentheses, ?:)           *)
(* and a node has the fields                                               *)
(*   kind    var, field, method, this, assign, inc, call, return           *)
(*   target  what is declared, or the method that is called                *)
(*   ptr     its type is a pointer or a reference; of a return: what it    *)
(*           returns is a pointer, or a reference by its name              *)
(*   left    what is written or returned; of a call: the object            *)
(*   source  the initial or the assigned value                             *)
(*   init    none, value, new or call                                      *)
(*   place   of a var: param, single, or multi (int a, b;)                 *)
(*   const   of a method or of the call of one: it is const in the source; *)
(*           of a return: nothing can be written through the result        *)
(*   fixed   of a method: a constructor, a destructor or static            *)
(*   name    of a method                                                   *)
(*   meth    of a "this": the method it stands in                          *)
(*   form    of a call: function, method, operator (a method, with its     *)
(*           object for first argument), construct, or indirect            *)
(*   system  of a call: the function is of a system header                 *)
(*   params  of a call: the parameters, whether each is a pointer or a     *)
(*           reference and whether it is const itself (T *const)           *)
(*   args    of a call: the arguments, those of an ellipsis at the end     *)
(*   writes  of a call: the numbers of the arguments that a function of a  *)
(*           system header, or an ellipsis, may write through              *)
(***************************************************************************)
EXTENDS Naturals, Sequences, FiniteSets

CONSTANTS
  Entity,     \* what the table has entries for
  NoEntity,   \* an expression without one: nullptr
  Name,       \* the names of methods
  Units       \* the translation units to try

Maybe == Entity \cup {NoEntity}

Expr == [base : Maybe, of : Maybe, shape : {"plain", "hidden", "stuck"}]

Param == [name : Maybe, ptr : BOOLEAN, top : BOOLEAN]

Node ==
  [kind   : {"var", "field", "method", "this", "assign", "inc", "call", "return"},
   target : Maybe, ptr : BOOLEAN, left : Expr, source : Expr,
   init   : {"none", "value", "new", "call"},
   place  : {"param", "single", "multi"},
   const  : BOOLEAN, fixed : BOOLEAN, name : Name \cup {NoEntity}, meth : Maybe,
   form   : {"function", "method", "operator", "construct", "indirect"},
   system : BOOLEAN, params : Seq(Param), args : Seq(Expr), writes : SUBSET Nat]

Declaring == {"var", "field", "method", "this"}

Designates(x) == x.base # NoEntity \/ x.of # NoEntity

\* What holds of the nodes of every unit: a declaration and a "this" have an
\* entry, which is of one kind and, for a method, const or not in all its
\* declarations, and for a "this", in one method; a variable without an
\* initial value, or with a new, is given nothing; the method declared last
\* before a "this" is the one it stands in.  A call has an argument for each
\* parameter; one that is const calls a method that is declared so; the
\* functions of system headers have no entries, nor has what is called
\* through a pointer.
WellFormed(u) ==
  \A i \in 1..Len(u) :
    /\ u[i].kind \in Declaring =>
         /\ u[i].target \in Entity
         /\ \A j \in 1..Len(u) :
              u[j].kind \in Declaring /\ u[j].target = u[i].target =>
                /\ u[j].kind = u[i].kind
                /\ u[j].const = u[i].const
                /\ u[j].meth = u[i].meth
    /\ u[i].kind = "var" /\ u[i].init \in {"none", "new"} => ~Designates(u[i].source)
    /\ u[i].kind = "this" =>
         \E j \in 1..(i - 1) :
           /\ u[j].kind = "method" /\ u[j].target = u[i].meth
           /\ \A k \in (j + 1)..(i - 1) : u[k].kind # "method"
    /\ u[i].kind = "call" =>
         /\ Len(u[i].params) + (IF u[i].form = "operator" THEN 1 ELSE 0) <= Len(u[i].args)
         /\ u[i].writes \subseteq 1..Len(u[i].args)
         /\ u[i].target # NoEntity => u[i].form \in {"method", "operator"}
         /\ u[i].const /\ u[i].target # NoEntity =>
              \E j \in 1..Len(u) :
                u[j].kind = "method" /\ u[j].target = u[i].target /\ u[j].const
         /\ u[i].system => /\ u[i].target = NoEntity
                           /\ \A j \in 1..Len(u[i].params) : u[i].params[j].name = NoEntity
         /\ u[i].form = "indirect" => ~u[i].system /\ u[i].params = <<>>

ASSUME ConstifyAssumption ==
  /\ NoEntity \notin Entity
  /\ Units \subseteq Seq(Node)
  /\ \A u \in Units : WellFormed(u)

VARIABLES
  unit,       \* the translation unit
  pass,       \* the traversal under way: init, constify, print; done, or aborted
  pos,        \* the number of nodes it has visited
  lastMeth,   \* SymT.lastMethDecl
  isConst,    \* const_arg.is_const
  isPtr,      \* const_arg.is_ptr_or_ref
  deps,       \* const_arg.dependencies
  stack,      \* stackUnconst of the unconstifyByPropagation under way
  printed     \* the declarations written with const

tableVars == <<lastMeth, isConst, isPtr, deps>>
constVars == <<unit, pass, pos, tableVars, stack, printed>>

Entries(s) == {s[i] : i \in 1..Len(s)}

\* The elements of s that are in S, in the order of s.
Kept(s, S) ==
  LET kept[n \in 0..Len(s)] ==
        IF n = 0 THEN <<>>
        ELSE IF s[n] \in S THEN Append(kept[n - 1], s[n]) ELSE kept[n - 1]
  IN  kept[Len(s)]

\* The table makes an entry, all false, on first use.
ConstInit ==
  /\ unit \in Units
  /\ pass = "init"
  /\ pos = 0
  /\ lastMeth = NoEntity
  /\ isConst = [e \in Entity |-> FALSE]
  /\ isPtr = [e \in Entity |-> FALSE]
  /\ deps = [e \in Entity |-> <<>>]
  /\ stack = <<>>
  /\ printed = {}

\* getInnerConstArg: the entry that is found for an expression.
Inner(x) == IF x.shape = "plain" THEN x.base ELSE NoEntity

valueInit(n) == n.init \in {"value", "call"}

\* The expressions the first traversal looks for an entry in: K are the
\* parameters the table knows for pointers or references.
InitLooks(n, K) ==
  CASE n.kind = "var" /\ n.ptr /\ valueInit(n) -> {n.source}
    [] n.kind = "assign" /\ n.ptr -> {n.left, n.source}
    [] n.kind = "call" /\ ~n.system /\ n.form # "construct" ->
         (IF n.form = "method" THEN {n.left} ELSE {})
         \cup {n.args[j] : j \in {k \in 1..Len(n.params) : n.params[k].name \in K}}
    [] OTHER -> {}

\* A parameter of a function of a system header that is taken to be written.
MayWrite(parameter) == parameter.ptr /\ ~parameter.top

\* Those the second traversal takes const from when it finds an entry.
ConstifyLooks(n) ==
  CASE n.kind \in {"assign", "inc"} -> {n.left}
    [] n.kind = "return" -> IF n.ptr THEN {n.left} ELSE {}
    [] n.kind = "call" /\ n.form = "method" -> IF n.const THEN {} ELSE {n.left}
    [] n.kind = "call" /\ n.form \in {"function", "operator"} /\ n.system ->
         {n.args[j] : j \in {k \in 1..Len(n.params) : MayWrite(n.params[k])}}
    [] OTHER -> {}

KnownPointers == {e \in Entity : isPtr[e]}

\* An assertion fails: the search does not end, or a function is called that
\* is not known.
Fails(p, n) ==
  \/ p = "init" /\ \E x \in InitLooks(n, KnownPointers) : x.shape = "stuck"
  \/ p = "init" /\ n.kind = "call" /\ n.form = "indirect"
  \/ p = "constify" /\ \E x \in ConstifyLooks(n) : x.shape = "stuck"

node == unit[pos + 1]

\* The next node in the order of traversal.
Visit(p, kind) ==
  /\ pass = p
  /\ stack = <<>>
  /\ pos < Len(unit)
  /\ node.kind = kind
  /\ ~Fails(p, node)
  /\ pos' = pos + 1
  /\ UNCHANGED <<unit, pass>>

\* A failed assertion ends the tool before anything is written.
Abort ==
  /\ stack = <<>>
  /\ pos < Len(unit)
  /\ Fails(pass, node)
  /\ pass' = "aborted"
  /\ UNCHANGED <<unit, pos, tableVars, stack, printed>>
-----------------------------------------------------------------------------
(* First traversal: ASTInitVisitor.                                        *)

addDependencyHashTable(D, cur, dependency) ==
  IF cur = NoEntity \/ dependency = NoEntity THEN D
  ELSE [D EXCEPT ![cur] = Append(@, dependency)]

\* A pointer or reference and what it is given.
DependOnEachOther(D, pointer, pointee) ==
  addDependencyHashTable(addDependencyHashTable(D, pointer, pointee), pointee, pointer)

InitVisitVarDecl ==
  /\ Visit("init", "var")
  /\ isConst' = [isConst EXCEPT ![node.target] = TRUE]
  /\ isPtr' = [isPtr EXCEPT ![node.target] = @ \/ node.ptr]
  /\ deps' = IF node.ptr /\ valueInit(node)
               THEN DependOnEachOther(deps, node.target, Inner(node.source))
               ELSE deps
  /\ UNCHANGED <<lastMeth, stack, printed>>

InitVisitFieldDecl ==
  /\ Visit("init", "field")
  /\ isPtr' = [isPtr EXCEPT ![node.target] = @ \/ node.ptr]
  /\ UNCHANGED <<lastMeth, isConst, deps, stack, printed>>

InitVisitCXXMethodDecl ==
  /\ Visit("init", "method")
  /\ isConst' = [isConst EXCEPT ![node.target] = TRUE]
  /\ lastMeth' = node.target
  /\ UNCHANGED <<isPtr, deps, stack, printed>>

InitVisitCXXThisExpr ==
  /\ Visit("init", "this")
  /\ isConst' = [isConst EXCEPT ![node.target] = TRUE]
  /\ isPtr' = [isPtr EXCEPT ![node.target] = TRUE]
  /\ deps' = addDependencyHashTable(deps, node.target, lastMeth)
  /\ UNCHANGED <<lastMeth, stack, printed>>

InitVisitBinaryOperator ==
  /\ Visit("init", "assign")
  /\ deps' = IF node.ptr THEN DependOnEachOther(deps, Inner(node.left), Inner(node.source))
                         ELSE deps
  /\ UNCHANGED <<lastMeth, isConst, isPtr, stack, printed>>

\* What a parameter depends on: the argument with its number, if the table
\* knows it for a pointer or reference.  An operator that is a method has its
\* object for first argument, so the numbers do not fit.
Arguments(n, e) ==
  LET at == [j \in 1..Len(n.params) |->
               IF n.params[j].name = e /\ isPtr[e] THEN Inner(n.args[j]) ELSE NoEntity]
  IN  Kept(at, Entity)

\* A call of a function or method that is not in a system header.
InitVisitCallExpr ==
  /\ Visit("init", "call")
  /\ ~node.system /\ node.form # "construct"
  /\ LET D == IF node.form = "method"
                THEN addDependencyHashTable(deps, node.target, Inner(node.left)) ELSE deps
     IN  deps' = [e \in Entity |-> D[e] \o Arguments(node, e)]
  /\ UNCHANGED <<lastMeth, isConst, isPtr, stack, printed>>

\* Nodes the first traversal has nothing to do for: calls of system headers
\* and constructors among them.
InitPasses ==
  /\ \/ \E kind \in {"inc", "return"} : Visit("init", kind)
     \/ /\ Visit("init", "call")
        /\ node.system \/ node.form = "construct"
  /\ UNCHANGED <<tableVars, stack, printed>>
-----------------------------------------------------------------------------
(* Second traversal: ASTConstifyVisitor.                                   *)

\* What unconstifyByPropagation is called with, one entry after the other:
\* nullptr does nothing, and a call ends before the next one begins.
Start(entries) ==
  /\ stack' = Kept([j \in 1..Len(entries) |-> entries[Len(entries) + 1 - j]], Entity)
  /\ UNCHANGED <<tableVars, printed>>

\* The method shares its name with another one of the class.
Shared(u, m) ==
  \E n \in Entries(u) : n.kind = "method" /\ n.target # m.target /\ n.name = m.name

\* A method that shares its name, unless it is const in the source.
ConstifyVisitCXXMethodDecl ==
  /\ Visit("constify", "method")
  /\ Start(IF Shared(unit, node) /\ ~node.const THEN <<node.target>> ELSE <<>>)

\* Slip: only plain variables lose their const.
ConstifyVisitBinaryOperator_NoPointers ==
  /\ Visit("constify", "assign")
  /\ Start(IF node.ptr THEN <<>> ELSE <<Inner(node.left)>>)

ConstifyVisitBinaryOperator == Visit("constify", "assign") /\ Start(<<Inner(node.left)>>)

ConstifyVisitUnaryOperator == Visit("constify", "inc") /\ Start(<<Inner(node.left)>>)

ConstifyVisitReturnStmt ==
  /\ Visit("constify", "return")
  /\ Start(IF node.ptr THEN <<Inner(node.left)>> ELSE <<>>)

\* The object of a method that is not const in the source; the arguments are
\* not looked at.
ConstifyVisitMemberCall ==
  /\ Visit("constify", "call")
  /\ node.form = "method"
  /\ Start(IF node.const THEN <<>> ELSE <<Inner(node.left)>>)

\* The arguments that a function of a system header may write, those of an
\* ellipsis left out.
ConstifyVisitSystemCall ==
  /\ Visit("constify", "call")
  /\ node.form \in {"function", "operator"} /\ node.system
  /\ Start([j \in 1..Len(node.params) |->
              IF MayWrite(node.params[j]) THEN Inner(node.args[j]) ELSE NoEntity])

\* A pointer or reference whose value a function returned.
ConstifyVisitVarDecl ==
  /\ Visit("constify", "var")
  /\ Start(IF node.ptr /\ node.init = "call" THEN <<node.target>> ELSE <<>>)

ConstifyPasses ==
  /\ \/ \E kind \in {"field", "this"} : Visit("constify", kind)
     \/ /\ Visit("constify", "call")
        /\ \/ node.form = "construct"
           \/ node.form \in {"function", "operator"} /\ ~node.system
  /\ UNCHANGED <<tableVars, stack, printed>>

\* Slip: the top of the stack is never popped.
Rest_Kept == stack

\* The stack without its top.
Rest == SubSeq(stack, 1, Len(stack) - 1)

\* Slip: only the first linked entry that is const still is followed.
Pushed_First(e) ==
  LET all == Kept(deps[e], {d \in Entity : d # e /\ isConst[d]})
  IN  IF all = <<>> THEN <<>> ELSE <<Head(all)>>

\* The linked entries that are const still.  An entry may be linked to itself:
\* its own flag is cleared first.
Pushed(e) == Kept(deps[e], {d \in Entity : d # e /\ isConst[d]})

\* A round of unconstifyByPropagation's loop.
unconstifyByPropagation ==
  LET cur == stack[Len(stack)]
  IN  /\ stack # <<>>
      /\ isConst' = [isConst EXCEPT ![cur] = FALSE]
      /\ stack' = Rest \o Pushed(cur)
      /\ UNCHANGED <<unit, pass, pos, lastMeth, isPtr, deps, printed>>
-----------------------------------------------------------------------------
(* Third traversal: ASTPrintVisitor.                                       *)

\* A parameter, a variable that is initialised, or one of several declared
\* together.
rewriteSingleDecl(n) ==
  isConst[n.target] /\ (n.place = "single" => n.init # "none")

PrintVisitDecl ==
  /\ Visit("print", "var")
  /\ printed' = IF rewriteSingleDecl(node) THEN printed \cup {node.target} ELSE printed
  /\ UNCHANGED <<tableVars, stack>>

PrintVisitCXXMethodDecl ==
  /\ Visit("print", "method")
  /\ printed' = IF isConst[node.target] /\ ~node.const
                  THEN printed \cup {node.target} ELSE printed
  /\ UNCHANGED <<tableVars, stack>>

PrintPasses ==
  /\ \E kind \in {"field", "this", "assign", "inc", "call", "return"} :
       Visit("print", kind)
  /\ UNCHANGED <<tableVars, stack, printed>>

\* HandleTranslationUnit: one traversal after the other.
NextPass ==
  /\ pos = Len(unit)
  /\ stack = <<>>
  /\ \/ pass = "init"     /\ pass' = "constify"
     \/ pass = "constify" /\ pass' = "print"
     \/ pass = "print"    /\ pass' = "done"
  /\ pos' = 0
  /\ UNCHANGED <<unit, tableVars, stack, printed>>

ConstNext ==
  \/ InitVisitVarDecl \/ InitVisitFieldDecl \/ InitVisitCXXMethodDecl
  \/ InitVisitCXXThisExpr \/ InitVisitBinaryOperator \/ InitVisitCallExpr
  \/ InitPasses
  \/ ConstifyVisitCXXMethodDecl \/ ConstifyVisitBinaryOperator
  \/ ConstifyVisitUnaryOperator \/ ConstifyVisitReturnStmt
  \/ ConstifyVisitMemberCall \/ ConstifyVisitSystemCall \/ ConstifyVisitVarDecl
  \/ ConstifyPasses \/ unconstifyByPropagation
  \/ PrintVisitDecl \/ PrintVisitCXXMethodDecl \/ PrintPasses
  \/ NextPass \/ Abort

\* A sequential program keeps running.
ConstSpec == ConstInit /\ [][ConstNext]_constVars /\ WF_constVars(ConstNext)
-----------------------------------------------------------------------------
(* What a unit has to satisfy to be C++, from the meaning of const, when   *)
(* the declarations P are const besides those that are in the source.      *)

\* An operator's object is its first argument.
OnObject(n) == n.kind = "call" /\ n.form \in {"method", "operator"}
Object(n) == IF n.form = "operator" THEN n.args[1] ELSE n.left

\* What a node writes or lets others write, whatever the tool makes of it: the
\* object too, when the method has no entry (of a system header, implicit) and
\* is not const.
Written(n) ==
  CASE n.kind \in {"assign", "inc"} -> {n.left}
    [] n.kind = "return" -> IF n.const THEN {} ELSE {n.left}
    [] n.kind = "call" ->
         {n.args[j] : j \in n.writes}
         \cup (IF OnObject(n) /\ ~n.const /\ n.target = NoEntity THEN {Object(n)} ELSE {})
    [] OTHER -> {}

Modified(u) ==
  (UNION {{x.base, x.of} : x \in UNION {Written(n) : n \in Entries(u)}}) \ {NoEntity}

\* <<t, x>>: the pointer, reference or object parameter t is given x.  The
\* arguments of an operator follow its object.
Given(n) ==
  (IF n.kind = "var" /\ n.ptr THEN {<<n.target, n.source>>} ELSE {})
  \cup (IF n.kind = "assign" /\ n.ptr THEN {<<n.left.base, n.source>>} ELSE {})
  \cup (IF OnObject(n) THEN {<<n.target, Object(n)>>} ELSE {})
  \cup (IF n.kind # "call" THEN {}
        ELSE {<<n.params[j].name, n.args[IF n.form = "operator" THEN j + 1 ELSE j]>> :
                j \in {k \in 1..Len(n.params) : n.params[k].ptr}})

Flows(u) ==
  LET given == UNION {Given(n) : n \in Entries(u)}
  IN  {f \in {<<g[1], g[2].base>> : g \in given} \cup {<<g[1], g[2].of>> : g \in given} :
         f[1] # NoEntity /\ f[2] # NoEntity}

\* "this" is what its method says it is.
IsConst(u, P, e) ==
  \/ e \in P
  \/ \E n \in Entries(u) : n.kind = "method" /\ n.target = e /\ n.const
  \/ \E n \in Entries(u) : n.kind = "this" /\ n.target = e /\
       \E m \in Entries(u) : m.kind = "method" /\ m.target = n.meth
                               /\ (m.const \/ m.target \in P)

\* Nothing that is const is written, no pointer or reference that is not const
\* is given something const, no method that is not const is called on a const
\* object, a const variable has an initial value, and constructors,
\* destructors and static methods are not const.
Typed(u, P) ==
  /\ \A e \in Modified(u) : ~IsConst(u, P, e)
  /\ \A f \in Flows(u) : IsConst(u, P, f[2]) => IsConst(u, P, f[1])
  /\ \A n \in Entries(u) :
       /\ n.kind = "var" /\ n.target \in P /\ n.place # "param" => n.init # "none"
       /\ n.kind = "method" /\ n.fixed => n.target \notin P

\* What the tool misses, and so what a unit must not have for the output to
\* be typed.

\* An expression that is written, or handed to a pointer, is found, unless the
\* tool fails; a member is one of "this" in a method that shares its name,
\* since the tool takes const from the member alone.
Traced(u, x) ==
  /\ x.shape = "hidden" => x.base = NoEntity
  /\ x.of # NoEntity =>
       \E n, m \in Entries(u) :
         /\ n.kind = "this" /\ n.target = x.of
         /\ m.kind = "method" /\ m.target = n.meth /\ Shared(u, m)

\* Parameters are known before the call.
Linked(u, i) ==
  LET n == u[i]
  IN  \A j \in 1..Len(n.params) : n.params[j].ptr /\ Designates(n.args[j]) =>
        \E k \in 1..(i - 1) : u[k].kind = "var" /\ u[k].place = "param"
                                /\ u[k].target = n.params[j].name /\ u[k].ptr

\* No constructor takes pointers or references, no operator of the unit takes
\* them or writes its object; a function or operator of a system header writes
\* what it may write by the number of the argument, a method its object alone;
\* nothing is written through the ellipsis of another function.
CallHandled(u, i) ==
  LET n == u[i]
      noPointers == \A j \in 1..Len(n.params) : ~n.params[j].ptr
      writes == n.writes \cup (IF n.form = "operator" /\ ~n.const THEN {1} ELSE {})
  IN  CASE n.form = "construct" -> noPointers /\ n.writes = {}
        [] n.form = "operator" /\ ~n.system -> noPointers /\ n.const /\ n.writes = {}
        [] n.form \in {"function", "operator"} /\ n.system ->
             \A j \in writes : j <= Len(n.params) /\ MayWrite(n.params[j])
        [] n.form = "method" /\ n.system -> n.writes = {}
        [] OTHER -> Linked(u, i) /\ n.writes = {}

\* The units the tool is right about.  The source compiles; variables are
\* declared once, and with a value when several are declared together; what a
\* function returns to be written is a pointer, or a reference by its name;
\* and a constructor, destructor or static method shares its name.
Handled(u) ==
  /\ Typed(u, {})
  /\ \A n \in Entries(u) :
       /\ \A x \in Written(n) : Traced(u, x)
       /\ \A f \in Given(n) : f[1] # NoEntity => Traced(u, f[2])
       /\ n.kind = "var" /\ n.place = "multi" => n.init # "none"
       /\ n.kind = "return" => n.const \/ n.ptr
       /\ n.kind = "method" /\ n.fixed => Shared(u, n) /\ ~n.const
  /\ \A i \in 1..Len(u) :
       /\ u[i].kind = "var" =>
            \A j \in 1..Len(u) : u[j].kind = "var" /\ u[j].target = u[i].target => j = i
       /\ u[i].kind = "call" => CallHandled(u, i)
-----------------------------------------------------------------------------
ConstTypeOK ==
  /\ unit \in Units
  /\ pass \in {"init", "constify", "print", "done", "aborted"}
  /\ pos \in 0..Len(unit)
  /\ lastMeth \in Entity \cup {NoEntity}
  /\ isConst \in [Entity -> BOOLEAN]
  /\ isPtr \in [Entity -> BOOLEAN]
  /\ deps \in [Entity -> Seq(Entity)]
  /\ stack \in Seq(Entity)
  /\ printed \subseteq Entity

\* While const is taken away, an entry that lost it either waits on the stack
\* or has passed the loss on: whatever it is linked to has lost const or waits
\* on the stack (the loop of unconstifyByPropagation follows only entries that
\* are const still).
LossPassedOn ==
  pass \notin {"init", "aborted"} =>
    \A n \in {m \in Entries(unit) : m.kind \in {"var", "method", "this"}} :
      LET e == n.target IN
      isConst[e] \/ e \in Entries(stack) \/
        \A d \in Entries(deps[e]) : ~isConst[d] \/ d \in Entries(stack)

\* The first traversal takes const from nothing.
EntriesMarked ==
  pass = "init" =>
    /\ stack = <<>>
    /\ \A i \in 1..pos : unit[i].kind \in {"var", "method", "this"} => isConst[unit[i].target]

\* What makes LossPassedOn hold when the second traversal begins, and go on
\* holding at each of its steps: every declaration has an entry that is const
\* by then.
ConstInv == ConstTypeOK /\ EntriesMarked /\ LossPassedOn

\* The output, if there is one, is accepted by a compiler as far as const goes,
\* for what is really written and handed on, although const was written
\* wherever nothing was seen that forbids it: what an entry lost was passed on
\* to all it is linked to before anything is printed (ASTPrintVisitor).
OutputTyped == pass = "done" => Typed(unit, printed)

\* The three traversals end although entries may be linked in a circle.
ConstifyEnds == <>(pass \in {"done", "aborted"})
-----------------------------------------------------------------------------
(* The inductive invariant behind OutputTyped.                             *)

After(p) == CASE p = "init"     -> {"constify", "print", "done"}
              [] p = "constify" -> {"print", "done"}
              [] OTHER          -> {"done"}

\* Traversal p has visited the node i.
Visited(p, i) == (pass = p /\ i <= pos) \/ pass \in After(p)

\* A propagation ends before the traversal goes on.
StackEmptied == pass # "constify" => stack = <<>>

LastMethod ==
  pass = "init" =>
    \A i \in 1..pos :
      unit[i].kind = "method" /\ (\A k \in (i + 1)..pos : unit[k].kind # "method")
        => lastMeth = unit[i].target

KnownPointer(e, i) ==
  \E j \in 1..(i - 1) : unit[j].kind = "var" /\ unit[j].target = e /\ unit[j].ptr
Known(i) == {e \in Entity : KnownPointer(e, i)}

\* What the node i makes the entry e depend on.
DependsOn(i, e) ==
  LET n == unit[i]
  IN  {d \in Entity :
        \/ n.kind = "var" /\ n.ptr /\ valueInit(n) /\ e = n.target /\ d = Inner(n.source)
        \/ n.kind = "assign" /\ n.ptr /\ e = Inner(n.left) /\ d = Inner(n.source)
        \/ n.kind = "this" /\ e = n.target /\ d = n.meth
        \/ /\ n.kind = "call" /\ ~n.system /\ n.form # "construct"
           /\ \E j \in 1..Len(n.params) :
                n.params[j].name = e /\ Inner(n.args[j]) = d /\ KnownPointer(e, i)}

LinksMade ==
  \A i \in 1..Len(unit) : Visited("init", i) =>
    /\ unit[i].kind = "var" /\ unit[i].ptr => isPtr[unit[i].target]
    /\ \A e \in Entity : DependsOn(i, e) \subseteq Entries(deps[e])

\* What was looked at was found, or stands for nothing.
NothingFailed ==
  \A i \in 1..Len(unit) :
    /\ Visited("init", i) =>
         /\ \A x \in InitLooks(unit[i], Known(i)) : x.shape # "stuck"
         /\ unit[i].kind = "call" => unit[i].form # "indirect"
    /\ Visited("constify", i) => \A x \in ConstifyLooks(unit[i]) : x.shape # "stuck"

\* The entries the second traversal takes const from when it visits n.
Unconst(n) ==
  {e \in Entity :
    \/ \E x \in ConstifyLooks(n) : e = Inner(x)
    \/ n.kind = "method" /\ Shared(unit, n) /\ ~n.const /\ e = n.target
    \/ n.kind = "var" /\ n.ptr /\ n.init = "call" /\ e = n.target}

Losing(e) == ~isConst[e] \/ e \in Entries(stack)

\* What was written has lost const and so has all it is linked to, or is about
\* to.
WritesLose ==
  \A i \in 1..Len(unit) : Visited("constify", i) =>
    \A e \in Unconst(unit[i]) :
      \/ e \in Entries(stack)
      \/ ~isConst[e] /\ \A d \in Entries(deps[e]) : Losing(d)

\* What is printed with const kept it, and what kept it is printed.
PrintedRight ==
  /\ printed # {} => pass \in {"print", "done"}
  /\ \A e \in printed :
       /\ isConst[e]
       /\ \E n \in Entries(unit) :
            /\ n.target = e
            /\ n.kind = "method" \/ (n.kind = "var" /\ rewriteSingleDecl(n))
  /\ \A i \in 1..Len(unit) :
       Visited("print", i) /\ unit[i].kind = "var" /\ rewriteSingleDecl(unit[i])
         => unit[i].target \in printed

PropagationInv ==
  /\ ConstInv /\ StackEmptied /\ LastMethod /\ LinksMade /\ NothingFailed
  /\ WritesLose /\ PrintedRight
=============================================================================
