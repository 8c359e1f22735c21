----------------------------- MODULE Footprints -----------------------------
(***************************************************************************)
(* What ASTTaskGraphVisitor says a statement reads and writes, and the     *)
(* AliasTable it takes this from (transforms/TaskGraph/src/                *)
(* ASTTaskGraphVisitor.cpp and AliasTable.cpp), next to what the statement *)
(* really touches when the program runs.                                   *)
(*                                                                         *)
(* One step is one statement of a function body: the visitor handles it    *)
(* (aliasTable and instr change) and, unless it is in a branch that is not *)
(* taken, the program executes it (pointsTo and touched change).  The      *)
(* visitor sees every statement once and in the order of the text, so the  *)
(* steps are those of a straight-line body.                                *)
(*                                                                         *)
(* An expression is a variable and a depth: &v is [v, -1], v is [v, 0], *v *)
(* is [v, 1].  The pointers sets of the aliasArgs mirror their aliased     *)
(* sets and are read by nothing, so they are left out; array elements are  *)
(* in TaskGraph and AliasTableMap.                                         *)
(***************************************************************************)
EXTENDS Integers, Sequences, FiniteSets

CONSTANTS
  Var,          \* the variables of the function
  Level,        \* Level[v]: 0 for an int, 1 for an int *, 2 for an int **
  Ref,          \* those that are std::reference_wrappers
  Statements,   \* the statements a body is made of
  Skippable     \* those that may stand in a branch that is not taken

Unset == "unset"       \* an uninitialised pointer, an invalid_ref
Foreign == "foreign"   \* new memory, or what a callee returns of its own

Mode == {"value",     \* by value or by const reference: the callee uses the value
         "ref",       \* by reference: the callee reads and writes the object
         "refRO",     \* the same, found read-only by ParamWriteAnalyzer
         "ptr",       \* by pointer: the callee reads and writes the target
         "ptrRO",     \* the same, found read-only
         "select"}    \* by pointer, read-only: the callee returns the pointer

Access == [v : Var, d : -1..2]
Argument == [v : Var, d : -1..2, mode : Mode]

\* What a callee does beside using its arguments as their modes say: it reads
\* and writes global variables of the function's file, and may
Conduct == {"follows",   \* follow the pointers it is given to the end
            "sets",      \* assign to the pointers it has write access to
            "refers"}    \* return what it is given by reference, or a global

Callee == [globals : SUBSET Var, does : SUBSET Conduct]

\* An assignment has a target and a right side, which is a call or the
\* operands of an expression, none for a literal or a new.  The other forms
\* have their operands in args: the one of ++, delete, an object of a method
\* call, the variables a reference is bound to.
Statement ==
  [op     : {"=", "op=", "++", "call", "bind", "method", "constmethod", "delete"},
   lhs    : Access,
   call   : BOOLEAN,
   args   : Seq(Argument),
   callee : Callee]

ASSUME FootprintAssumption ==
  /\ IsFiniteSet(Var)
  /\ Unset \notin Var /\ Foreign \notin Var
  /\ Level \in [Var -> 0..2]
  /\ Ref \subseteq {v \in Var : Level[v] = 0}
  /\ Statements \subseteq Statement
  /\ Skippable \subseteq Statements

VARIABLES
  aliasTable,   \* per variable: its aliased and its references sets
  instr,        \* the dependencies of the instruction pushed last
  pointsTo,     \* what each pointer and reference holds
  touched,      \* what the statement executed last read and wrote
  named         \* its callee kept to what the call names

footprintVars == <<aliasTable, instr, pointsTo, touched, named>>

Table == [aliased : [Var -> SUBSET Var], references : [Var -> SUBSET Var]]
Footprint == [reads : SUBSET Var, writes : SUBSET Var]
Nothing == [reads |-> {}, writes |-> {}]
-----------------------------------------------------------------------------
getAliasType(v) ==
  IF Level[v] > 0 THEN "Pointer" ELSE IF v \in Ref THEN "Reference" ELSE "Variable"

\* The number of dereferences that lead from v to an expression of a level.
getPtrDepthAccess(v, level) == Level[v] - level

ArgVars(args) == {args[k].v : k \in 1..Len(args)}

\* Every variable named in the expression, but for the x of &x.
getAllReadDeclRefExprInsideExpr(args) ==
  {args[k].v : k \in {j \in 1..Len(args) : args[j].d # -1}}

\* The one variable of an expression, if there is exactly one.
HasSingleDeclRef(args) == Len(args) = 1

Round(more, S) == S \cup UNION {more[a] : a \in S}

\* v and what is added to it, round after round, until nothing is left to add.
Closure(more, v) ==
  LET names[n \in 0..Cardinality(Var)] ==
        IF n = 0 THEN {v} ELSE Round(more, names[n - 1])
  IN  names[Cardinality(Var)]

\* What a reference names, and the other names of what is named.
Referred(T) == [a \in Var |-> IF getAliasType(a) = "Reference" THEN T.aliased[a] ELSE {}]
Names(T) == [a \in Var |-> T.references[a] \cup Referred(T)[a]]

\* Slip: the references of an alias are not followed.
getAliases_Self(T, v) == {v}

\* The names of one object: references to a name, and what a reference names.
getAliases(T, v) == Closure(Names(T), v)

Aliased(T, S) == UNION {T.aliased[a] : a \in S}

\* Following a pointer about which nothing is known leaves nothing.
Targets(T, S) == Aliased(T, {a \in S : getAliasType(a) = "Pointer"})

\* The objects that v, *v or **v may be.
getModifiedVariables(T, v, depth) ==
  LET referred == Closure(Referred(T), v)
  IN  CASE depth = 1 -> Targets(T, {v})
        [] depth = 2 -> Targets(T, Targets(T, {v}))
        [] OTHER     -> referred \cup UNION {T.references[a] : a \in referred}

\* v and the pointers read on the way to **v.
getPointerAccessedVariables(T, v, depth) ==
  {v} \cup (IF depth > 0 THEN Aliased(T, {v}) ELSE {})
      \cup (IF depth > 1 THEN Aliased(T, Aliased(T, {v})) ELSE {})

addAliasPtr(T, var, ptr) == [T EXCEPT !.aliased[ptr] = @ \cup {var}]

fuseAliased(T, source, dest) ==
  [T EXCEPT !.aliased[dest] = @ \cup T.aliased[source]]

\* target points where toAdd points, and nowhere else.
replaceAliasedToElement(T, toAdd, target) ==
  [T EXCEPT !.aliased[target] = T.aliased[toAdd]]

\* Slip: the entry of the pointer is erased with its targets.
removeDependencyPtr_Erase(T, ptr) ==
  [T EXCEPT !.aliased = [v \in Var \ {ptr} |-> T.aliased[v]]]

removeDependencyPtr(T, ptr) == [T EXCEPT !.aliased[ptr] = {}]

\* For each of the variables that a reference is bound to.
addAliasReference(T, vars, ref) ==
  [aliased    |-> [T.aliased EXCEPT ![ref] = @ \cup vars],
   references |-> [v \in Var |-> IF v \in vars THEN T.references[v] \cup {ref}
                                                ELSE T.references[v]]]
-----------------------------------------------------------------------------
\* Assignments to pointers.  The sets are unordered: what the code does for
\* each left alias and, for it, each right alias, it does in some order of both.
Orders(left, right) ==
  LET n == Cardinality(left \X right)
  IN  {q \in [1..n -> left \X right] :
        /\ \A pair \in left \X right : \E k \in 1..n : q[k] = pair
        /\ \A i, j, k \in 1..n : i < j /\ j < k /\ q[i][1] = q[k][1] => q[j][1] = q[i][1]}

Link(how, T, l, r) ==
  CASE how = "add"     -> addAliasPtr(T, r, l)
    [] how = "fuse"    -> fuseAliased(T, r, l)
    [] how = "replace" -> replaceAliasedToElement(T, r, l)

Linked(how, T, q, n) ==
  LET table[k \in 0..n] == IF k = 0 THEN T ELSE Link(how, table[k - 1], q[k][1], q[k][2])
  IN  table[n]

ForEachPair(how, T, left, right) ==
  {Linked(how, T, q, Cardinality(left \X right)) : q \in Orders(left, right)}

\* What the expression [v, depth] may be, with &v itself standing for v.
computeAliasesForRHS(T, v, depth) ==
  IF depth = -1 THEN {v} ELSE getModifiedVariables(T, v, depth)

IsPointerArg(a) == a.mode \notin {"ref", "refRO"} /\ Level[a.v] > a.d

\* A pointer argument of a call whose result is assigned to a pointer of the
\* given level: what it points to may be the result, or what that points to
\* when it is of a higher level.  (The address of a pointer to such a pointer
\* is taken for the pointer itself.)
MayReturn(T, left, level, a) ==
  LET argLevel == Level[a.v] - a.d
      depth    == argLevel - level
      aliases  == computeAliasesForRHS(T, a.v, a.d)
  IN  IF ~IsPointerArg(a) \/ depth < 0 THEN {T}
      ELSE IF a.d = -1
        THEN ForEachPair("add", T, left, aliases)
        ELSE ForEachPair("fuse", T, left,
               UNION {getModifiedVariables(T, b, depth) : b \in aliases})

\* The table after the arguments of a call, one after the other.
MayReturnAll(T, left, level, args) ==
  LET tables[k \in 0..Len(args)] ==
        IF k = 0 THEN {T}
        ELSE UNION {MayReturn(t, left, level, args[k]) : t \in tables[k - 1]}
  IN  tables[Len(args)]

\* With one variable on the right, its address or its targets replace the
\* old ones; the address only takes the place of those of one left alias,
\* whichever comes first.  A call with more arguments adds to the targets, and
\* any other right side (new, nullptr, a sum) leaves them as they are.
handlePointersBinaryAssignment(T, left, level, call, args) ==
  IF HasSingleDeclRef(args) THEN
    LET v     == args[1].v
        depth == getPtrDepthAccess(v, level)
        right == computeAliasesForRHS(T, v, depth)
    IN  IF depth = -1
          THEN UNION {ForEachPair("add", removeDependencyPtr(T, l), left, right) : l \in left}
          ELSE ForEachPair("replace", T, left, right)
  ELSE IF call THEN MayReturnAll(T, left, level, args)
  ELSE {T}
-----------------------------------------------------------------------------
\* The dependencies of an instruction are closed under getAliases.
Dependencies(T, reads, writes) ==
  [reads  |-> UNION {getAliases(T, v) : v \in reads},
   writes |-> UNION {getAliases(T, v) : v \in writes}]

\* Slip: what is read through a pointer is not added.
handleExpr_PointerOnly(T, e) == IF e.d = -1 THEN {} ELSE {e.v}

\* handleStmt on an expression that is read: &x reads nothing, x itself, and
\* *p what it may be and the pointers on the way.
handleExpr(T, e) ==
  IF e.d = -1 THEN {}
  ELSE IF e.d = 0 THEN {e.v}
  ELSE getModifiedVariables(T, e.v, e.d) \cup getPointerAccessedVariables(T, e.v, e.d - 1)

\* handleCallExpr: an argument for a parameter that may be modified stands for
\* the variable it names, whatever its depth, and is written unless
\* ParamWriteAnalyzer found the parameter read-only.
handleCallExpr(T, args) ==
  LET all == {args[k] : k \in 1..Len(args)}
  IN  [reads  |-> UNION {IF a.mode = "value" THEN handleExpr(T, a) ELSE {a.v} : a \in all},
       writes |-> {a.v : a \in {b \in all : b.mode \in {"ref", "ptr"}}}]

\* The right side of an assignment.
handleRHS(T, s) ==
  IF s.call THEN handleCallExpr(T, s.args)
  ELSE [reads  |-> UNION {handleExpr(T, s.args[k]) : k \in 1..Len(s.args)},
        writes |-> {}]

\* The instruction of an assignment, with T the table after it: every alias
\* of the left side is written and the pointers on the way are read, as is
\* every variable the statement names.
handleBinaryAssignment(T, left, s) ==
  LET rhs == handleRHS(T, s)
  IN  Dependencies(T,
        {s.lhs.v} \cup getAllReadDeclRefExprInsideExpr(s.args) \cup rhs.reads
          \cup (IF s.op = "op=" THEN left ELSE {})
          \cup (IF s.lhs.d > 0 THEN getPointerAccessedVariables(T, s.lhs.v, s.lhs.d) ELSE {}),
        left \cup rhs.writes)

\* ++x and ++*p: what it may be is read and written.
handleUnaryOperator(T, e) ==
  LET aliases == getModifiedVariables(T, e.v, e.d)
  IN  Dependencies(T, {e.v} \cup aliases \cup getPointerAccessedVariables(T, e.v, e.d), aliases)
-----------------------------------------------------------------------------
\* The running program.  What a variable holds, and the object that v, *v or
\* **v is.
Holds(o) == IF o \in Var THEN pointsTo[o] ELSE o

ObjectAt(v, depth) ==
  LET self == IF v \in Ref THEN pointsTo[v] ELSE v
  IN  CASE depth = 0 -> self
        [] depth = 1 -> Holds(self)
        [] depth = 2 -> Holds(Holds(self))

Object(e) == ObjectAt(e.v, e.d)

\* The pointers and references followed on the way to the object.
Path(e) == (IF e.v \in Ref THEN {e.v} ELSE {}) \cup {ObjectAt(e.v, n) : n \in 0..(e.d - 1)}

\* The value of an expression that is a pointer.
Value(e) == IF e.d = -1 THEN e.v ELSE Holds(Object(e))

\* A program follows and copies no uninitialised pointer.
Defined(args) ==
  \A k \in 1..Len(args) :
    /\ args[k].d >= 0 => Object(args[k]) # Unset
    /\ Level[args[k].v] > args[k].d => Value(args[k]) # Unset

\* What evaluating the operands of an expression, or a callee that is given
\* them, reads and writes.
ArgReads(args) ==
  UNION {LET a == args[k]
         IN  (IF a.d = -1 THEN {} ELSE Path(a) \cup {Object(a)})
               \cup (IF a.mode \in {"ptr", "ptrRO"} THEN {Value(a)} ELSE {}) :
         k \in 1..Len(args)}

CalleeWrites(args) ==
  UNION {CASE args[k].mode = "ref" -> {Object(args[k])}
           [] args[k].mode = "ptr" -> {Value(args[k])}
           [] OTHER                -> {} :
         k \in 1..Len(args)}

\* What an argument lets the callee get at: the object of a reference, or what
\* a pointer points to, and how often that can be dereferenced.
PointerTo(a) == IF a.mode \in {"ref", "refRO"} THEN Object(a) ELSE Value(a)
PointerLevel(a) == Level[a.v] - a.d + (IF a.mode \in {"ref", "refRO"} THEN 1 ELSE 0)

Follow(o, n) == CASE n = 0 -> o [] n = 1 -> Holds(o) [] OTHER -> Holds(Holds(o))

Args(s) == {s.args[k] : k \in 1..Len(s.args)}
Written(s) == {a \in Args(s) : a.mode \in {"ref", "ptr"}}
Does(s, conduct) == conduct \in s.callee.does

\* What a callee that follows its pointers finds from the arguments S.
Found(s, S) ==
  IF Does(s, "follows")
    THEN UNION {{Follow(PointerTo(a), n) : n \in 0..(PointerLevel(a) - 1)} : a \in S}
    ELSE {}

GlobalObjects(s) == {ObjectAt(g, 0) : g \in s.callee.globals}

ReadByCall(s) ==
  ArgReads(s.args) \cup Found(s, Args(s)) \cup s.callee.globals \cup GlobalObjects(s)

WrittenByCall(s) == CalleeWrites(s.args) \cup Found(s, Written(s)) \cup GlobalObjects(s)

\* The pointers of a level that a callee may return or store: its own, those
\* it is given, and those it finds by following these; if it refers, also what
\* it is given by reference and its globals, their addresses or what they hold.
Returned(level, s) ==
  {Foreign}
    \cup {Follow(PointerTo(a), PointerLevel(a) - level) : a \in {b \in Args(s) :
             /\ PointerLevel(b) = level \/ (PointerLevel(b) > level /\ Does(s, "follows"))
             /\ IsPointerArg(b) \/ Does(s, "refers")}}
    \cup {Follow(ObjectAt(g, 0), Level[g] + 1 - level) : g \in {h \in s.callee.globals :
             Does(s, "refers") /\ Level[h] + 1 >= level}}

\* The pointers that a callee may assign to, and what pointers hold after it.
Settable(s) ==
  {PointerTo(a) : a \in {b \in Written(s) : PointerLevel(b) > 1}}
    \cup {g \in s.callee.globals : Level[g] > 0}

AfterCall(s) ==
  IF ~Does(s, "sets") THEN {pointsTo}
  ELSE {[v \in Var |-> IF v \in Settable(s) THEN set[v] ELSE pointsTo[v]] :
          set \in {f \in [Settable(s) \cap Var -> UNION {Returned(l, s) : l \in {1, 2}}] :
                    \A v \in DOMAIN f : f[v] \in Returned(Level[v], s)}}

\* A callee keeps to what the call names if its globals are among the variables
\* it is given to write, and if following its pointers leads no further than
\* to variables named in the call.
Calls(s) == s.call \/ s.op \in {"call", "method", "constmethod"}

Named(s) ==
  Calls(s) => /\ s.callee.globals \subseteq {a.v : a \in Written(s)}
              /\ Does(s, "follows") =>
                   \A a \in Args(s) : Level[a.v] = 0 /\ (a.mode = "value" => a.d = 0)

Touch(s, reads, writes) ==
  /\ touched' = [reads |-> reads \cap Var, writes |-> writes \cap Var]
  /\ named' = Named(s)

\* The statement is in a branch that is not taken.
NotTaken(s) == /\ s \in Skippable
               /\ Touch(s, {}, {})
               /\ UNCHANGED pointsTo
-----------------------------------------------------------------------------
FootprintInit ==
  /\ aliasTable = [aliased |-> [v \in Var |-> {}], references |-> [v \in Var |-> {}]]
  /\ pointsTo = [v \in Var |-> Unset]
  /\ instr = Nothing
  /\ touched = Nothing
  /\ named = TRUE

\* Slip: an assignment through a pointer to a pointer leaves the table alone.
AssignTables_Direct(s, left, level) ==
  IF level = 0 \/ s.lhs.d > 0 THEN {aliasTable}
  ELSE handlePointersBinaryAssignment(aliasTable, left, level, s.call, s.args)

\* The alias table after an assignment: it changes when a pointer is assigned.
AssignTables(s, left, level) ==
  IF level = 0 THEN {aliasTable}
  ELSE handlePointersBinaryAssignment(aliasTable, left, level, s.call, s.args)

\* The target is found before the callee runs.
RunAssignment(s, level) ==
  LET target == Object(s.lhs)
      values == IF s.call THEN Returned(level, s)
                ELSE IF HasSingleDeclRef(s.args) THEN {Value(s.args[1])} ELSE {Foreign}
  IN  /\ target # Unset
      /\ Defined(s.args)
      /\ Touch(s, (IF s.call THEN ReadByCall(s) ELSE ArgReads(s.args))
                    \cup Path(s.lhs) \cup (IF s.op = "op=" THEN {target} ELSE {}),
               {target} \cup (IF s.call THEN WrittenByCall(s) ELSE {}))
      /\ \E after \in (IF s.call THEN AfterCall(s) ELSE {pointsTo}) :
           IF level > 0 /\ target \in Var
             THEN \E val \in values : pointsTo' = [after EXCEPT ![target] = val]
             ELSE pointsTo' = after

\* x = e, *p = e, p = q, p = &x, *pp = &x, p = f(q, &x), x += e, ...
Assignment(s) ==
  LET level == Level[s.lhs.v] - s.lhs.d
      left  == getModifiedVariables(aliasTable, s.lhs.v, s.lhs.d)
  IN  /\ s.op \in {"=", "op="}
      /\ \E T \in AssignTables(s, left, level) :
           /\ aliasTable' = T
           /\ instr' = handleBinaryAssignment(T, left, s)
      /\ RunAssignment(s, level) \/ NotTaken(s)

\* ++x, ++*p
Increment(s) ==
  /\ s.op = "++"
  /\ instr' = handleUnaryOperator(aliasTable, s.args[1])
  /\ UNCHANGED aliasTable
  /\ \/ /\ Defined(s.args)
        /\ Touch(s, ArgReads(s.args), {Object(s.args[1])})
        /\ UNCHANGED pointsTo
     \/ NotTaken(s)

\* f(x, &y, p, ...): the table stays as it is, whatever the callee sets.
Call(s) ==
  LET callee == handleCallExpr(aliasTable, s.args)
  IN  /\ s.op = "call"
      /\ instr' = Dependencies(aliasTable,
                    getAllReadDeclRefExprInsideExpr(s.args) \cup callee.reads, callee.writes)
      /\ UNCHANGED aliasTable
      /\ \/ /\ Defined(s.args)
            /\ Touch(s, ReadByCall(s), WrittenByCall(s))
            /\ pointsTo' \in AfterCall(s)
         \/ NotTaken(s)

\* The first assignment to a reference binds it, to all that a call may return
\* a reference to; the later ones leave its binding.
BindTable(ref, vars) ==
  IF aliasTable.aliased[ref] # {} THEN aliasTable
  ELSE addAliasReference(aliasTable, vars, ref)

\* handleCXXOperatorCallExpr on r = x and r = f(x, y), which rebind the
\* reference_wrapper.
Bind(s) ==
  LET ref  == s.lhs.v
      vars == ArgVars(s.args)
      T    == BindTable(ref, vars)
  IN  /\ s.op = "bind"
      /\ Defined(s.args)
      /\ aliasTable' = T
      /\ instr' = Dependencies(T, {ref} \cup vars, {ref})
      /\ Touch(s, IF s.call THEN ReadByCall(s) ELSE Path(s.args[1]),
               {ref} \cup (IF s.call THEN WrittenByCall(s) ELSE {}))
      /\ \E after \in (IF s.call THEN AfterCall(s) ELSE {pointsTo}) :
         \E o \in {Object(a) : a \in Args(s)} \cup (IF s.call THEN GlobalObjects(s) ELSE {}) :
           pointsTo' = [after EXCEPT ![ref] = o]

\* handleMemberCallExpr: o.m(), which writes o unless it is const, and p->m().
MemberCall(s) ==
  LET obj == s.args[1]
  IN  /\ s.op \in {"method", "constmethod"}
      /\ Defined(s.args)
      /\ instr' = Dependencies(aliasTable, {obj.v},
                    IF s.op = "method" /\ obj.d = 0 THEN {obj.v} ELSE {})
      /\ Touch(s, ReadByCall(s),
               (IF s.op = "method" THEN {Object(obj)} ELSE {}) \cup WrittenByCall(s))
      /\ pointsTo' \in AfterCall(s)
      /\ UNCHANGED aliasTable

\* TraverseCXXDeleteExpr: delete p.  What p points to is none of the variables.
Delete(s) ==
  LET p == s.args[1].v
  IN  /\ s.op = "delete"
      /\ pointsTo[p] = Foreign
      /\ instr' = Dependencies(aliasTable, {p}, {p})
      /\ Touch(s, {p}, {})
      /\ pointsTo' = [pointsTo EXCEPT ![p] = Unset]
      /\ UNCHANGED aliasTable

FootprintNext ==
  \E s \in Statements : \/ Assignment(s) \/ Increment(s) \/ Call(s) \/ Bind(s)
                        \/ MemberCall(s) \/ Delete(s)

FootprintSpec == FootprintInit /\ [][FootprintNext]_footprintVars
-----------------------------------------------------------------------------
(* The statements that the visitor is right about; the others are listed    *)
(* among the limits.                                                        *)

\* An operand that is read, and an argument of a call.  What is written
\* through a pointer parameter is named by &.
HandledOperand(a) == a.mode = "value" /\ a.d <= Level[a.v]

HandledArgument(a) ==
  /\ a.d <= Level[a.v]
  /\ a.d = -1 => a.v \notin Ref
  /\ a.mode \in {"ref", "refRO"} => a.d = 0
  /\ a.mode \in {"ptr", "ptrRO"} => a.d = -1
  /\ a.mode = "select" => a.d <= 0

\* A callee sets no pointer of the function's: the visitor leaves the table.
HandledCallee(s) ==
  Does(s, "sets") => /\ \A a \in Written(s) : PointerLevel(a) <= 1
                     /\ \A g \in s.callee.globals : Level[g] = 0

\* What a callee returns to a pointer it was given as a pointer, or found by
\* following a pointer variable.
HandledResult(s) ==
  /\ ~Does(s, "refers")
  /\ Does(s, "follows") => \A a \in Args(s) : a.d = -1 => Level[a.v] = 0

\* Pointers are given pointers of their type; one to pointers is given one of
\* them, by name, so that the table knows which; and a branch that may not be
\* taken replaces no targets.
HandledAssignment(s) ==
  LET level == Level[s.lhs.v] - s.lhs.d
  IN  /\ s.lhs.d >= 0 /\ level >= 0
      /\ \A k \in 1..Len(s.args) :
           IF s.call THEN HandledArgument(s.args[k]) ELSE HandledOperand(s.args[k])
      /\ level > 0 /\ s.call => HandledResult(s)
      /\ level = 2 => ~s.call /\ Len(s.args) = 1
      /\ level > 0 /\ ~s.call /\ Len(s.args) = 1 => Level[s.args[1].v] - s.args[1].d = level
      /\ level > 0 /\ s \in Skippable => Len(s.args) # 1

\* A reference is bound to the same variables wherever it is bound, and by a
\* call to one of its arguments.
HandledBind(s) ==
  /\ s.lhs.v \in Ref
  /\ \A k \in 1..Len(s.args) :
       s.args[k].d = 0 /\ Level[s.args[k].v] = 0 /\ s.args[k].mode \in {"value", "ref", "refRO"}
  /\ s.call => s.callee.globals \subseteq ArgVars(s.args)
  /\ \A t \in Statements : t.op = "bind" /\ t.lhs.v = s.lhs.v => ArgVars(t.args) = ArgVars(s.args)

HandledForm(s) ==
  CASE s.op \in {"=", "op="}              -> HandledAssignment(s)
    [] s.op = "++"                        -> Len(s.args) = 1 /\ HandledOperand(s.args[1])
                                               /\ s.args[1].d >= 0
    [] s.op = "call"                      -> \A k \in 1..Len(s.args) : HandledArgument(s.args[k])
    [] s.op = "bind"                      -> HandledBind(s)
    [] s.op \in {"method", "constmethod"} -> Len(s.args) = 1 /\ HandledOperand(s.args[1])
                                               /\ s.args[1].d = 0
    [] s.op = "delete"                    -> Len(s.args) = 1

Handled(s) == HandledForm(s) /\ (Calls(s) => HandledCallee(s))
-----------------------------------------------------------------------------
FootprintTypeOK ==
  /\ aliasTable \in Table
  /\ instr \in Footprint
  /\ pointsTo \in [Var -> Var \cup {Unset, Foreign}]
  /\ touched \in Footprint
  /\ named \in BOOLEAN

\* What a pointer or a reference really holds is among the aliases the table
\* has for it: however the assignments that set it were written (through other
\* pointers, from a call that returns one of its arguments), no later one drops
\* a target that is still pointed to.
PointsToKnown ==
  \A v \in Var : pointsTo[v] \in Var =>
    pointsTo[v] \in IF v \in Ref THEN getModifiedVariables(aliasTable, v, 0)
                           ELSE aliasTable.aliased[v]

\* A statement reads and writes nothing that is missing from the dependencies
\* of its instruction (the graph is built from these and nothing else), if the
\* callee keeps to what the call names; what it calls may have set pointers and
\* returned them in the statements before.
FootprintSound ==
  named => /\ touched.reads \subseteq instr.reads
           /\ touched.writes \subseteq instr.writes

\* Accesses to an object through different names meet: an instruction that
\* depends on a variable depends on its references, and the other way around,
\* so that the graph finds the conflict under either name.
NamesMeet ==
  \A r \in Ref : pointsTo[r] \in Var =>
    /\ r \in instr.reads <=> pointsTo[r] \in instr.reads
    /\ r \in instr.writes <=> pointsTo[r] \in instr.writes
-----------------------------------------------------------------------------
(* The inductive invariant behind PointsToKnown and FootprintSound.         *)

\* A pointer to pointers has one target at most in the table, and it points
\* there whenever it points anywhere.
PointerToPointer ==
  \A v \in Var : Level[v] = 2 =>
    /\ pointsTo[v] \in aliasTable.aliased[v] \cup {Unset}
    /\ \A a, b \in aliasTable.aliased[v] : a = b /\ Level[a] = 1

\* A variable has as references those that name it, and only ints have any.
ReferencesMirror ==
  \A v \in Var :
    /\ aliasTable.references[v] = {r \in Ref : v \in aliasTable.aliased[r]}
    /\ Level[v] > 0 => aliasTable.references[v] = {}

\* A reference that is bound names the variables of its bindings, and leads to
\* the object it is bound to.
ReferencesLead ==
  /\ \A s \in Statements : s.op = "bind" =>
       aliasTable.aliased[s.lhs.v] \in {{}, ArgVars(s.args)}
  /\ \A r \in Ref : pointsTo[r] \in Var => pointsTo[r] \in Closure(Referred(aliasTable), r)

\* An instruction has all names of what it has one name of.
InstrClosed ==
  \A a \in Var :
    /\ a \in instr.reads => Names(aliasTable)[a] \subseteq instr.reads
    /\ a \in instr.writes => Names(aliasTable)[a] \subseteq instr.writes

FootprintInv ==
  /\ FootprintTypeOK /\ PointsToKnown /\ FootprintSound
  /\ PointerToPointer /\ ReferencesMirror /\ ReferencesLead /\ InstrClosed
=============================================================================
