------------------------- MODULE ParamWriteAnalyzer -------------------------
(***************************************************************************)
(* The interprocedural analysis of ParamWriteAnalyzer.cpp: which pointer    *)
(* and reference parameters of a function may be written.  The functions of *)
(* the translation unit are visited once, in the order they are defined; a  *)
(* call is judged by what is known of the callee at that moment.            *)
(***************************************************************************)
EXTENDS Integers

CONSTANTS
  NbFunctions,   \* functions are 1 .. NbFunctions, in the order of definition
  Param,         \* parameter positions
  Codes          \* the translation units considered

Function == 1..NbFunctions

\* What a call can be given beside the parameters: the object of a method, and
\* the arguments of an ellipsis.
Rest == 0
Slot == Param \cup {Rest}

\* The arguments that containsWriteTo compares with no parameter.
Nowhere == -1

\* How an expression names a parameter: by the variable itself, a dereference,
\* a subscript or a member of it, or in a way that refersToParam does not look
\* through (p + 1, &p[i]).
Form == {"direct", "computed"}

\* A write is an assignment or increment, or a delete, or one through a pointer,
\* reference or lambda that was made from the parameter.
How == {"assign", "delete", "copy"}

\* The argument for a slot is compared with the parameter at the same place in
\* the list, one further than its own in an operator that is a method.
Access == [param : Slot, form : Form, how : How]
Argument == [slot : Slot, at : Param \cup {Nowhere}, param : Slot, form : Form]

\* A call by name, through a function pointer, or of a constructor.
Call == [callee : Function, by : {"name", "pointer", "construction"}, args : SUBSET Argument]

\* A function: whether its body is in the file, in a header (or nowhere) or in
\* _apac_header.hpp, the slots whose type is const through and through (or that
\* are passed by value), the writes, and the calls that pass slots on.
Body == [place : {"file", "header", "helper"}, const : SUBSET Slot,
         writes : SUBSET Access, calls : SUBSET Call]

\* The C++ type system: nothing is written through a const parameter, and it
\* is not passed on as one that is not const.
WellTyped(code) ==
  \A f \in Function :
    /\ \A w \in code[f].writes : w.param \notin code[f].const
    /\ \A c \in code[f].calls : \A a \in c.args :
         a.param \in code[f].const => a.slot \in code[c.callee].const

ASSUME CodesAssumption ==
  /\ NbFunctions \in Nat
  /\ Param \subseteq Nat \ {0}
  /\ \A code \in Codes : code \in [Function -> Body] /\ WellTyped(code)

VARIABLES
  code,            \* the translation unit
  visited,         \* the functions up to this one have been visited
  writtenParams_   \* function |-> written parameters, for those analyzed

analyzerVars == <<code, visited, writtenParams_>>

Init ==
  /\ code \in Codes
  /\ visited = 0
  /\ writtenParams_ = [f \in {} |-> {}]

Analyzed == DOMAIN writtenParams_

isParamReadOnly(f, p) == f \in Analyzed /\ p \notin writtenParams_[f]

refersToParam(x, p) == x.param = p /\ x.form = "direct"

AssignedIn(f, p) == \E w \in code[f].writes : w.how = "assign" /\ refersToParam(w, p)

\* The calls of f that containsWriteTo looks at, and their arguments.
LookedAt(f) ==
  {c \in code[f].calls : c.by = "name" /\ c.callee # f /\ code[c.callee].place # "helper"}

Compared(c) == {a \in c.args : a.at # Nowhere}

\* Slip: a callee that has not been analyzed is taken to write nothing.
containsWriteTo_Optimistic(f, p) ==
  \/ AssignedIn(f, p)
  \/ \E c \in LookedAt(f) : \E a \in Compared(c) :
       /\ a.at \notin code[c.callee].const
       /\ c.callee \in Analyzed
       /\ ~isParamReadOnly(c.callee, a.at)
       /\ refersToParam(a, p)

\* Slip: what is known of the callee is not used.
containsWriteTo_Blind(f, p) ==
  \/ AssignedIn(f, p)
  \/ \E c \in LookedAt(f) : \E a \in Compared(c) : refersToParam(a, p)

\* p is assigned or incremented through, or passed to another function as a
\* parameter that is neither const nor known to be read-only.
containsWriteTo(f, p) ==
  \/ AssignedIn(f, p)
  \/ \E c \in LookedAt(f) : \E a \in Compared(c) :
       /\ a.at \notin code[c.callee].const
       /\ ~isParamReadOnly(c.callee, a.at)
       /\ refersToParam(a, p)

\* Slip: the parameters that are not written are recorded.
analyzeFunction_Inverted(f) ==
  writtenParams_' =
    [g \in Analyzed \cup {f} |->
       IF g = f THEN {p \in Param \ code[f].const : ~containsWriteTo(f, p)}
       ELSE writtenParams_[g]]

analyzeFunction(f) ==
  writtenParams_' =
    [g \in Analyzed \cup {f} |->
       IF g = f THEN {p \in Param \ code[f].const : containsWriteTo(f, p)}
       ELSE writtenParams_[g]]

VisitFunctionDecl ==
  /\ visited < NbFunctions
  /\ visited' = visited + 1
  /\ IF code[visited + 1].place = "file" THEN analyzeFunction(visited + 1)
     ELSE UNCHANGED writtenParams_
  /\ UNCHANGED code

Spec == Init /\ [][VisitFunctionDecl]_analyzerVars
-----------------------------------------------------------------------------
\* S holds every pair <<f, p>> for which a call of f may write through p: f
\* writes it or passes it where it may be written, in whatever way; a function
\* whose body is not in the file may write through all that is not const.
ClosedUnderWrites(S) ==
  \A f \in Function :
    /\ code[f].place # "file" => \A p \in Slot \ code[f].const : <<f, p>> \in S
    /\ code[f].place = "file" =>
         /\ \A w \in code[f].writes : <<f, w.param>> \in S
         /\ \A c \in code[f].calls : \A a \in c.args :
              <<c.callee, a.slot>> \in S => <<f, a.param>> \in S

\* The least such set: what a run of the program can do.
MayWrite(f, p) ==
  \A S \in SUBSET (Function \X Slot) : ClosedUnderWrites(S) => <<f, p>> \in S

AnalyzerTypeOK ==
  /\ code \in [Function -> Body] /\ WellTyped(code)
  /\ visited \in 0..NbFunctions
  /\ writtenParams_ \in [{f \in 1..visited : code[f].place = "file"} -> SUBSET Param]

\* The comment in the header: true only "if parameter at index paramIdx of
\* function f is never written", whatever calls lie between.
ReadOnlyNeverWritten ==
  \A f \in Function, p \in Param : isParamReadOnly(f, p) => ~MayWrite(f, p)

\* When every callee is defined before its callers, and arguments are compared
\* with their own parameters, the analysis is exact: a parameter that is never
\* written is found to be read-only.
CalleesFirst ==
  \A f \in Function : \A c \in code[f].calls :
    c.callee <= f /\ \A a \in c.args : a.at \in {a.slot, Nowhere}

ReadOnlyFound ==
  visited = NbFunctions /\ CalleesFirst =>
    \A f \in Function, p \in Param :
      code[f].place = "file" /\ ~MayWrite(f, p) => isParamReadOnly(f, p)
-----------------------------------------------------------------------------
(* The argument for ReadOnlyNeverWritten, for files in which parameters are *)
(* written and passed on where the analysis looks, and self-recursive calls *)
(* pass them on in place, and for ReadOnlyFound.                            *)

\* Parameters are written by assignments and increments that name them
\* directly, and passed on, unless as const, by name, to functions outside
\* _apac_header.hpp, as the parameters they are compared with.
Seen ==
  \A f \in Function :
    /\ \A w \in code[f].writes :
         w.param \in Param => w.how = "assign" /\ w.form = "direct"
    /\ \A c \in code[f].calls : \A a \in c.args :
         a.param \in Param /\ a.slot \notin code[c.callee].const =>
           /\ c.by = "name" /\ code[c.callee].place # "helper"
           /\ a.at = a.slot /\ a.form = "direct"

InPlace ==
  \A f \in Function : \A c \in code[f].calls :
    c.callee = f => \A a \in c.args : a.slot = a.param

\* What is not known to be read-only, const parameters left out.
Suspects ==
  {q \in Function \X Slot : /\ q[2] \in Param => ~isParamReadOnly(q[1], q[2])
                            /\ q[2] \notin code[q[1]].const}

\* What is recorded as written can be written.
WritesJustified == \A f \in Analyzed : \A p \in writtenParams_[f] : MayWrite(f, p)

\* The suspects are closed under writes at every moment of the analysis: a
\* caller is never analyzed with less suspicion than the callee ends up with.
\* With the callees first, every suspicion that is recorded is justified.
AnalyzerInv ==
  /\ AnalyzerTypeOK
  /\ Seen /\ InPlace => ClosedUnderWrites(Suspects)
  /\ CalleesFirst => WritesJustified

=============================================================================
