---------------------- MODULE ParamWriteAnalyzerProofs ----------------------
(***************************************************************************)
(* The analysis is sound for any number of functions, calls and parameters *)
(* in files that write and pass on parameters where it looks (Seen) and    *)
(* call themselves in place.                                               *)
(***************************************************************************)
EXTENDS ParamWriteAnalyzer, TLAPS

LEMMA AnalyzerTypeInit == Init => AnalyzerTypeOK
BY CodesAssumption DEF Init, AnalyzerTypeOK, Function

\* One visit analyzes the next function, once, and no other.
LEMMA AnalyzerTypeStep ==
  AnalyzerTypeOK /\ [VisitFunctionDecl]_analyzerVars => AnalyzerTypeOK'
<1> SUFFICES ASSUME AnalyzerTypeOK, [VisitFunctionDecl]_analyzerVars
             PROVE  AnalyzerTypeOK'
  OBVIOUS
<1> USE CodesAssumption
<1>1. CASE VisitFunctionDecl
  <2>1. code' = code /\ visited' = visited + 1 /\ visited' \in 0..NbFunctions
    BY <1>1 DEF VisitFunctionDecl, AnalyzerTypeOK
  <2>2. 1..visited' = (1..visited) \cup {visited + 1}
    BY <2>1 DEF AnalyzerTypeOK
  <2>3. CASE code[visited + 1].place = "file"
    <3>1. Analyzed \cup {visited + 1} = {f \in 1..visited' : code'[f].place = "file"}
      BY <2>1, <2>2, <2>3 DEF AnalyzerTypeOK, Analyzed
    <3>2. analyzeFunction(visited + 1)
      BY <1>1, <2>3 DEF VisitFunctionDecl
    <3>3. writtenParams_' \in [Analyzed \cup {visited + 1} -> SUBSET Param]
      BY <3>2 DEF analyzeFunction, AnalyzerTypeOK, Analyzed
    <3> QED
      BY <2>1, <3>1, <3>3 DEF AnalyzerTypeOK, WellTyped
  <2>4. CASE code[visited + 1].place # "file"
    <3>1. {f \in 1..visited : code[f].place = "file"} = {f \in 1..visited' : code'[f].place = "file"}
      BY <2>1, <2>2, <2>4
    <3>2. writtenParams_' = writtenParams_
      BY <1>1, <2>4 DEF VisitFunctionDecl
    <3> QED
      BY <2>1, <3>1, <3>2 DEF AnalyzerTypeOK, WellTyped
  <2> QED
    BY <2>3, <2>4
<1>2. CASE UNCHANGED analyzerVars
  BY <1>2 DEF analyzerVars, AnalyzerTypeOK, WellTyped
<1> QED
  BY <1>1, <1>2

\* Before the analysis everything that is not const is suspect.
LEMMA SuspectsInit == Init => ClosedUnderWrites(Suspects)
<1> SUFFICES ASSUME Init PROVE ClosedUnderWrites(Suspects)
  OBVIOUS
<1>1. AnalyzerTypeOK
  BY AnalyzerTypeInit
<1>2. Suspects = {q \in Function \X Slot : q[2] \notin code[q[1]].const}
  BY DEF Init, Suspects, isParamReadOnly, Analyzed
<1> QED
  BY <1>1, <1>2 DEF ClosedUnderWrites, AnalyzerTypeOK, WellTyped, Body, Access, Call, Argument

\* Only pairs of the visited function leave the suspects, and only those that
\* its body gives no reason to suspect.
LEMMA SuspectsStep ==
  ASSUME AnalyzerTypeOK, VisitFunctionDecl, code[visited + 1].place = "file",
         NEW g \in Function, NEW p \in Slot
  PROVE  <<g, p>> \in Suspects' <=>
           /\ <<g, p>> \in Suspects
           /\ g = visited + 1 /\ p \in Param => containsWriteTo(g, p)
<1> DEFINE f == visited + 1
<1>1. code' = code /\ analyzeFunction(f)
  BY DEF VisitFunctionDecl
<1>2. f \notin Analyzed
  BY CodesAssumption DEF AnalyzerTypeOK, Analyzed
<1>3. Analyzed' = Analyzed \cup {f}
  BY <1>1 DEF analyzeFunction, Analyzed
<1>4. CASE g = f
  <2>1. writtenParams_'[g] = {q \in Param \ code[f].const : containsWriteTo(f, q)}
    BY <1>1, <1>4 DEF analyzeFunction
  <2> QED
    BY <1>1, <1>2, <1>3, <1>4, <2>1 DEF Suspects, isParamReadOnly
<1>5. CASE g # f
  <2>1. g \in Analyzed => writtenParams_'[g] = writtenParams_[g]
    BY <1>1, <1>5 DEF analyzeFunction
  <2> QED
    BY <1>1, <1>3, <1>5, <2>1 DEF Suspects, isParamReadOnly
<1> QED
  BY <1>4, <1>5

LEMMA ClosedStep ==
  ASSUME AnalyzerTypeOK, Seen, InPlace, ClosedUnderWrites(Suspects), VisitFunctionDecl
  PROVE  ClosedUnderWrites(Suspects)'
<1> DEFINE f == visited + 1
<1>1. code' = code
  BY DEF VisitFunctionDecl
<1>2. CASE code[f].place # "file"
  <2>1. Suspects' = Suspects
    BY <1>1, <1>2 DEF VisitFunctionDecl, Suspects, isParamReadOnly, Analyzed
  <2> QED
    BY <1>1, <2>1 DEF ClosedUnderWrites
<1>3. CASE code[f].place = "file"
  <2> SUFFICES ASSUME NEW g \in Function
               PROVE  /\ code[g].place # "file" =>
                           \A p \in Slot \ code[g].const : <<g, p>> \in Suspects'
                      /\ code[g].place = "file" =>
                           /\ \A w \in code[g].writes : <<g, w.param>> \in Suspects'
                           /\ \A c \in code[g].calls : \A a \in c.args :
                                <<c.callee, a.slot>> \in Suspects'
                                  => <<g, a.param>> \in Suspects'
    BY <1>1 DEF ClosedUnderWrites
  <2>0. code[g] \in Body
    BY DEF AnalyzerTypeOK
  <2>1. ASSUME code[g].place # "file", NEW p \in Slot \ code[g].const
        PROVE  <<g, p>> \in Suspects'
    BY <1>3, <2>1, SuspectsStep DEF ClosedUnderWrites
  <2>2. ASSUME code[g].place = "file", NEW w \in code[g].writes
        PROVE  <<g, w.param>> \in Suspects'
    <3>1. w.param \in Slot /\ <<g, w.param>> \in Suspects
      BY <2>0, <2>2 DEF ClosedUnderWrites, Body, Access
    <3>2. w.param \in Param => containsWriteTo(g, w.param)
      BY <2>2 DEF containsWriteTo, AssignedIn, refersToParam, Seen
    <3> QED
      BY <1>3, <3>1, <3>2, SuspectsStep
  <2>3. ASSUME code[g].place = "file", NEW c \in code[g].calls, NEW a \in c.args,
               <<c.callee, a.slot>> \in Suspects'
        PROVE  <<g, a.param>> \in Suspects'
    <3>1. c.callee \in Function /\ a.slot \in Slot /\ a.param \in Slot /\ a.at \in Param \cup {Nowhere}
      BY <2>0, <2>3 DEF Body, Call, Argument
    <3>2. <<c.callee, a.slot>> \in Suspects
      BY <1>3, <2>3, <3>1, SuspectsStep
    <3>3. <<g, a.param>> \in Suspects
      BY <2>3, <3>2 DEF ClosedUnderWrites
    <3>4. CASE c.callee = g
      BY <2>3, <3>4 DEF InPlace
    <3>5. CASE c.callee # g
      <4>1. a.slot \notin code[c.callee].const /\ (a.slot \in Param => ~isParamReadOnly(c.callee, a.slot))
        BY <3>2 DEF Suspects
      <4>2. CASE a.param \in Param
        <5>1. c \in LookedAt(g) /\ a.at = a.slot /\ refersToParam(a, a.param)
          BY <2>3, <3>5, <4>1, <4>2 DEF refersToParam, Seen, LookedAt
        <5>2. a.at \in Param /\ a \in Compared(c)
          BY <2>3, <3>1, <5>1, CodesAssumption DEF Compared, Slot, Rest, Nowhere
        <5>3. containsWriteTo(g, a.param)
          BY <4>1, <5>1, <5>2 DEF containsWriteTo
        <5> QED BY <1>3, <3>1, <3>3, <5>3, SuspectsStep
      <4>3. CASE a.param \notin Param
        BY <1>3, <3>1, <3>3, <4>3, SuspectsStep
      <4> QED BY <4>2, <4>3
    <3> QED
      BY <3>4, <3>5
  <2> QED
    BY <2>1, <2>2, <2>3
<1> QED
  BY <1>2, <1>3

\* A visit records a write that can happen: the callees are visited already, so
\* a suspicion about one is a write of its own or the lack of a body.
LEMMA JustifiedStep ==
  ASSUME AnalyzerTypeOK, CalleesFirst, WritesJustified, VisitFunctionDecl,
         code[visited + 1].place = "file", NEW p \in Param, containsWriteTo(visited + 1, p)
  PROVE  MayWrite(visited + 1, p)
<1> DEFINE f == visited + 1
<1>1. f \in Function /\ visited \in Nat /\ NbFunctions \in Nat /\ f \in Nat
  BY CodesAssumption DEF AnalyzerTypeOK, VisitFunctionDecl, Function
<1>2. code[f] \in Body
  BY <1>1 DEF AnalyzerTypeOK
<1> SUFFICES ASSUME NEW S \in SUBSET (Function \X Slot), ClosedUnderWrites(S)
             PROVE  <<f, p>> \in S
  BY DEF MayWrite
<1> HIDE DEF f
<1>3. CASE AssignedIn(f, p)
  BY <1>1, <1>3 DEF f, ClosedUnderWrites, AssignedIn, refersToParam
<1>4. ASSUME NEW c \in LookedAt(f), NEW a \in Compared(c),
             a.at \notin code[c.callee].const,
             ~isParamReadOnly(c.callee, a.at), refersToParam(a, p)
      PROVE  <<f, p>> \in S
  <2>c. c \in code[f].calls /\ c.callee # f /\ a \in c.args /\ a.at # Nowhere
    BY <1>4 DEF LookedAt, Compared
  <2>1. c.callee \in Function /\ a.slot \in Slot
    BY <1>2, <2>c DEF Body, Call, Argument
  <2>2. c.callee <= f /\ a.at = a.slot
    BY <1>1, <2>c DEF CalleesFirst
  <2>3. c.callee \in 1..visited
    BY <2>1, <2>2, <2>c, <1>1 DEF Function, f
  <2>4. <<c.callee, a.slot>> \in S
    <3>1. CASE c.callee \in Analyzed
      <4>1. a.slot \in writtenParams_[c.callee]
        BY <3>1, <2>2, <1>4 DEF isParamReadOnly
      <4>2. MayWrite(c.callee, a.slot)
        BY <3>1, <4>1 DEF WritesJustified
      <4> QED BY <4>2 DEF MayWrite
    <3>2. CASE c.callee \notin Analyzed
      <4>1. code[c.callee].place # "file"
        BY <3>2, <2>3 DEF AnalyzerTypeOK, Analyzed
      <4> QED BY <4>1, <2>1, <2>2, <1>4 DEF ClosedUnderWrites
    <3> QED BY <3>1, <3>2
  <2> QED BY <2>4, <2>c, <1>1, <1>4 DEF f, ClosedUnderWrites, refersToParam
<1> QED BY <1>3, <1>4 DEF f, containsWriteTo

LEMMA JustifiedKept ==
  ASSUME AnalyzerTypeOK, CalleesFirst, WritesJustified, VisitFunctionDecl
  PROVE  WritesJustified'
<1>1. code' = code
  BY DEF VisitFunctionDecl
<1>2. \A g, p : MayWrite(g, p)' <=> MayWrite(g, p)
  BY <1>1 DEF MayWrite, ClosedUnderWrites
<1>3. CASE code[visited + 1].place # "file"
  BY <1>2, <1>3 DEF VisitFunctionDecl, WritesJustified, Analyzed
<1>4. CASE code[visited + 1].place = "file"
  <2>1. PICK f : f = visited + 1
    OBVIOUS
  <2>2. analyzeFunction(f) /\ \A p \in Param : containsWriteTo(f, p) => MayWrite(f, p)
    BY <1>4, <2>1, JustifiedStep DEF VisitFunctionDecl
  <2>3. /\ Analyzed' = Analyzed \cup {f}
        /\ writtenParams_'[f] = {p \in Param \ code[f].const : containsWriteTo(f, p)}
        /\ \A g \in Analyzed : g # f => writtenParams_'[g] = writtenParams_[g]
    BY <2>2 DEF analyzeFunction, Analyzed
  <2> SUFFICES ASSUME NEW g \in Analyzed', NEW p \in writtenParams_'[g] PROVE MayWrite(g, p)
    BY <1>2 DEF WritesJustified
  <2>4. CASE g = f
    BY <2>2, <2>3, <2>4
  <2>5. CASE g # f
    BY <2>3, <2>5 DEF WritesJustified
  <2> QED BY <2>4, <2>5
<1> QED BY <1>3, <1>4

\* The inductive invariant of the parameter analysis: in whatever order the
\* functions are visited, the parameters that the cache does not call
\* read-only are closed under writes and calls at every moment, and with the
\* callees first every recorded write is one that can happen.
THEOREM AnalyzerInvariance == Spec => []AnalyzerInv
<1>1. Init => AnalyzerInv
  <2>1. Init => WritesJustified
    BY DEF Init, WritesJustified, Analyzed
  <2> QED BY <2>1, AnalyzerTypeInit, SuspectsInit DEF AnalyzerInv
<1>2. AnalyzerInv /\ [VisitFunctionDecl]_analyzerVars => AnalyzerInv'
  <2> SUFFICES ASSUME AnalyzerInv, [VisitFunctionDecl]_analyzerVars
               PROVE  AnalyzerInv'
    OBVIOUS
  <2>1. AnalyzerTypeOK'
    BY AnalyzerTypeStep DEF AnalyzerInv
  <2>2. code' = code
    BY DEF VisitFunctionDecl, analyzerVars
  <2>3. Seen' = Seen /\ InPlace' = InPlace /\ CalleesFirst' = CalleesFirst
    BY <2>2 DEF Seen, InPlace, CalleesFirst
  <2>4. CASE VisitFunctionDecl
    BY <2>1, <2>3, <2>4, ClosedStep, JustifiedKept DEF AnalyzerInv
  <2>5. CASE UNCHANGED analyzerVars
    <3>1. Suspects' = Suspects
      BY <2>5 DEF analyzerVars, Suspects, isParamReadOnly, Analyzed
    <3>2. ClosedUnderWrites(Suspects)' <=> ClosedUnderWrites(Suspects)
      BY <2>2, <3>1 DEF ClosedUnderWrites
    <3>3. \A g, p : MayWrite(g, p)' <=> MayWrite(g, p)
      BY <2>2 DEF MayWrite, ClosedUnderWrites
    <3>4. WritesJustified' <=> WritesJustified
      BY <2>5, <3>3 DEF analyzerVars, WritesJustified, Analyzed
    <3> QED
      BY <2>1, <2>3, <3>2, <3>4 DEF AnalyzerInv
  <2> QED
    BY <2>4, <2>5
<1> QED
  BY <1>1, <1>2, PTL DEF Spec

\* isParamReadOnly can be trusted in a file that writes and passes on parameters
\* where the analysis looks and calls itself in place: a parameter it reports is
\* written by no call, however deep, in whatever order the functions are
\* defined, mutual recursion included.
THEOREM ReadOnlySound == Spec => [](Seen /\ InPlace => ReadOnlyNeverWritten)
<1>1. AnalyzerInv => (Seen /\ InPlace => ReadOnlyNeverWritten)
  <2> SUFFICES ASSUME AnalyzerInv, Seen, InPlace,
                      NEW f \in Function, NEW p \in Param, isParamReadOnly(f, p),
                      MayWrite(f, p)
               PROVE  FALSE
    BY DEF ReadOnlyNeverWritten
  <2>1. Suspects \in SUBSET (Function \X Slot)
    BY DEF Suspects
  <2>2. ClosedUnderWrites(Suspects)
    BY DEF AnalyzerInv
  <2>3. <<f, p>> \in Suspects
    BY <2>1, <2>2 DEF MayWrite
  <2> QED
    BY <2>3 DEF Suspects
<1> QED
  BY <1>1, AnalyzerInvariance, PTL

\* And it is exact when the callees are defined before their callers, and every
\* argument is compared with its own parameter or with none: every
\* parameter that no call writes is found to be read-only.
THEOREM ReadOnlyComplete == Spec => []ReadOnlyFound
<1>1. AnalyzerInv => ReadOnlyFound
  <2> SUFFICES ASSUME AnalyzerInv, visited = NbFunctions, CalleesFirst,
                      NEW f \in Function, NEW p \in Param, code[f].place = "file", ~MayWrite(f, p)
               PROVE  isParamReadOnly(f, p)
    BY DEF ReadOnlyFound
  <2>1. f \in Analyzed
    BY DEF AnalyzerInv, AnalyzerTypeOK, Analyzed, Function
  <2> QED
    BY <2>1 DEF AnalyzerInv, WritesJustified, isParamReadOnly
<1> QED
  BY <1>1, AnalyzerInvariance, PTL

=============================================================================
