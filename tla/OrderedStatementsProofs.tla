---------------------- MODULE OrderedStatementsProofs ----------------------
(***************************************************************************)
(* What every implementation of OrderedStatements is free of: data races   *)
(* and stale values, for any number of statements and any order on them.   *)
(***************************************************************************)
EXTENDS OrderedStatements, TLAPS

LEMMA TypeInit == Init => TypeOK
BY DEF Init, TypeOK, Statement

\* A step changes the status of statements, never which statements there are.
LEMMA TypeStep == TypeOK /\ [Next]_abstractVars => TypeOK' /\ Statement' = Statement
<1> SUFFICES ASSUME TypeOK, [Next]_abstractVars
             PROVE  TypeOK' /\ Statement' = Statement
  OBVIOUS
<1>1. ASSUME NEW s \in Statement, Start(s) PROVE TypeOK' /\ Statement' = Statement
  BY <1>1 DEF Start, TypeOK, Statement
<1>2. ASSUME NEW s \in Statement, End(s) PROVE TypeOK' /\ Statement' = Statement
  BY <1>2 DEF End, TypeOK, Statement
<1>3. CASE UNCHANGED abstractVars
  BY <1>3 DEF abstractVars, TypeOK, Statement
<1> QED
  BY <1>1, <1>2, <1>3 DEF Next

\* The steps keep the order: a statement starts after those it must follow,
\* and what is over stays over.
LEMMA SequencedStep == TypeOK /\ Sequenced /\ [Next]_abstractVars => Sequenced'
<1> SUFFICES ASSUME TypeOK, Sequenced, [Next]_abstractVars
             PROVE  Sequenced'
  OBVIOUS
<1>0. Statement' = Statement /\ before' = before
  BY TypeStep DEF Next, Start, End, abstractVars
<1> SUFFICES ASSUME NEW r \in Statement, NEW s \in Statement,
                    <<r, s>> \in before, status'[s] \in {"running", "done"}
             PROVE  status'[r] \in Over
  BY <1>0 DEF Sequenced, Over
<1>1. ASSUME NEW k \in Statement, Start(k) PROVE status'[r] \in Over
  <2>1. CASE s = k
    <3>1. status[r] \in Over
      BY <1>1, <2>1 DEF Start
    <3> QED
      BY <1>1, <3>1 DEF Start, Over, TypeOK, Statement
  <2>2. CASE s # k
    <3>1. status[s] \in {"running", "done"}
      BY <1>1, <2>2 DEF Start, TypeOK, Statement
    <3>2. status[r] \in Over
      BY <3>1 DEF Sequenced
    <3> QED
      BY <1>1, <3>2 DEF Start, Over, TypeOK, Statement
  <2> QED
    BY <2>1, <2>2
<1>2. ASSUME NEW k \in Statement, End(k) PROVE status'[r] \in Over
  <2>1. status[s] \in {"running", "done"}
    BY <1>2 DEF End, TypeOK, Statement
  <2>2. status[r] \in Over
    BY <2>1 DEF Sequenced
  <2> QED
    BY <1>2, <2>2 DEF End, Over, TypeOK, Statement
<1>3. CASE UNCHANGED abstractVars
  BY <1>3 DEF abstractVars, Sequenced, Statement
<1> QED
  BY <1>1, <1>2, <1>3 DEF Next

\* The parallel program has no data race: a statement runs only when every
\* statement it must follow is over, however many there are and however they
\* are interleaved.
THEOREM NoRace == Spec => []Sequenced
<1>1. Init => Sequenced
  BY DEF Init, Sequenced, Statement
<1> QED
  BY <1>1, TypeInit, TypeStep, SequencedStep, PTL DEF Spec

=============================================================================
