------------------------- MODULE OrderedStatements -------------------------
(***************************************************************************)
(* What the parallel program promises: its statements run in any order and *)
(* at the same time, as long as a statement starts only when the earlier   *)
(* ones it must follow are over, and only an if or a goto makes statements *)
(* not run at all.  Any such run computes what the sequential program does. *)
(***************************************************************************)
VARIABLES
  status,    \* statement |-> "todo", "running", "done" or "skipped"
  before,    \* pairs <<r, s>>: s must follow r
  governs    \* statement |-> the statements it may skip

abstractVars == <<status, before, governs>>

Statement == DOMAIN status
Over == {"done", "skipped"}

Init ==
  /\ status = [s \in Statement |-> "todo"]
  /\ before \subseteq Statement \X Statement
  /\ governs \in [Statement -> SUBSET Statement]

Start(s) ==
  /\ status[s] = "todo"
  /\ \A r \in Statement : <<r, s>> \in before => status[r] \in Over
  /\ status' = [status EXCEPT ![s] = "running"]
  /\ UNCHANGED <<before, governs>>

\* The end of a statement decides which of the statements it governs are
\* skipped.
End(s) ==
  /\ status[s] = "running"
  /\ \E K \in SUBSET {r \in governs[s] : status[r] = "todo"} :
       status' = [r \in Statement |->
                    IF r = s THEN "done" ELSE IF r \in K THEN "skipped" ELSE status[r]]
  /\ UNCHANGED <<before, governs>>

Next == \E s \in Statement : Start(s) \/ End(s)

Spec == Init /\ [][Next]_abstractVars
-----------------------------------------------------------------------------
TypeOK ==
  /\ status \in [Statement -> {"todo", "running", "done", "skipped"}]
  /\ before \subseteq Statement \X Statement
  /\ governs \in [Statement -> SUBSET Statement]

\* No data race and no stale value: while a statement runs, and once it has
\* run, every statement it must follow is over.
Sequenced ==
  \A r, s \in Statement :
    <<r, s>> \in before /\ status[s] \in {"running", "done"} => status[r] \in Over

=============================================================================
