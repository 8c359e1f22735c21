----------------------------- MODULE MCPipeline -----------------------------
(***************************************************************************)
(* The instance of Pipeline for TLC: two inputs and their copies.           *)
(***************************************************************************)
EXTENDS Pipeline

TwoFiles == <<"foo.cpp", "bar.cpp">>
Prefixed == [f \in Range(TwoFiles) |-> IF f = "foo.cpp" THEN "APACfoo.cpp" ELSE "APACbar.cpp"]
Paths == Range(TwoFiles) \cup Range(Prefixed)
=============================================================================
