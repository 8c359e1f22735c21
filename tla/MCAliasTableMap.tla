--------------------------- MODULE MCAliasTableMap ---------------------------
(***************************************************************************)
(* A matrix: known and unknown subscripts in either place, rows, and two   *)
(* spellings of an unknown subscript.                                      *)
(***************************************************************************)
EXTENDS AliasTableMap

MCExpr == {"m", "m[1]", "m[i]", "m[j]", "m[1][2]", "m[i][2]", "m[1][j]"}

MCDecl == [e \in MCExpr |-> "m"]

MCIndexes ==
  [e \in MCExpr |->
     CASE e = "m"                -> <<>>
       [] e = "m[1]"             -> <<1>>
       [] e \in {"m[i]", "m[j]"} -> <<-1>>
       [] e = "m[1][2]"          -> <<1, 2>>
       [] e = "m[i][2]"          -> <<-1, 2>>
       [] e = "m[1][j]"          -> <<1, -1>>]
=============================================================================
