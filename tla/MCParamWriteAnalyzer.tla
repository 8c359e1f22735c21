------------------------ MODULE MCParamWriteAnalyzer ------------------------
(***************************************************************************)
(* Instances of ParamWriteAnalyzer for TLC: two functions of the file and   *)
(* a third that is declared only, a method or a helper of _apac_header.hpp, *)
(* each with at most one call.                                              *)
(***************************************************************************)
EXTENDS ParamWriteAnalyzer

TwoParams == {1, 2}

Passed(slot, at, param) == [slot |-> slot, at |-> at, param |-> param, form |-> "direct"]

\* One parameter, or two, passed on as parameters.
ArgLists ==
  {{}} \cup {{Passed(s, s, p)} : s, p \in Param}
       \cup {{Passed(1, 1, p), Passed(2, 2, q)} : p, q \in Param}

Assigned(params) == {[param |-> p, form |-> "direct", how |-> "assign"] : p \in params}
Writes == {Assigned({}), Assigned({1}), Assigned({2})}

Defined(const, w, by, callee, args) ==
  [place |-> "file", const |-> const, writes |-> w,
   calls |-> IF args = {} THEN {} ELSE {[callee |-> callee, by |-> by, args |-> args]}]

Outside(place, const) == [place |-> place, const |-> const, writes |-> {}, calls |-> {}]

Files ==
  {<<Defined(c, w, "name", g, a), Defined({}, v, "name", h, b), Outside("header", {2})>> :
     c \in {{}, {2}}, w, v \in Writes, g, h \in Function, a, b \in ArgLists}

\* x is a const method, an operator that is one, a helper, or a constructor,
\* and is given what it cannot write.
ConstFiles ==
  {<<Defined({}, w, "name", g, a), Defined({}, v, by, 3, {x}), Outside(place, {Rest, 2})>> :
     w, v \in Writes, g \in {1, 2}, a \in ArgLists, by \in {"name", "pointer", "construction"},
     place \in {"header", "helper"},
     x \in {Passed(s, at, p) : s \in {Rest, 2}, at \in {Nowhere, 1, 2}, p \in Param}}

\* Files that keep to what the analysis sees.
PlainFiles ==
  {f \in Files \cup ConstFiles :
     /\ WellTyped(f)
     /\ \A n \in 1..2 : \A c \in f[n].calls :
          c.callee = n => \A a \in c.args : a.slot = a.param}
=============================================================================
