------------------------------ MODULE MCServing ------------------------------
(***************************************************************************)
(* TLC instances of Serving.                                               *)
(***************************************************************************)
EXTENDS Serving, TLC

CONSTANTS m1, m2, m3

RequestSymmetry == Permutations(Request)

TwoModels   == {m1, m2}
TwoChains   == {<<m1, m2>>, <<m2, m1>>}
ThreeModels == {m1, m2, m3}
ThreeChains == {<<m1, m2, m3>>, <<m2, m1, m3>>}
=============================================================================
