--------------------------- MODULE MCClickPipeline ---------------------------
(* Instances of ClickPipeline for TLC: two URLs, one of them clicked twice. *)
EXTENDS ClickPipeline

CONSTANTS c1, c2, c3, u1, u2

ClicksMC == {c1, c2, c3}
CodesMC  == {u1, u2}
CodeOfMC == [c \in ClicksMC |-> IF c = c3 THEN u2 ELSE u1]
==============================================================================
