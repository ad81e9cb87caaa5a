------------------------------ MODULE MCSession ------------------------------
(* An instance of Session for TLC: one of three users has an account; the    *)
(* tabs are interchangeable, and so are the ids that are still free.         *)
EXTENDS Session, TLC

CONSTANTS u1, u2, u3, e1, e2

MCUsers == {u1, u2, u3}
MCRegistered == u1 :> e1

MCSymmetry == Permutations(Tabs) \cup Permutations({u2, u3})
=============================================================================
