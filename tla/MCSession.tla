------------------------------ MODULE MCSession ------------------------------
(* Instances of Session for TLC. *)
EXTENDS Session, TLC

CONSTANTS s1, s2, u1

OneUser == [s \in Sessions |-> u1]
=============================================================================
