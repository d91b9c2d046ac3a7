------------------------------ MODULE MCBalance ------------------------------
(* Instances of Balance for TLC. *)
EXTENDS Balance

CONSTANTS c1, c2, o1, o2, t1, t2

(* One target behind a node of its own, one behind a group of both nodes, or *)
(* no way for the first any more.                                            *)
TwoTargets == <<t1, t2>>
NodeAndGroup == [t \in Targets |-> IF t = t1 THEN {o1} ELSE {o1, o2}]
GroupOnly == [t \in Targets |-> IF t = t1 THEN {} ELSE {o1, o2}]
TwoRoutings == {NodeAndGroup, GroupOnly}

(* Two clients while nothing changes, or changes while nobody connects. *)
ClientsOrChanges ==
  {[clients |-> {c1, c2}, changes |-> 0, reloads |-> 0],
   [clients |-> {}, changes |-> 2, reloads |-> 0],
   [clients |-> {}, changes |-> 0, reloads |-> 1]}
=============================================================================
