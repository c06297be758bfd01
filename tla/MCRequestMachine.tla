--------------------------- MODULE MCRequestMachine ---------------------------
(***************************************************************************)
(* Small instances of RequestMachine for TLC.                              *)
(***************************************************************************)
EXTENDS RequestMachine, TLC

CONSTANTS c1, c2, k1, k2, prepare, submit, resubmit, cancel, unconfirmed, x1, x2

TwoTabs  == {c1, c2}
OneTab   == {c1}
TwoKeys  == {k1, k2}
OneKey   == {k1}

(* A whole life: one effect of each kind that changes the request.          *)
LifeEffects == {submit, resubmit, unconfirmed}
LifeKinds   == [e \in LifeEffects |-> IF e = resubmit THEN "resubmit" ELSE "submit"]

(* Every kind of effect, with stale, duplicate and reordered results.       *)
ProtocolEffects == {prepare, submit, cancel, unconfirmed}
ProtocolKinds   == [e \in ProtocolEffects |->
  CASE e = prepare -> "prepare" [] e = cancel -> "cancel" [] OTHER -> "submit"]

NoCoordEffect   == {}
TwoCoordEffects == {x1, x2}

Symmetry == Permutations(TwoTabs) \cup Permutations(TwoKeys) \cup Permutations(TwoCoordEffects)
===============================================================================
