---------------------------- MODULE MCUnitMonitor ----------------------------
(***************************************************************************)
(* UnitMonitor with two configurations of the unit that differ in the      *)
(* source and in the clock that one name stands for.                       *)
(***************************************************************************)
EXTENDS UnitMonitor

CONSTANTS s1, s2, d1, c1, c2, n1, n2

MCSource == [c \in Config |-> IF c = c1 THEN s1 ELSE s2]
MCAliases ==
  [c \in Config |-> [n \in Name |-> IF n = n2 /\ c = c2 THEN NoClock ELSE d1]]
==============================================================================
