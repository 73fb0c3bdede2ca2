--------------------------- MODULE MCHostToMaster ---------------------------
(***************************************************************************)
(* HostToMaster with two units, of which one measures two clocks, and one  *)
(* configuration that the worker rejects.  A tick is one second.           *)
(***************************************************************************)
EXTENDS HostToMaster

CONSTANTS u1, u2, d1, d2, good, bad

From(u, c, S) == [unit |-> u, config |-> c, measures |-> S]
MCStarts ==
  {From(u1, good, {d1, d2}), From(u2, good, {d2}), From(u2, bad, {d2})}
MCMeasurable == [u \in Unit |-> IF u = u1 THEN {{d1}} ELSE {{}}]
=============================================================================
