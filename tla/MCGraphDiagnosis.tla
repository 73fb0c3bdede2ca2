-------------------------- MODULE MCGraphDiagnosis --------------------------
(***************************************************************************)
(* GraphDiagnosis on the graphs that four clocks can form with links along *)
(* their order, a short and a long cycle, one fault of each kind, and two  *)
(* clocks that may turn out to be one.                                     *)
(***************************************************************************)
EXTENDS SyncDoctor

CONSTANTS a1, a2, a3, a4, good, faulty

MCReading == {-2, 0, 3}
MCScore == [c \in ClockId |-> 3]
MCWarnAt == [k \in Kinds |-> 1]
MCErrorAt == [k \in Kinds |-> 2]
MCServoLevel == [r \in Reading |-> Ok]
MCStateLevel == [s \in State |-> IF s = faulty THEN Error ELSE Ok]

Master(m, c, r) ==
  [type |-> "clock_master", clock |-> c, master |-> m, meta |-> r]

Port3 == [clock |-> a3, port |-> 1]

MCUpdates ==
  {Master(a1, a2, 0), Master(a1, a3, 0), Master(a1, a4, 0),
   Master(a2, a3, 0), Master(a2, a4, 0),
   Master(a3, a2, 0), Master(a4, a1, 0),
   Master(a1, a2, -2),
   [type |-> "phc2sys", src |-> a2, dst |-> a3, meta |-> 3],
   [type |-> "ptp_parent", clock |-> a4, parent |-> Port3],
   [type |-> "port_state", port |-> Port3, state |-> faulty],
   [type |-> "port_state", port |-> Port3, state |-> good],
   [type |-> "clock_alias", aliases |-> {a2, a3}],
   [type |-> "self_reported", clock |-> a2, state |-> faulty]}

MCClockTrees ==
  {{<<a1>>},
   {<<a1>>, <<a1, a2>>, <<a1, a2, a3>>},
   {<<a1>>, <<a1, a2>>},
   {<<a1>>, <<a1, a2>>, <<a1, a2, a3>>, <<a1, a4>>},
   {<<a1>>, <<a1, a2>>, <<a1, a2, a3>>, <<a1, a2, a3, a4>>},
   {<<a1>>, <<a1, a2>>, <<a1, a2, a4>>, <<a1, a3>>, <<a1, a3, a4>>},
   {<<a1>>, <<a1, a2>>, <<a3>>, <<a3, a4>>},
   {<<a1>>, <<a1, a2>>, <<a1, a2, a4>>, <<a3>>, <<a3, a4>>}}
==============================================================================
