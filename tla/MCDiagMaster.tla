---------------------------- MODULE MCDiagMaster ----------------------------
(***************************************************************************)
(* DiagMaster with a clock that is known as lidar and eth0, and a second   *)
(* clock eth1.  The identifier blank is set but empty.                     *)
(***************************************************************************)
EXTENDS DiagMaster, TLC

CONSTANTS lidar, eth0, eth1, blank, ok, bad

MCScore ==
  (lidar :> 4) @@ (eth0 :> 2) @@ (eth1 :> 2) @@ (blank :> NoScore)

MCReading == 0..3

At(c, n) == [clock |-> c, port |-> n]
Alias(A) == [type |-> "clock_alias", aliases |-> A]
Master(c, m, r) ==
  [type |-> "clock_master", clock |-> c, master |-> m, meta |-> r]
Parent(c, q) == [type |-> "ptp_parent", clock |-> c, parent |-> q]
PortState(q, st) == [type |-> "port_state", port |-> q, state |-> st]
Self(c, st) == [type |-> "self_reported", clock |-> c, state |-> st]
Phc2Sys(src, dst, r) ==
  [type |-> "phc2sys", dst |-> dst, src |-> src, meta |-> r]
Diff(src, dst, r) ==
  [type |-> "clock_diff", src |-> src, dst |-> dst, meta |-> r]

\* Every kind of update, under both names of the clock lidar.
MCSent ==
  {Alias({lidar, eth0}), Alias({lidar, blank}),
   Master(eth0, eth1, 1), Master(lidar, eth1, 2), Master(lidar, NoClock, 0),
   Phc2Sys(eth1, eth0, 1),
   Diff(eth1, eth0, 0), Diff(eth1, eth0, 3), Diff(eth1, lidar, 2), 
   Parent(eth0, At(eth1, 1)), Parent(lidar, NoPort), PortState(At(eth0, 1), ok),
   PortState(At(lidar, 1), bad), Self(eth0, bad), [type |-> "unset"]}

MCUpdates ==
  MCSent \cup {Diff(eth1, c, r) : c \in {eth0, lidar}, r \in MCReading}

\* Three alias updates that link all names, in any order of arrival.
AliasSent == {Alias({lidar, eth0}), Alias({eth1}), Alias({eth0, eth1})}

\* A clock whose master changes.
MasterSent == {Master(eth1, eth0, 1), Master(eth1, lidar, 1)}

==============================================================================
