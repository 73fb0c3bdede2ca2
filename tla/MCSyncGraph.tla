----------------------------- MODULE MCSyncGraph -----------------------------
(***************************************************************************)
(* SyncGraph with two clocks: one goes by the sensor name lidar and the    *)
(* interface name eth0, the other by the interface name eth1 and the PTP   *)
(* clock identity ptp1.  Every order in which links, ports and aliases     *)
(* become known is explored, and so is an alias update that joins the two. *)
(***************************************************************************)
EXTENDS SyncGraph, TLC

CONSTANTS lidar, eth0, eth1, ptp1, locked, r1, r2

MCScore == (lidar :> 4) @@ (eth0 :> 2) @@ (eth1 :> 2) @@ (ptp1 :> 0)

At(c, n) == [clock |-> c, port |-> n]
Alias(A) == [type |-> "clock_alias", aliases |-> A]
Master(c, m) ==
  [type |-> "clock_master", clock |-> c, master |-> m, meta |-> r1]
Parent(c, q) == [type |-> "ptp_parent", clock |-> c, parent |-> q]
PortState(q) == [type |-> "port_state", port |-> q, state |-> locked]
Self(c, st) == [type |-> "self_reported", clock |-> c, state |-> st]
Phc2Sys(src, dst) ==
  [type |-> "phc2sys", dst |-> dst, src |-> src, meta |-> r1]
Diff(src, dst, r) ==
  [type |-> "clock_diff", src |-> src, dst |-> dst, meta |-> r]

\* The aliases of the two clocks, their join, and one of a single clock.
AliasUpdates == {Alias({lidar, eth0}), Alias({eth1, ptp1}),
                 Alias({eth0, eth1}), Alias({eth1}), Alias({})}

\* Links that collide once aliases are known.
LinkUpdates ==
  AliasUpdates \cup
  {Master(eth0, ptp1), Master(eth0, NoClock), Master(NoClock, eth0),
   Diff(ptp1, eth0, r1), Diff(eth1, lidar, r2),
   Diff(NoClock, eth0, r1), Phc2Sys(ptp1, lidar), Phc2Sys(NoClock, lidar),
   Phc2Sys(eth0, NoClock), [type |-> "unset"]}

\* With ports, their states and the links that name them.
AllUpdates ==
  LinkUpdates \cup
  {Parent(eth0, At(ptp1, 1)),
   Parent(eth0, At(eth0, 2)), Parent(eth0, At(ptp1, 0)),
   Parent(eth0, NoPort), Parent(NoClock, NoPort), PortState(At(ptp1, 1)),
   PortState(At(eth1, 0)), PortState(At(eth0, 1)), Self(eth0, locked),
   Self(eth1, Invalid), Self(ptp1, locked), Self(NoClock, locked),
   [type |-> "status"]}

\* The reference graph names the clocks by their interfaces.
MCRefEdges == {<<eth1, eth0>>}
==============================================================================
