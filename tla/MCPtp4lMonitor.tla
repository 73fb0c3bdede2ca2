--------------------------- MODULE MCPtp4lMonitor ---------------------------
(***************************************************************************)
(* Ptp4lMonitor with two configurations of the unit, on different          *)
(* interfaces of the host and in different PTP domains, that listen at one *)
(* address as the installation guide recommends; the instance follows a    *)
(* grandmaster or is one itself.                                           *)
(***************************************************************************)
EXTENDS Ptp4lMonitor

CONSTANTS eth0, eth1, id0, id1, gm, uds, c0, c1

MCClockOf == [c \in Config |-> IF c = c0 THEN eth0 ELSE eth1]
MCIdentity == [c \in Config |-> IF c = c0 THEN id0 ELSE id1]
MCDomainOf == [c \in Config |-> IF c = c0 THEN 0 ELSE 1]
MCAddressOf == [c \in Config |-> uds]
Follows(m, n) == [master |-> m, via |-> n]
MCElections == {Follows(gm, 1), Follows(id0, 0)}
MCStarts == {<<c0, Follows(gm, 1)>>, <<c1, Follows(id0, 0)>>}
=============================================================================
