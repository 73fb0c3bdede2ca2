----------------------------- MODULE SyncDoctor -----------------------------
(***************************************************************************)
(* What SYNC.DOCTOR shows of a SyncGraph (echarts_adapter.py), on top of   *)
(* its diagnoses: the clocks and links, and the graph by which the clocks  *)
(* get their places.  Only reads the graph.                                *)
(*                                                                         *)
(* WebUi.update is called outside of a try: an exception here leaves the   *)
(* timer callback, and with it rclpy.spin, which ends the master.          *)
(***************************************************************************)
EXTENDS GraphDiagnosis

\* nx.is_tree of a directed graph that is not empty: it ignores directions.
IsTree(G) ==
  LET undirected == [G EXCEPT !.edge = @ \cup Transpose(G).edge]
  IN  /\ Cardinality(G.edge) = Cardinality(G.node) - 1
      /\ \A a \in G.node : Below(undirected, a) = G.node

\* topological_generations: the clocks on the longest path from a root.
Generation(c) ==
  LET paths == UNION {SimplePaths(Reference, a, c) : a \in refNodes}
  IN  CHOOSE n \in {Len(p) : p \in paths} : \A p \in paths : Len(p) <= n

\* _is_node_in_cycle, which a clock above a cycle is, too.
IsNodeInCycle(c) == \E a \in Below(Graph, c) : OnCycle(Graph, a)

\* Mutant: relatives that are not in the reference themselves.
RelativesAnywhere(c) == (Above(Graph, c) \cup Below(Graph, c)) \ {c}

\* The clocks of the reference upstream or downstream of a rogue clock.
Relatives(c) == ((Above(Graph, c) \cup Below(Graph, c)) \ {c}) \cap refNodes

\* The rogue clocks that get a place next to the reference.
PlacedRogues ==
  {c \in nodes \ refNodes : ~ IsNodeInCycle(c) /\ Relatives(c) # {}}

\* The relative furthest down the reference; of several the one whose name
\* comes first, here an arbitrary but fixed one.
FurthestRelative(c) ==
  CHOOSE a \in Relatives(c) :
    \A b \in Relatives(c) : Generation(b) <= Generation(a)

\* The graph that is laid out.
Layout ==
  [node |-> refNodes \cup PlacedRogues,
   edge |-> refLinks \cup {<<FurthestRelative(c), c>> : c \in PlacedRogues}]

\* The assertions and calls of _get_clock_positions: is_tree raises for the
\* empty graph, and get_level for a clock outside of the reference.
PositionsRaise ==
  \/ refNodes = {}
  \/ ~ IsTree(Reference)
  \/ \E c \in PlacedRogues : ~(Relatives(c) \subseteq refNodes)

\* _clock_to_echart_data, with the names, for the clocks with a place first.
ShownClocks == {Canon(c) : c \in Layout.node} \cup nodes

ClockRaises(c) == c \in nodes /\ ClockLevel(c) = Raised

\* _link_to_echart_link
ShownLinks == Edges \cup refLinks

LinkRaises(e) ==
  \E l \in links : <<l.src, l.dst>> = e /\ LinkLevel(l) = Raised

\* sync_graph_to_echart_options
DoctorRaises ==
  \/ PositionsRaise
  \/ \E c \in ShownClocks : ClockRaises(c)
  \/ \E e \in ShownLinks : LinkRaises(e)

------------------------------------------------------------------------------
(* Properties. *)

\* For a configuration that is one tree of different clocks, showing the graph
\* never ends the master, whatever the graph looks like; every clock and every
\* link of the graph and of the reference is shown, and what is laid out is one
\* tree, as twopi needs it.
DoctorShowsAll ==
  IsOneTree(clockTree) /\ NoClockTwice /\ KeysAreKinds =>
    /\ ~ DoctorRaises
    /\ ShownClocks = nodes \cup refNodes
    /\ IsTree(Layout)
=============================================================================
