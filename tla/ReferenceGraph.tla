--------------------------- MODULE ReferenceGraph ---------------------------
(***************************************************************************)
(* sync_graph.yaml: how the reference graph is read from the clock_tree of *)
(* the configuration.                                                      *)
(*                                                                         *)
(* A clock_tree, nested dictionaries, is the set of its paths: the keys    *)
(* that lead to each of its clocks, from the outermost one to the clock    *)
(* itself.  It may be several trees, and a clock may occur in it again, as *)
(* neither the schema nor the code excludes it.                            *)
(***************************************************************************)
EXTENDS Naturals, Graphs

IsClockTree(tree, clocks) ==
  \A p \in tree : /\ p \in Seq(clocks)
                  /\ p # <<>>
                  /\ Len(p) > 1 => Front(p) \in tree

\* Mutant: only the outermost clocks and their children.
OutermostEdges(tree) == {<<p[1], p[2]>> : p \in {q \in tree : Len(q) > 1}}

\* _tree_to_edges
TreeToEdges(tree) ==
  {<<p[Len(p) - 1], p[Len(p)]>> : p \in {q \in tree : Len(q) > 1}}

\* clock_tree_to_digraph, whose nodes are the ends of its edges: a clock
\* without a parent and without children is dropped.
ClockTreeToDigraph(tree) ==
  LET edges == TreeToEdges(tree)
  IN  [node |-> {e[1] : e \in edges} \cup {e[2] : e \in edges}, edge |-> edges]

\* Whether the configuration is one tree with a link, and names no clock twice.
IsOneTree(tree) ==
  /\ \E p \in tree : Len(p) > 1
  /\ \A p, q \in tree : p[1] = q[1] /\ (Last(p) = Last(q) => p = q)
=============================================================================
