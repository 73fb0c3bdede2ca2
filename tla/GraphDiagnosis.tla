--------------------------- MODULE GraphDiagnosis ---------------------------
(***************************************************************************)
(* The diagnoses that are computed from a SyncGraph, and the array of them *)
(* that Ros2DiagnosticsAdapter publishes.  They only read the graph: this  *)
(* module adds operators to SyncGraph, and a specification that starts     *)
(* with any of a set of configured clock trees.                            *)
(*                                                                         *)
(* A diagnosis is the level that its tree aggregates to.  An exception is  *)
(* the level Raised; the adapter then publishes nothing.                   *)
(***************************************************************************)
EXTENDS SyncGraph, ReferenceGraph

CONSTANTS
  ClockTrees,  \* the clock trees that may be configured
  WarnAt,      \* the thresholds of diagnose_diff, by kind of link
  ErrorAt,
  ServoLevel,  \* diagnose_servo_state for what a phc2sys link reports
  StateLevel   \* the level of each reported state (sync_tooling_msgs)

Ok == 0
Warning == 1    \* also Unknown, which the adapter publishes as a warning
Error == 2
Raised == 3

ASSUME TreesAssumption == \A t \in ClockTrees : /\ IsFiniteSet(t)
                                               /\ IsClockTree(t, ClockId)
ASSUME LevelAssumption == /\ Reading \subseteq Int
                          /\ WarnAt \in [Kinds -> Nat]
                          /\ ErrorAt \in [Kinds -> Nat]
                          /\ ServoLevel \in [Reading -> Ok..Error]
                          /\ StateLevel \in [State -> Ok..Error]

\* sync_tooling_msgs.diag_tree.aggregate: the worst level of a tree.
Worst(levels) ==
  IF levels = {} THEN Ok
  ELSE CHOOSE w \in levels : \A x \in levels : x <= w

VARIABLE clockTree  \* the clock_tree of the configuration

gvars == <<vars, clockTree>>

Flag(fault, level) == IF fault THEN level ELSE Ok

Edges == {<<l.src, l.dst>> : l \in links}
Graph == [node |-> nodes, edge |-> Edges]
Reference == [node |-> refNodes, edge |-> refLinks]

------------------------------------------------------------------------------
(* Graph algorithms of networkx. *)

\* The clocks that some clock of S has a path to, those of S included.
Reach(G, S) ==
  LET step[n \in 0..Cardinality(G.node)] ==
        IF n = 0 THEN S
        ELSE LET known == step[n - 1] IN known \cup AllSuccessors(G, known)
  IN  step[Cardinality(G.node)]

Below(G, a) == Reach(G, {a})
Above(G, a) == Reach(Transpose(G), {a})

OnCycle(G, a) == a \in Reach(G, Successors(G, a))

\* all_simple_paths: the paths from a to b that visit no clock twice.
SimplePaths(G, a, b) ==
  LET longer(paths) ==
        UNION {{Append(p, c) : c \in Successors(G, Last(p)) \ ToSet(p)}
               : p \in paths}
      upTo[n \in 1..Cardinality(G.node)] ==
        IF n = 1 THEN {<<a>>}
        ELSE LET known == upTo[n - 1] IN known \cup longer(known)
  IN  {p \in upTo[Cardinality(G.node)] : Last(p) = b}

\* shortest_path, where one exists.
ShortestPath(G, a, b) ==
  CHOOSE p \in SimplePaths(G, a, b) :
    \A q \in SimplePaths(G, a, b) : Len(p) <= Len(q)

------------------------------------------------------------------------------
(* The health of the graph. *)

\* diagnose_reachability
ReachabilityLevel ==
  LET undirected == [Graph EXCEPT !.edge = @ \cup Transpose(Graph).edge]
  IN  Flag(\E a \in nodes : Below(undirected, a) # nodes, Error)

\* diagnose_cycles
AcyclicityLevel == Flag(\E a \in nodes : OnCycle(Graph, a), Error)

\* get_grandmaster: the first root of the reference in networkx's order, here
\* an arbitrary but fixed one.
GetGrandmaster ==
  IF Roots(Reference) = {} THEN NoClock
  ELSE Canon(CHOOSE a \in refNodes : a \in Roots(Reference))

\* Mutant: any only candidate is accepted, whatever the reference says.
IsOnlyRoot(a) ==
  /\ Roots(Graph) = {a}
  /\ Cardinality(Below(Graph, a) \ {a}) = Cardinality(nodes) - 1

\* diagnose_grandmaster: the three checks on the only candidate.
IsGrandmaster(a) ==
  /\ Roots(Graph) = {a}
  /\ refNodes # {} => GetGrandmaster = a
  /\ Cardinality(Below(Graph, a) \ {a}) = Cardinality(nodes) - 1

GrandmasterLevel == Flag(~ \E a \in Roots(Graph) : IsGrandmaster(a), Error)

\* diagnose_graph
GraphLevel == Worst({ReachabilityLevel, AcyclicityLevel, GrandmasterLevel})

\* diagnose_clock_reference_adherence: missing clocks are an error, rogue ones
\* a warning, if there is a reference.
MissingClocks == refNodes \ nodes
RogueClocks == IF refNodes = {} THEN {} ELSE nodes \ refNodes

ReferenceLevel == Worst({Flag(MissingClocks # {}, Error),
                         Flag(RogueClocks # {}, Warning)})

------------------------------------------------------------------------------
(* The diagnosis of one clock. *)

\* diagnose_diff
DiffLevel(kind, r) ==
  LET abs == IF r >= 0 THEN r ELSE -r
  IN  IF abs > ErrorAt[kind] THEN Error
      ELSE Flag(abs > WarnAt[kind], Warning)

\* diagnose_port
PortLevel(p) ==
  IF portState[CanonPort(p)] = NoState THEN Warning
  ELSE StateLevel[portState[CanonPort(p)]]

\* diagnose_link, for one of the links it reads: a key that is not one of the
\* four kinds is an AssertionError.
LinkLevel(l) ==
  CASE l.key = "ptp_parent" -> PortLevel(l.meta)
    [] l.key \in {"master", "measurement"} -> DiffLevel(l.key, l.meta.offset)
    [] l.key = "phc2sys" -> Worst({DiffLevel(l.key, l.meta.offset),
                                   ServoLevel[l.meta.offset]})
    [] OTHER -> Raised

\* Mutant: the order of the clocks of the path is not compared.
SameClocks(path, reference) ==
  /\ path[1] = reference[1]
  /\ Last(path) = Last(reference)
  /\ ToSet(path) \subseteq ToSet(reference)

\* _is_path_adherent_to_reference, of paths that visit no clock twice: that the
\* reference, filtered by the clocks of the path, is the path means that the
\* path has its clocks from increasing places of the reference.
IsPathAdherent(path, reference) ==
  /\ path[1] = reference[1]
  /\ Last(path) = Last(reference)
  /\ \E at \in [DOMAIN path -> DOMAIN reference] :
       /\ \A i \in DOMAIN path : reference[at[i]] = path[i]
       /\ \A i, j \in DOMAIN path : i < j => at[i] < at[j]

\* The paths from the grandmaster to a clock that adhere to the reference.
AdherentPaths(c) ==
  LET reference == ShortestPath(Reference, GetGrandmaster, c)
  IN  {p \in SimplePaths(Graph, GetGrandmaster, c) :
         IsPathAdherent(p, reference)}

\* Mutant: the grandmaster is not looked up in the graph, where
\* all_simple_paths raises if it is not a node.
AdherenceUnchecked(c) ==
  IF c \notin refNodes THEN Ok
  ELSE IF GetGrandmaster \notin nodes THEN Raised
  ELSE Flag(c # GetGrandmaster /\ AdherentPaths(c) = {}, Error)

\* diagnose_single_clock_reference_adherence
AdherenceLevel(c) ==
  IF c \notin refNodes THEN Ok
  ELSE IF GetGrandmaster = NoClock THEN Raised
  ELSE IF GetGrandmaster \notin nodes THEN Error
  ELSE IF c \notin Below(Reference, GetGrandmaster) THEN Raised
  ELSE Flag(c # GetGrandmaster /\ AdherentPaths(c) = {}, Error)

\* Mutant: only the direct links into the clock.
LinksInto(c) == {l \in links : l.dst = c}

\* The links between the ancestors of a clock and the clock itself.
UpstreamLinks(c) ==
  LET upstream == Above(Graph, c)
  IN  {l \in links : l.src \in upstream /\ l.dst \in upstream}

\* Mutant: what the clock itself reports is left out.
LevelOfLinks(c) ==
  IF \E a \in Below(Graph, c) : OnCycle(Graph, a) THEN Error
  ELSE Worst({LinkLevel(l) : l \in UpstreamLinks(c)} \cup {AdherenceLevel(c)})

\* diagnose_clock.  find_cycle searches the edges that leave the clock, and
\* finds any cycle that they lead to.
ClockLevel(c) ==
  IF \E a \in Below(Graph, c) : OnCycle(Graph, a) THEN Error
  ELSE Worst({LinkLevel(l) : l \in UpstreamLinks(c)}
               \cup {IF selfState[c] = NoState THEN Ok
                     ELSE StateLevel[selfState[c]]}
               \cup {AdherenceLevel(c)})

\* Ros2DiagnosticsAdapter._diagnose_clock
PublishedLevel(c) == IF Canon(c) \in nodes THEN ClockLevel(Canon(c)) ELSE Error

\* lexicographical_topological_sort raises on a reference with a cycle.
SortLevel == Flag(\E a \in refNodes : OnCycle(Reference, a), Raised)

\* Ros2DiagnosticsAdapter.diagnose publishes unless something raises.
Published ==
  Raised \notin {GraphLevel, ReferenceLevel, SortLevel}
                  \cup {PublishedLevel(c) : c \in refNodes}

------------------------------------------------------------------------------
\* The graphs that any sequence of updates leads to, for each configuration.
\* to_sync_graph_args reads it once.
GInit ==
  /\ clockTree \in ClockTrees
  /\ refNodes = ClockTreeToDigraph(clockTree).node
  /\ refLinks = ClockTreeToDigraph(clockTree).edge
  /\ aliases = [c \in ClockId |-> {}]
  /\ nodes = {}
  /\ links = {}
  /\ portIds = [c \in ClockId |-> {}]
  /\ portState = [p \in Port |-> NoState]
  /\ selfState = [c \in ClockId |-> NoState]

GNext == Next /\ UNCHANGED clockTree

GSpec == GInit /\ [][GNext]_gvars

------------------------------------------------------------------------------
(* Properties. *)

\* A reference with several roots, which the documentation does not mean, has
\* the first one of its configuration as its grandmaster.
OneRoot == Cardinality(Roots(Reference)) <= 1

\* diagnose_graph is Ok exactly for a well-formed graph: it has a clock, the
\* reference grandmaster if there is a reference, that every clock is
\* synchronised to along some path, and no clock is upstream of itself.
HealthyIfWellFormed ==
  OneRoot => (GraphLevel = Ok <=>
    /\ \E g \in nodes : /\ Below(Graph, g) = nodes
                        /\ refNodes # {} => g \in Roots(Reference)
    /\ \A a, b \in nodes :
         a # b => ~(a \in Below(Graph, b) /\ b \in Below(Graph, a)))

\* Of a clock that is configured below several others, which the documentation
\* does not mean either, only one path in the reference is looked at.
OneParent ==
  \A e, f \in refLinks :
    e[2] = f[2] /\ e[1] # e[2] /\ f[1] # f[2] => e = f

\* A clock of the reference adheres to it exactly if the grandmaster reaches it
\* by links that only go down the reference towards that clock; a link may
\* skip clocks of the reference.  This is so for every reference with one root
\* and one path to each clock, also after its names have been merged.
AdherentIfDownTheReference ==
  OneRoot /\ OneParent => \A c \in nodes \cap refNodes :
    LET towards == {e \in Edges : /\ e[2] \in Above(Reference, c)
                                  /\ e[1] \in Above(Reference, e[2])}
    IN  AdherenceLevel(c) = Ok <=>
          \E g \in Roots(Reference) \cap nodes :
            c \in Below([node |-> nodes, edge |-> towards], g)

\* An upstream fault is never hidden: a clock is at least as bad as each link
\* into it and each link further up, unless a merge has given that an integer
\* key, and every clock on a cycle is an error.
FaultsReachDownstream ==
  \A c \in nodes :
    /\ OnCycle(Graph, c) => ClockLevel(c) = Error
    /\ \A l \in links : l.key \in Kinds /\ l.dst \in Above(Graph, c)
                          => ClockLevel(c) >= LinkLevel(l)

\* If everything is published as Ok under a reference, then the clocks of the
\* graph are those of the reference, no link has a fault and no clock reports
\* one, and every clock is synchronised to the grandmaster.
AllOkMeansSynchronised ==
  /\ refNodes # {}
  /\ {GraphLevel, ReferenceLevel} \cup {PublishedLevel(c) : c \in refNodes} = {Ok}
  => /\ nodes = refNodes
     /\ \A l \in links : LinkLevel(l) = Ok
     /\ \A c \in nodes : selfState[c] = NoState \/ StateLevel[selfState[c]] = Ok
     /\ Below(Graph, GetGrandmaster) = nodes

\* Whether no clock of the configuration has become an alias of another one.
NoClockTwice ==
  \A c, d \in UNION {ToSet(p) : p \in clockTree} : Canon(c) = Canon(d) => c = d

\* Whether no merge has given a link an integer key.
KeysAreKinds == \A l \in links : l.key \in Kinds

\* For a configuration that is one tree of different clocks, or has no link at
\* all, the diagnostics are published, whatever the graph looks like.
AlwaysPublished ==
  (IsOneTree(clockTree) \/ refNodes = {}) /\ NoClockTwice /\ KeysAreKinds =>
    Published

\* The graph is compared with what was configured: every clock that has a link
\* there is in the reference, by the name that the graph now has for it, and
\* below all the clocks that it is nested in.  A clock without a link is not, so
\* a configuration of lone clocks is no reference.
ReferenceIsConfigured ==
  /\ refNodes = {Canon(c) : c \in UNION {ToSet(p) : p \in
                               {q \in clockTree : Len(q) > 1}}}
  /\ \A p \in clockTree : \A i \in 2..Len(p) :
       Canon(p[i]) \in Below(Reference, Canon(p[1]))

\* What the documentation of diagnose_clock and its test say: a clock has the
\* cycle error if it is part of a cycle, and the other clocks are unaffected.
\* Here nothing else is wrong with the clock or above it.
OnlyCycleAffected ==
  \A c \in nodes :
    /\ refNodes = {}
    /\ \A a \in Above(Graph, c) : ~ OnCycle(Graph, a)
    /\ \A l \in UpstreamLinks(c) : LinkLevel(l) = Ok
    /\ selfState[c] = NoState
    => ClockLevel(c) = Ok
==============================================================================
