------------------------------ MODULE SyncGraph ------------------------------
(***************************************************************************)
(* sync_graph.SyncGraph: the graph of clocks that the diagnostics are      *)
(* computed from.  Its state are the alias classes of the clock            *)
(* identifiers, the clocks (nodes), the links between them, the PTP ports, *)
(* the self-reported clock states and the reference graph.  There is one   *)
(* action per kind of GraphUpdate, and one action is one call of           *)
(* SyncGraph.update.                                                       *)
(*                                                                         *)
(* Abstracted: the insertion order of networkx.  Where the code depends on *)
(* it (which node's attributes, and which of two colliding links, survive  *)
(* a merge) the model chooses freely.  A ptp_domain is part of the port    *)
(* number.  An alias update that raises is no step of the graph: its only  *)
(* caller, DiagMaster, ends and drops the graph, half changed as it is.    *)
(***************************************************************************)
EXTENDS Integers

CONSTANTS
  ClockId,      \* identifiers of clocks; several may name the same clock
  Score,        \* readability_score of each identifier, NoScore if it raises
  PortNumber,   \* port numbers, with 0 for PTP's internal port
  Reading,      \* offsets and servo states measured on a link
  State,        \* states a port or a clock reports (never INVALID)
  NoClock,      \* an unset clock field
  NoPort,       \* an unset port field
  NoState,      \* no state known
  Invalid,      \* SelfReportedClockStateUpdate.State.INVALID
  Updates,      \* the updates that the graph may be given
  RefClocks,    \* the clocks of the configured reference graph ({}: none)
  RefEdges      \* its links, pairs <<parent, child>>

Kinds == {"master", "ptp_parent", "measurement", "phc2sys"}

\* The integer key networkx gives to a link whose own key is already taken.
Renumbered == "renumbered"

Port == [clock : ClockId, port : PortNumber]

\* The metadata of a link that is not a PTP parent link.
Offset == [offset : Reading]

MasterUpdate == [type : {"clock_master"}, clock : ClockId \cup {NoClock},
                 master : ClockId \cup {NoClock}, meta : Reading]
ParentUpdate == [type : {"ptp_parent"}, clock : ClockId \cup {NoClock},
                 parent : Port \cup {NoPort}]
Phc2SysUpdate == [type : {"phc2sys"}, dst : ClockId \cup {NoClock},
                  src : ClockId \cup {NoClock}, meta : Reading]
Measurement == [type : {"clock_diff"}, src : ClockId \cup {NoClock},
                dst : ClockId \cup {NoClock}, meta : Reading]
AliasUpdate == [type : {"clock_alias"}, aliases : SUBSET ClockId]
PortUpdate == [type : {"port_state"}, port : Port, state : State]
SelfUpdate == [type : {"self_reported"}, clock : ClockId \cup {NoClock},
               state : State \cup {Invalid}]
\* A ptp4l or phc2sys status message, or a GraphUpdate with nothing set.
IgnoredUpdate == [type : {"status", "unset"}]

GraphUpdate == MasterUpdate \cup ParentUpdate \cup Phc2SysUpdate
                 \cup Measurement \cup AliasUpdate \cup PortUpdate
                 \cup SelfUpdate \cup IgnoredUpdate

\* readability_score raises ValueError for a ClockId that is present but has
\* none of the identifiers this version knows.
NoScore == -1

ASSUME ScoreAssumption == Score \in [ClockId -> {NoScore} \cup 0..4]
ASSUME PortAssumption == PortNumber \subseteq Nat
ASSUME UnsetAssumption == /\ NoClock \notin ClockId
                          /\ NoPort \notin Port
                          /\ NoState \notin State
                          /\ Invalid \notin State
ASSUME UpdatesAssumption == Updates \subseteq GraphUpdate
ASSUME ReferenceAssumption == /\ RefClocks \subseteq ClockId
                              /\ RefEdges \subseteq RefClocks \X RefClocks

VARIABLES
  aliases,    \* _known_aliases: the class of each identifier, {} if unknown
  nodes,      \* nodes of _graph
  links,      \* edges of _graph: their kind, networkx key and metadata
  portIds,    \* the port_ids attribute of each node
  portState,  \* _ports: the last reported state of each port
  selfState,  \* the self_reported_state attribute of each node
  refNodes, refLinks  \* reference_graph

graph == <<nodes, links, portIds, portState, selfState>>
vars == <<aliases, nodes, links, portIds, portState, selfState,
          refNodes, refLinks>>

Link == [src : ClockId, dst : ClockId, kind : Kinds,
         key : Kinds \cup {Renumbered}, meta : Offset \cup Port]

------------------------------------------------------------------------------
(* Canonical identifiers. *)

\* get_most_human_readable_alias: ties are broken by the iteration order of a
\* set, here by an arbitrary but fixed choice.
MostReadable(S) == CHOOSE a \in S : \A b \in S : Score[b] <= Score[a]

CanonIn(known, c) == IF known[c] = {} THEN c ELSE MostReadable(known[c])
Canon(c) == CanonIn(aliases, c)

CanonPortIn(known, p) == [p EXCEPT !.clock = CanonIn(known, p.clock)]
CanonPort(p) == CanonPortIn(aliases, p)

------------------------------------------------------------------------------
(* Changes of the links shared by the handlers. *)

\* remove_edges_from(in_edges(dst) of one kind).  A renumbered link is not
\* found under its kind, so it stays.
RemoveIncoming(dst, kind) ==
  links' = {l \in links : ~(l.dst = dst /\ l.key = kind)}

\* add_edge with an explicit key: overwrites the link that has this key, and
\* is skipped for a self-loop.
AddLink(src, dst, kind, meta) ==
  links' = IF src = dst THEN links
           ELSE {l \in links : <<l.src, l.dst, l.key>> # <<src, dst, kind>>}
                  \cup {[src |-> src, dst |-> dst, kind |-> kind,
                         key |-> kind, meta |-> meta]}

\* The handlers of a master and of a phc2sys update: without a source every
\* incoming link of the kind is removed, otherwise one is added; the incoming
\* links from other sources stay.
SetSource(dst, src, kind, meta) ==
  /\ dst # NoClock
  /\ IF src = NoClock
       THEN /\ nodes' = nodes \cup {Canon(dst)}
            /\ RemoveIncoming(Canon(dst), kind)
       ELSE /\ nodes' = nodes \cup {Canon(dst), Canon(src)}
            /\ AddLink(Canon(src), Canon(dst), kind, meta)

\* Mutant: the new port replaces the known ones.
WithOnlyPort(p) == [portIds EXCEPT ![Canon(p.clock)] = {CanonPort(p)}]

\* get_or_create_port, the part that updates the port_ids of the port's clock.
WithPort(p) ==
  [portIds EXCEPT ![Canon(p.clock)] = {CanonPort(q) : q \in @}
                                        \cup {CanonPort(p)}]

------------------------------------------------------------------------------
(* One action per kind of update. *)

UpdateClockMaster(u) ==
  /\ u.type = "clock_master"
  /\ SetSource(u.clock, u.master, "master", [offset |-> u.meta])
  /\ UNCHANGED <<aliases, portIds, portState, selfState, refNodes, refLinks>>

UpdatePhc2SysLinkState(u) ==
  /\ u.type = "phc2sys"
  /\ SetSource(u.dst, u.src, "phc2sys", [offset |-> u.meta])
  /\ UNCHANGED <<aliases, portIds, portState, selfState, refNodes, refLinks>>

HandleClockDiffMeasurement(u) ==
  /\ u.type = "clock_diff"
  /\ u.src # NoClock
  /\ u.dst # NoClock
  /\ nodes' = nodes \cup {Canon(u.src), Canon(u.dst)}
  /\ AddLink(Canon(u.src), Canon(u.dst), "measurement", [offset |-> u.meta])
  /\ UNCHANGED <<aliases, portIds, portState, selfState, refNodes, refLinks>>

\* create_ptp_link without a parent, or with one on the reserved port 0.
RemovePtpLink(u) ==
  /\ u.type = "ptp_parent"
  /\ u.clock # NoClock
  /\ u.parent # NoPort => u.parent.port = 0
  /\ nodes' = nodes \cup {Canon(u.clock)}
  /\ IF u.parent = NoPort THEN RemoveIncoming(Canon(u.clock), "ptp_parent")
                          ELSE links' = links
  /\ UNCHANGED <<aliases, portIds, portState, selfState, refNodes, refLinks>>

\* create_ptp_link with a parent.  The port is recorded on its clock even when
\* the link would be a self-loop.
CreatePtpLink(u) ==
  /\ u.type = "ptp_parent"
  /\ u.clock # NoClock
  /\ u.parent # NoPort
  /\ u.parent.port # 0
  /\ nodes' = nodes \cup {Canon(u.clock), Canon(u.parent.clock)}
  /\ portIds' = WithPort(u.parent)
  /\ AddLink(Canon(u.parent.clock), Canon(u.clock), "ptp_parent",
             CanonPort(u.parent))
  /\ UNCHANGED <<aliases, portState, selfState, refNodes, refLinks>>

UpdatePtpPortState(u) ==
  /\ u.type = "port_state"
  /\ u.port.port # 0
  /\ nodes' = nodes \cup {Canon(u.port.clock)}
  /\ portIds' = WithPort(u.port)
  /\ portState' = [portState EXCEPT ![CanonPort(u.port)] = u.state]
  /\ UNCHANGED <<aliases, links, selfState, refNodes, refLinks>>

\* Mutant: the check for INVALID is missing.
StoreInvalidState(u) ==
  /\ u.type = "self_reported"
  /\ u.clock # NoClock
  /\ nodes' = nodes \cup {Canon(u.clock)}
  /\ selfState' = [selfState EXCEPT ![Canon(u.clock)] = u.state]
  /\ UNCHANGED <<aliases, links, portIds, portState, refNodes, refLinks>>

UpdateSelfReportedClockState(u) ==
  /\ u.type = "self_reported"
  /\ u.clock # NoClock
  /\ u.state # Invalid
  /\ nodes' = nodes \cup {Canon(u.clock)}
  /\ selfState' = [selfState EXCEPT ![Canon(u.clock)] = u.state]
  /\ UNCHANGED <<aliases, links, portIds, portState, refNodes, refLinks>>

------------------------------------------------------------------------------
(* update_clock_aliases. *)

\* Mutant: only the known aliases themselves, not their classes.
KnownAliases(A) == {a \in A : aliases[a] # {}}

KnownClasses(A) == UNION {aliases[a] : a \in A}

\* The test of the early return: nothing is merged when every alias of the
\* update is in some known class.
NothingNew(A) == A \subseteq KnownClasses(A)

\* Mutant: an update with nothing set raises ValueError, as update documents.
RaisesIfUnset(u) ==
  \/ u.type = "unset"
  \/ /\ u.type = "clock_alias"
     /\ ~ NothingNew(u.aliases)
     /\ \E a \in KnownClasses(u.aliases) \cup u.aliases : Score[a] = NoScore

\* The canonical identifier of the new class is looked up right after the class
\* is stored, and max() asks every member for its score.
Raises(u) ==
  /\ u.type = "clock_alias"
  /\ ~ NothingNew(u.aliases)
  /\ \E a \in KnownClasses(u.aliases) \cup u.aliases : Score[a] = NoScore

\* nx.relabel_nodes with every member of a class mapped to one identifier.
Relabel(all, canon, c) == IF c \in all THEN canon ELSE c

RelabelLink(all, canon, l) ==
  [l EXCEPT !.src = Relabel(all, canon, l.src),
            !.dst = Relabel(all, canon, l.dst)]

SameSlot(l, m) == <<l.src, l.dst, l.key>> = <<m.src, m.dst, m.key>>

\* Mutant: the self-loops of the merged node stay.
RelabelledWithLoops(all, canon, kept) ==
  {IF l \in kept THEN RelabelLink(all, canon, l)
   ELSE [RelabelLink(all, canon, l) EXCEPT !.key = Renumbered] : l \in links}

\* Mutant: of the links that collide one is kept, the others are overwritten.
RelabelledOverwriting(all, canon, kept) ==
  {l \in {RelabelLink(all, canon, k) : k \in kept} :
     ~(l.src = canon /\ l.dst = canon)}

\* The links after a relabelling: those in "kept" keep their key, one for each
\* slot, the others are renumbered.  Self-loops of the merged node are removed
\* afterwards.
RelabelledLinks(all, canon, kept) ==
  {l \in {IF l \in kept THEN RelabelLink(all, canon, l)
          ELSE [RelabelLink(all, canon, l) EXCEPT !.key = Renumbered]
          : l \in links} : ~(l.src = canon /\ l.dst = canon)}

OneKeptPerSlot(all, canon, kept) ==
  \A l \in links : \E k \in kept :
    /\ SameSlot(RelabelLink(all, canon, l), RelabelLink(all, canon, k))
    /\ \A m \in kept :
         SameSlot(RelabelLink(all, canon, l), RelabelLink(all, canon, m))
           => m = k

\* The self-reported states the merged node may be left with: the node data
\* that networkx copies last wins, and that is the empty data of the canonical
\* node if the merge had to create it.
MergedSelfStates(all, canon) ==
  IF canon \in nodes THEN {selfState[n] : n \in all \cap nodes}
                     ELSE {NoState}

\* Mutant: the ports keep the names they had before the merge.
PortIdsNotRenamed(all, canon, known) ==
  [c \in ClockId |->
     IF c = canon THEN UNION {portIds[n] : n \in all}
     ELSE IF c \in all THEN {} ELSE portIds[c]]

\* Mutant: only the ports of the canonical node are kept.
PortIdsOfCanonical(all, canon, known) ==
  [c \in ClockId |->
     IF c \in all /\ c # canon THEN {}
     ELSE {CanonPortIn(known, p) : p \in portIds[c]}]

\* combined_port_ids, and the final pass over the port_ids of all nodes.
MergedPortIds(all, canon, known) ==
  [c \in ClockId |->
     IF c = canon
       THEN {CanonPortIn(known, p) : p \in UNION {portIds[n] : n \in all}}
       ELSE IF c \in all THEN {}
                         ELSE {CanonPortIn(known, p) : p \in portIds[c]}]

\* The class "all" becomes one node.  Every port state is lost: the loop that
\* should move them to their new canonical port iterates over a live view of
\* the dictionary that was just cleared.
Merge(all) ==
  LET canon == MostReadable(all)
      known == [c \in ClockId |-> IF c \in all THEN all ELSE aliases[c]]
  IN  /\ aliases' = known
      /\ nodes' = {Relabel(all, canon, n) : n \in nodes} \cup {canon}
      /\ \E kept \in SUBSET links :
           /\ OneKeptPerSlot(all, canon, kept)
           /\ links' = RelabelledLinks(all, canon, kept)
      /\ portIds' = MergedPortIds(all, canon, known)
      /\ portState' = [p \in Port |-> NoState]
      /\ \E s \in MergedSelfStates(all, canon) :
           selfState' = [c \in ClockId |->
                           IF c = canon THEN s
                           ELSE IF c \in all THEN NoState ELSE selfState[c]]
      /\ refNodes' = {Relabel(all, canon, n) : n \in refNodes}
      /\ refLinks' = {<<Relabel(all, canon, e[1]), Relabel(all, canon, e[2])>>
                      : e \in refLinks}

UpdateClockAliases(u) ==
  /\ u.type = "clock_alias"
  /\ ~ NothingNew(u.aliases)
  /\ ~ Raises(u)
  /\ Merge(KnownClasses(u.aliases) \cup u.aliases)

\* The early returns of the handlers and the handlers that do nothing.
Ignore(u) ==
  /\ \/ u.type \in {"status", "unset"}
     \/ u.type \in {"clock_master", "ptp_parent", "self_reported"}
          /\ u.clock = NoClock
     \/ u.type = "phc2sys" /\ u.dst = NoClock
     \/ u.type = "clock_diff" /\ NoClock \in {u.src, u.dst}
     \/ u.type = "self_reported" /\ u.state = Invalid
     \/ u.type = "port_state" /\ u.port.port = 0
     \/ u.type = "clock_alias" /\ NothingNew(u.aliases)
  /\ UNCHANGED vars

------------------------------------------------------------------------------
Init ==
  /\ aliases = [c \in ClockId |-> {}]
  /\ nodes = {}
  /\ links = {}
  /\ portIds = [c \in ClockId |-> {}]
  /\ portState = [p \in Port |-> NoState]
  /\ selfState = [c \in ClockId |-> NoState]
  /\ refNodes = RefClocks
  /\ refLinks = RefEdges

\* SyncGraph.update
Update(u) ==
  \/ UpdateClockAliases(u)
  \/ UpdateClockMaster(u)
  \/ RemovePtpLink(u)
  \/ CreatePtpLink(u)
  \/ UpdatePtpPortState(u)
  \/ HandleClockDiffMeasurement(u)
  \/ UpdatePhc2SysLinkState(u)
  \/ UpdateSelfReportedClockState(u)
  \/ Ignore(u)

Next == \E u \in Updates : Update(u)

Spec == Init /\ [][Next]_vars

------------------------------------------------------------------------------
(* Properties. *)

\* Every variable has its type.
TypeOK ==
  /\ aliases \in [ClockId -> SUBSET ClockId]
  /\ nodes \subseteq ClockId
  /\ links \subseteq Link
  /\ portIds \in [ClockId -> SUBSET Port]
  /\ portState \in [Port -> State \cup {NoState}]
  /\ selfState \in [ClockId -> State \cup {NoState}]
  /\ refNodes \subseteq ClockId
  /\ refLinks \subseteq ClockId \X ClockId

\* The alias classes partition the known identifiers: each identifier is in
\* its own class, and all members of a class agree on it.  get_canonical_clock_id
\* gives one answer for every name of a clock only if this holds.
AliasClasses ==
  \A a \in ClockId : /\ aliases[a] # {} => a \in aliases[a]
                     /\ \A b \in aliases[a] : aliases[b] = aliases[a]

\* Nothing in the graph goes by a name that a merge has retired: clocks, the
\* ends of links, ports, port states, self-reported states and the reference
\* graph all use the current canonical identifiers, and all of them belong to
\* clocks that are in the graph.
OnlyCanonicalNames ==
  /\ \A c \in nodes \cup refNodes : Canon(c) = c
  /\ \A l \in links : l.src \in nodes /\ l.dst \in nodes
  /\ \A c \in ClockId : \A p \in portIds[c] : c \in nodes /\ p.clock = c
  /\ \A p \in Port : portState[p] # NoState => p \in portIds[p.clock]
  /\ \A c \in ClockId : selfState[c] # NoState => c \in nodes
  /\ refLinks \subseteq refNodes \X refNodes

\* No clock is ever linked to itself, under whichever names the updates gave
\* its two ends and however its aliases became known.
NoSelfLoops == \A l \in links : l.src # l.dst

\* The parent port stored on a ptp_parent link, which is not renamed by a
\* merge, still resolves to a port of the link's source: diagnose_link looks
\* its state up by that port.
ParentPortResolves ==
  \A l \in links :
    l.kind = "ptp_parent" => /\ l.meta \in Port
                             /\ CanonPort(l.meta) \in portIds[l.src]

\* A name that leads to a clock of the graph always will, and so will each
\* port of that clock: no update, and no merge of aliases, loses either.
ClocksAndPortsStay ==
  [][\A c \in ClockId : Canon(c) \in nodes =>
       /\ Canon(c)' \in nodes'
       /\ \A p \in portIds[Canon(c)] :
            CanonPortIn(aliases', p) \in portIds'[Canon(c)']]_vars

\* Whether a link of the state before the step is there after it.  A merge may
\* rename its ends and renumber it, but keeps its kind and data.
Survives(l) ==
  \E m \in links' :
    /\ m.src = CanonIn(aliases', l.src)
    /\ m.dst = CanonIn(aliases', l.dst)
    /\ m.kind = l.kind
    /\ aliases' # aliases => m.meta = l.meta

\* A link of the graph disappears only in two ways: a merge made both its ends
\* one clock, or it was removed together with every other link of one kind into
\* one clock.  No other link is affected by such a removal.
LinksSurvive ==
  [][\E k \in Kinds, d \in ClockId : \A l \in links :
       \/ Survives(l)
       \/ IF aliases' = aliases
            THEN /\ l.key = k
                 /\ l.dst = d
                 /\ \A m \in links' : ~(m.dst = d /\ m.key = k)
            ELSE CanonIn(aliases', l.src) = CanonIn(aliases', l.dst)]_vars

\* What the documentation of get_links says: at most one link of each kind
\* from one clock to another.
AtMostOneOfEachKind ==
  \A l, m \in links :
    <<l.src, l.dst, l.kind>> = <<m.src, m.dst, m.kind>> => l = m

\* What the documentation of update_clock_aliases says: all port references
\* are merged.  The state of a port that was known is known after any update.
PortStatesSurvive ==
  [][\A p \in Port : portState[p] # NoState
       => portState'[CanonPortIn(aliases', p)] # NoState]_vars
==============================================================================
