------------------------------ MODULE DiagMaster ------------------------------
(***************************************************************************)
(* The diagnostic master: GraphUpdates arrive from the workers and are     *)
(* queued with their receive time (TimedGraphUpdateQueue).  A timer        *)
(* periodically builds a fresh SyncGraph from the updates that have not    *)
(* expired, after sorting them and aggregating the measurements            *)
(* (aggregate_clock_diff_measurements), and diagnoses it.                  *)
(*                                                                         *)
(* Time is discrete: an entry of the queue carries its age, in ticks.  The *)
(* executor is single-threaded, so nothing is received while a graph is    *)
(* built; the build is one step per update, and takes less than a tick.    *)
(* Nothing catches what an update raises: the process ends, with the queue *)
(* and the graph, and systemd starts a new one.                            *)
(***************************************************************************)
EXTENDS SyncGraph, Sequences, FiniteSets

CONSTANTS
  Sent,      \* the updates that the workers send
  Period,    \* period of the diagnostic timer (1 s)
  Expiry,    \* update_expiry, the timeout of the queue (2 s by default)
  MaxQueue   \* bound: entries in the queue

ASSUME TimeAssumption == Period \in Nat \ {0} /\ Expiry \in Nat \ {0}
\* An offset is an integer, and so is the truncated mean of two.
ASSUME ReadingAssumption ==
  /\ Reading \subseteq Int
  /\ \A a, b \in Reading : a..b \subseteq Reading
\* What is applied to the graph: what was sent, and aggregated measurements.
ASSUME SentAssumption ==
  /\ Sent \subseteq Updates
  /\ \A u \in Sent : u.type = "clock_diff" =>
       \A r \in Reading : [u EXCEPT !.meta = r] \in Updates

VARIABLES
  queue,   \* _graph_updates; "seen" records that a build used the entry
  phase,   \* "idle", "build" while on_diagnostic_timer runs, or "down"
  todo,    \* updates that the running build has not applied yet
  elapsed  \* ticks since the timer last fired

dvars == <<vars, queue, phase, todo, elapsed>>

\* The kinds of updates, the fields of GraphUpdate's oneof.
Types == {"clock_alias", "clock_master", "ptp_parent", "port_state",
          "clock_diff", "phc2sys", "self_reported", "status", "unset"}

Stamped == [u : Sent, age : 0..Expiry, seen : BOOLEAN]

------------------------------------------------------------------------------
(* A comprehension over a list keeps some of its elements, in their order.     *)

\* The k-th smallest element of a set of integers.
Nth(I, k) == CHOOSE i \in I : Cardinality({j \in I : j <= i}) = k

\* The elements of a sequence at the indices of I.
Picked(s, I) == [k \in 1..Cardinality(I) |-> s[Nth(I, k)]]

\* The updates of some types.
OfTypes(us, types) == Picked(us, {i \in DOMAIN us : us[i].type \in types})

------------------------------------------------------------------------------
(* TimedGraphUpdateQueue *)

\* Mutants: an update expires a tick too late, or too early.
NotOlder(q) == Picked(q, {i \in DOMAIN q : q[i].age <= Expiry})
Younger(q) == Picked(q, {i \in DOMAIN q : q[i].age + 1 < Expiry})

\* _drop_expired_updates keeps receive_timestamp > now - timeout.
Unexpired(q) == Picked(q, {i \in DOMAIN q : q[i].age < Expiry})

\* Mutants: the updates are applied in the order of arrival, or the aliases last.
ByArrival(us) == us
AliasesLast(us) ==
  OfTypes(us, Types \ {"clock_alias"}) \o OfTypes(us, {"clock_alias"})

\* updates: sorted by get_type_precedence; the sort is stable.
ByPrecedence(us) ==
  OfTypes(us, {"clock_alias"})
    \o OfTypes(us, {"ptp_parent"})
    \o OfTypes(us, Types \ {"clock_alias", "ptp_parent"})

Contents(q) == [i \in DOMAIN q |-> q[i].u]

------------------------------------------------------------------------------
(* aggregate_clock_diff_measurements *)

\* The k-th smallest of finitely many integers, given by a function.
KthSmallest(f, k) ==
  CHOOSE v \in {f[i] : i \in DOMAIN f} :
    /\ Cardinality({i \in DOMAIN f : f[i] < v}) < k
    /\ k <= Cardinality({i \in DOMAIN f : f[i] <= v})

\* int() truncates towards zero.
HalfOf(n) == IF n >= 0 THEN n \div 2 ELSE -((-n) \div 2)

Median(f) ==
  LET size == Cardinality(DOMAIN f)
  IN  IF size % 2 = 1 THEN KthSmallest(f, (size + 1) \div 2)
      ELSE HalfOf(KthSmallest(f, size \div 2)
                    + KthSmallest(f, size \div 2 + 1))

SamePair(m, n) == m.src = n.src /\ m.dst = n.dst

\* Where the groups of measurements begin: each is named by a pair of
\* identifiers.
Firsts(us) ==
  {i \in DOMAIN us :
     /\ us[i].type = "clock_diff"
     /\ \A h \in 1..(i - 1) :
          us[h].type = "clock_diff" => ~SamePair(us[h], us[i])}

\* Mutant: the first measurement of each group instead of the median.
FirstsOf(us) == Picked(us, Firsts(us))

\* The offsets of the group of a measurement.
Diffs(us, m) ==
  [i \in {j \in DOMAIN us : us[j].type = "clock_diff" /\ SamePair(us[j], m)}
     |-> us[i].meta]

\* Each group is replaced by its median, in the order in which the groups first
\* occur.
MediansOf(us) ==
  Picked([i \in Firsts(us) |-> [us[i] EXCEPT !.meta = Median(Diffs(us, us[i]))]],
         Firsts(us))

Aggregated(us) == OfTypes(us, Types \ {"clock_diff"}) \o MediansOf(us)

------------------------------------------------------------------------------
(* DiagMaster *)

\* on_graph_update, which calls TimedGraphUpdateQueue.push.
OnGraphUpdate(u) ==
  /\ phase = "idle"
  /\ Len(Unexpired(queue)) < MaxQueue
  /\ queue' = Append(Unexpired(queue), [u |-> u, age |-> 0, seen |-> FALSE])
  /\ UNCHANGED <<vars, phase, todo, elapsed>>

\* Mutant: the builds share one graph.
SharedGraph == UNCHANGED vars

\* The graph that _sync_graph_factory creates.
FreshGraph ==
  /\ aliases' = [c \in ClockId |-> {}]
  /\ nodes' = {}
  /\ links' = {}
  /\ portIds' = [c \in ClockId |-> {}]
  /\ portState' = [p \in Port |-> NoState]
  /\ selfState' = [c \in ClockId |-> NoState]
  /\ refNodes' = RefClocks
  /\ refLinks' = RefEdges

\* on_diagnostic_timer reads the property sync_graph: a fresh graph, to which
\* the aggregated updates of the queue will be applied.
OnDiagnosticTimer ==
  /\ phase = "idle"
  /\ elapsed >= Period
  /\ queue' = Unexpired([i \in DOMAIN queue |-> [queue[i] EXCEPT !.seen = TRUE]])
  /\ \E updates \in {ByPrecedence(Contents(queue'))} :
       todo' = Aggregated(updates)
  /\ FreshGraph
  /\ phase' = "build"
  /\ elapsed' = 0

\* One iteration of the loop that applies the updates.
ApplyUpdate ==
  /\ phase = "build"
  /\ todo # <<>>
  /\ Update(Head(todo))
  /\ todo' = Tail(todo)
  /\ UNCHANGED <<queue, phase, elapsed>>

\* An update raises out of the timer's callback, of spin and of main.
UpdateRaises ==
  /\ phase = "build"
  /\ todo # <<>>
  /\ Raises(Head(todo))
  /\ FreshGraph
  /\ phase' = "down"
  /\ queue' = <<>>
  /\ todo' = <<>>
  /\ elapsed' = 0

\* Restart=always.  What the workers sent in the meantime reached nobody.
Restart ==
  /\ phase = "down"
  /\ phase' = "idle"
  /\ UNCHANGED <<vars, queue, todo, elapsed>>

\* The rest of on_diagnostic_timer reads the finished graph, which is dropped
\* when the callback returns.
Diagnose ==
  /\ phase = "build"
  /\ todo = <<>>
  /\ FreshGraph
  /\ phase' = "idle"
  /\ UNCHANGED <<queue, todo, elapsed>>

\* Mutant: time passes although the timer is due.
TimePassesFreely ==
  /\ phase = "idle"
  /\ elapsed' = elapsed + 1
  /\ queue' = [i \in DOMAIN queue |->
                 [queue[i] EXCEPT !.age = IF @ < Expiry THEN @ + 1 ELSE @]]
  /\ UNCHANGED <<vars, phase, todo>>

\* The timer fires as soon as it is due, unless the executor is busy.
TimePasses ==
  /\ phase = "idle"
  /\ elapsed < Period
  /\ elapsed' = elapsed + 1
  /\ queue' = [i \in DOMAIN queue |->
                 [queue[i] EXCEPT !.age = IF @ < Expiry THEN @ + 1 ELSE @]]
  /\ UNCHANGED <<vars, phase, todo>>

DInit ==
  /\ Init
  /\ queue = <<>>
  /\ phase = "idle"
  /\ todo = <<>>
  /\ elapsed = 0

DNext ==
  \/ \E u \in Sent : OnGraphUpdate(u)
  \/ OnDiagnosticTimer
  \/ ApplyUpdate
  \/ UpdateRaises
  \/ Restart
  \/ Diagnose
  \/ TimePasses

\* The executor keeps running its callbacks, systemd restarts the process, and
\* time passes.  Nothing obliges the workers to send anything.
Fairness ==
  /\ WF_dvars(OnDiagnosticTimer)
  /\ WF_dvars(ApplyUpdate)
  /\ WF_dvars(UpdateRaises)
  /\ WF_dvars(Restart)
  /\ WF_dvars(Diagnose)
  /\ WF_dvars(TimePasses)

DSpec == DInit /\ [][DNext]_dvars /\ Fairness

------------------------------------------------------------------------------
(* What the updates of a window say, read without building a graph: the       *)
(* latest update about a thing decides, whatever order the kinds come in.     *)

Window == Contents(queue)
Built == phase = "build" /\ todo = <<>>

\* The latest update of the window that P holds of, as a set of at most one.
Latest(P(_)) ==
  {Window[i] : i \in {j \in DOMAIN Window :
     P(Window[j]) /\ \A n \in DOMAIN Window : n > j => ~P(Window[n])}}

\* The link of one kind that an update reports: set if it has a source, removed
\* if not.  A port 0 reports nothing.
Reports(u, kind) ==
  CASE kind = "master" -> u.type = "clock_master" /\ u.clock # NoClock
    [] kind = "phc2sys" -> u.type = "phc2sys" /\ u.dst # NoClock
    [] kind = "ptp_parent" ->
         /\ u.type = "ptp_parent"
         /\ u.clock # NoClock
         /\ u.parent # NoPort => u.parent.port # 0

Child(u) == IF u.type = "phc2sys" THEN u.dst ELSE u.clock

\* The reported parent, NoClock if the link is removed.
ParentOf(u) ==
  CASE u.type = "clock_master" -> u.master
    [] u.type = "phc2sys" -> u.src
    [] u.type = "ptp_parent" ->
         IF u.parent = NoPort THEN NoClock ELSE u.parent.clock

DataOf(u) == IF u.type = "ptp_parent" THEN CanonPort(u.parent)
                                    ELSE [offset |-> u.meta]

\* The clocks and the ports that an update brings to the graph.
ClocksOf(u) ==
  CASE u.type = "clock_alias" -> u.aliases
    [] u.type = "clock_master" ->
         IF u.clock = NoClock THEN {} ELSE {u.clock, u.master} \ {NoClock}
    [] u.type = "phc2sys" ->
         IF u.dst = NoClock THEN {} ELSE {u.dst, u.src} \ {NoClock}
    [] u.type = "clock_diff" ->
         IF NoClock \in {u.src, u.dst} THEN {} ELSE {u.src, u.dst}
    [] u.type = "ptp_parent" ->
         IF u.clock = NoClock THEN {}
         ELSE IF u.parent = NoPort \/ ~Reports(u, "ptp_parent") THEN {u.clock}
         ELSE {u.clock, u.parent.clock}
    [] u.type = "port_state" -> IF u.port.port = 0 THEN {} ELSE {u.port.clock}
    [] u.type = "self_reported" ->
         IF u.state = Invalid THEN {} ELSE {u.clock} \ {NoClock}
    [] OTHER -> {}

PortsOf(u) ==
  CASE u.type = "port_state" -> {u.port}
    [] u.type = "ptp_parent" ->
         IF u.clock = NoClock THEN {} ELSE {u.parent} \ {NoPort}
    [] OTHER -> {}

------------------------------------------------------------------------------
(* Properties. *)

\* Every variable has its type.
DTypeOK ==
  /\ TypeOK
  /\ queue \in Seq(Stamped)
  /\ phase \in {"idle", "build", "down"}
  /\ todo \in Seq(Updates)
  /\ elapsed \in 0..Period

\* A finished graph has a master, phc2sys or PTP link from a to b exactly if
\* an update of the window reports it and no later one removes the links into
\* b, and it carries the data of the latest report; a and b are compared by
\* their canonical names.  Sorting the updates by kind changes none of this,
\* and sorting the aliases first is what makes it hold.
LinksAreLatest ==
  Built => \A a, b \in ClockId, k \in Kinds \ {"measurement"} :
    LET about(u) == /\ Reports(u, k)
                    /\ Canon(Child(u)) = b
                    /\ ParentOf(u) # NoClock => Canon(ParentOf(u)) = a
        last == {u \in Latest(about) : ParentOf(u) # NoClock /\ a # b}
    IN  {<<l.key, l.meta>> : l \in {m \in links :
           m.src = a /\ m.dst = b /\ m.kind = k}}
          = {<<k, DataOf(u)>> : u \in last}

\* A finished graph has a measurement from a to b exactly if the window has one
\* under some names of a and b, and its offset is the median of all that use
\* the same names.
MeasurementsAreMedians ==
  Built => \A a, b \in nodes :
    LET found == {m \in links :
                    m.src = a /\ m.dst = b /\ m.kind = "measurement"}
        of(c, d) == {i \in DOMAIN Window : /\ Window[i].type = "clock_diff"
                                           /\ Window[i].src = c
                                           /\ Window[i].dst = d}
        names == {n \in ClockId \X ClockId :
                    /\ Canon(n[1]) = a /\ Canon(n[2]) = b /\ a # b
                    /\ of(n[1], n[2]) # {}}
        below(n, r) == Cardinality({i \in of(n[1], n[2]) : Window[i].meta < r})
        above(n, r) == Cardinality({i \in of(n[1], n[2]) : Window[i].meta > r})
    IN  /\ names = {} <=> found = {}
        /\ Cardinality(found) <= 1
        /\ \A m \in found : \E n \in names :
             /\ 2 * below(n, m.meta.offset) <= Cardinality(of(n[1], n[2]))
             /\ 2 * above(n, m.meta.offset) <= Cardinality(of(n[1], n[2]))

\* A finished graph has exactly the clocks and ports that the window mentions,
\* each under its canonical name, and for each the latest state reported under
\* any of its names.  No state is lost to an alias.
StatesAreLatest ==
  Built =>
    /\ nodes = {Canon(c) : c \in UNION {ClocksOf(Window[i]) : i \in DOMAIN Window}}
    /\ \A c \in ClockId : portIds[c] =
         {q \in {CanonPort(p) :
                   p \in {r \in UNION {PortsOf(Window[i]) : i \in DOMAIN Window} :
                            r.port # 0}} : q.clock = c}
    /\ \A p \in Port :
         LET about(u) == u.type = "port_state" /\ CanonPort(u.port) = p
         IN  IF p.port = 0 \/ Latest(about) = {} THEN portState[p] = NoState
             ELSE \E u \in Latest(about) : portState[p] = u.state
    /\ \A c \in ClockId :
         LET about(u) == /\ u.type = "self_reported"
                         /\ u.clock # NoClock
                         /\ u.state # Invalid
                         /\ Canon(u.clock) = c
         IN  IF Latest(about) = {} THEN selfState[c] = NoState
             ELSE \E u \in Latest(about) : selfState[c] = u.state

\* Every received update is used by a build before it expires, and a build uses
\* no expired one: the expiry is long enough for the period of the timer.
UsedBeforeExpiry ==
  /\ \A i \in DOMAIN queue : queue[i].age = Expiry => queue[i].seen
  /\ phase = "build" => \A i \in DOMAIN queue : queue[i].age < Expiry

\* While the process lives the queue loses no update that has not expired, and
\* keeps the order in which they arrived.
UnexpiredStay ==
  [][phase' # "down" =>
       \A i, j \in {h \in DOMAIN queue : queue[h].age < Expiry} : i <= j =>
         \E m, n \in DOMAIN queue' :
           /\ i < j => m < n
           /\ queue'[m].u = queue[i].u
           /\ queue'[n].u = queue[j].u]_dvars

\* An alias update that names a clock without giving it an identifier.
Nameless(u) ==
  u.type = "clock_alias" /\ \E a \in u.aliases : Score[a] = NoScore

\* A nameless alias update ends the master, and with one in every window none
\* of its builds would finish.  Once they cease the diagnostics recover: builds
\* finish again and again, whatever else is received, be it incomplete, out of
\* order or with nothing set.
DiagnosticsGoOn ==
  <>[](\A i \in DOMAIN queue : ~ Nameless(queue[i].u))
    => []<>Built /\ []<>(phase = "idle")

\* What the documentation of update_clock_aliases says: the nodes of all aliases
\* of an update are merged into one.
AliasesOfAnUpdateMerged ==
  Built => \A i \in DOMAIN Window : Window[i].type = "clock_alias" =>
    \A a, b \in Window[i].aliases : Canon(a) = Canon(b)

\* What the documentation of DiagMaster says: newer updates overwrite older ones
\* for the same entities.  A clock has only the master last reported for it.
NewestMasterOnly ==
  Built => \A c \in nodes :
    LET about(u) == Reports(u, "master") /\ Canon(u.clock) = c
    IN  \A l \in links : l.kind = "master" /\ l.dst = c =>
          \E u \in Latest(about) :
            u.master # NoClock /\ l.src = Canon(u.master)
==============================================================================
