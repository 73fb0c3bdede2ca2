# Verification of sync_tooling

TLA+ models, TLC runs and TLAPS proofs for `sync_tooling`, which observes how the clocks of a vehicle's computers and
sensors are synchronised (PTP and phc2sys) and publishes diagnostics about it.

Contents: [1 the system](#1-the-system), [2 the modules](#2-the-modules), [3 the runs](#3-the-runs),
[4 fairness](#4-fairness), [5 the proofs](#5-the-proofs), [6 findings](#6-findings),
[7 what is not modelled](#7-what-is-not-modelled), [8 plan](#8-plan).

All source paths are relative to the repository; `sync_graph/…/x.py` is short for `sync_graph/src/sync_graph/x.py`.

## 1. The system

On every host a **diagnostic worker** polls one monitor per systemd unit (`ptp4l@…`, `phc2sys@…`). A monitor reads the
systemd journal of its unit, finds out how the running process is configured and, for ptp4l, queries the process with
`pmc`. What it learns is sent as `GraphUpdate` messages on a ROS 2 topic. One **diagnostic master** keeps the updates of
the last two seconds, builds a fresh **synchronization graph** from them once per second, and publishes a diagnosis of
every clock of the configured reference graph.

```
 ptp4l, phc2sys --journal--> journal monitor --> unit state machine --+
      ^                                                               +--> GraphUpdate --ROS 2--> queue --1 Hz--> SyncGraph
      +---------- query / answer ---- pmc <------ PmcMonitor ---------+                                               |
                                                                                          /diagnostics <-- diagnoses
```

### Inventory

| Component (code) | State | Operations | Interacts with | What is hard | What makes it correct |
|---|---|---|---|---|---|
| SyncGraph (`sync_graph/…/sync_graph.py`) | alias classes, clocks, links by kind, ports and their states, self-reported states, the reference graph | one handler per `GraphUpdate`; `get_*` queries; `diagnose_*` | called by the master, read by the adapters | updates arrive in any order, names are merged after they were used; networkx resolves collisions by itself | one name per clock everywhere, no clock linked to itself, nothing lost |
| Graph diagnoses (same file) | none | health, reference adherence, port, link and clock diagnoses | read by the ROS 2 adapter | cycles, missing clocks, several paths, exceptions | no upstream fault is hidden; "all OK" means synchronised; always published |
| TimedGraphUpdateQueue (`timed_graph_update_queue.py`) | updates with receive time | `push`, `updates` | callback of the topic, diagnostic timer | expiry at the boundary, stable re-sort by kind | every update is used before it expires; the order that matters is kept |
| Measurement aggregation (`update_aggregator.py`) | none | `aggregate_clock_diff_measurements` | between queue and graph | even group sizes, truncation, several names of one clock | the result is a median of what was measured |
| Diagnostic master (`diag_master/…/main.py`) | queue, timer | `on_graph_update`, `on_diagnostic_timer` | executor of ROS 2 | a build that raises would end diagnoses | builds go on; a graph says what its window says |
| ROS 2 diagnostics adapter (`ros2_diagnostics_adapter.py`) | publisher | `diagnose` | SyncGraph | one exception suppresses everything | something is published for every graph |
| Journal monitor (`journal_monitor/…`) | cursor, start-up window of 5 s | `poll` | `journalctl` | entries of earlier processes, entries read twice | each entry once, except after a restart |
| Unit state machine (`linuxptp_monitor/…/state_machine.py`) | state or `Uninitialized`, two callbacks | `consume`, `_parse`, `_try_initialize`, `_uninitialize` | journal entries, factory | the unit restarts between any two steps; an entry and the process that is asked for its configuration need not belong together | the state follows the running process |
| phc2sys monitor (`phc2sys_monitor_task.py`, `phc2sys_instance.py`) | last measurement of each destination | factory, parsing, updates | state machine | changes made in place, changes only are sent | receivers know what the monitor knows |
| ptp4l monitor (`ptp4l_monitor_task.py`, `ptp4l_instance.py`) | pmc monitor, domain, clock | callbacks, `poll`, updates of an instance | state machine, PmcMonitor | callbacks replace pmc while the worker is between steps | pmc, clock and state belong together |
| PmcMonitor (`pmc_monitor/…/pmc_monitor.py`, `ptp_instance.py`) | the pmc process and its output | `query_dataset`, `poll`, `stop` | pmc, which asks ptp4l | late, lost and mixed answers; pmc exits | what is reported ends up being what ptp4l says |
| Diagnostic worker (`diag_worker/…/main.py`, `monitor_task.py`) | monitors | `run`, `run_loop`, restart loop | all monitors of the host | one exception ends all monitors; the constructor is outside the `try` | every clock that is measured ends up in every graph, and no other |
| pmc parser and protocol (`pmc_parser.py`, `pmc_protocol.py`) | none | `parse` | PmcMonitor | a field that does not parse leaves a data class without it (`TypeError`) | — |
| LinuxPTP configuration (`linuxptp_config.py`, `ethtool_harness.py`, `util.py`) | none | command line and file parsing, `ethtool` | factories | — | — |
| systemd utilities (`systemd_util.py`) | none | `systemctl show`, `/proc` | factories | the process may end in between | — |
| Reference graph files (`yaml.py`) | none | read a `clock_tree` | master | lone clocks, forests, a clock in two places: neither the schema nor the code excludes them | the graph is compared with what was configured |
| ROS 2 transport (`ros2_transport/…`) | publisher, subscription (depth 10) | `send`, callback | worker, master | loss, delay, order | a lost update is made up for by the next |
| SYNC.DOCTOR (`echarts_adapter.py`, `web_ui.py`) | last layout | `update` | SyncGraph | its caller has no `try`: an exception ends the master | shows every clock and link, and never raises |
| Deployment, docs, scripts (`ansible/`, `docs/`, `scripts/`) | none | — | — | — | — |
| sync_tooling_msgs, networkx, systemd, linuxptp | external | — | — | — | — |

The hazards of this code, each at its line and with the properties that address it, are listed in `PROJECT.json`. The
main ones:

- *Order.* Aliases may become known after links, ports and states were stored under several names of one clock.
- *Windows and ageing.* The master knows nothing but what it received in the last two seconds.
- *Restarts in between.* The unit, the worker and pmc stop and start independently. The worker joins information that it
  read at different times: a journal entry, the configuration of whichever process runs now, the answers of whichever
  process listens now.
- *Exceptions.* One exception ends all monitors of a host, or all diagnostics, or (from the web page) the master.
- *Time.* What is sent last outlives its process in the topic and the window; what is sent too rarely is missing from a graph.

## 2. The modules

| Module | Models | Uses |
|---|---|---|
| `SyncGraph` | the graph and every update handler | |
| `SyncGraphProofs` | theorems about it | `SyncGraph` |
| `DiagMaster` | queue, aggregation, timer, rebuild | `SyncGraph` |
| `DiagMasterProofs` | theorems about it | `DiagMaster`, `SyncGraphProofs` |
| `ReferenceGraph` | how a `clock_tree` becomes the reference graph | |
| `GraphDiagnosis` | the diagnoses and what is published, for a configured tree | `SyncGraph`, `ReferenceGraph` |
| `SyncDoctor` | what the web page shows, and what raises on the way | `GraphDiagnosis` |
| `GraphDiagnosisProofs` | theorems about the diagnoses and the web page | `SyncDoctor`, `SyncGraphProofs` |
| `UnitFollower` | *abstract*: what a monitor promises about its unit; with its theorem | |
| `UnitJournal` | a unit, systemd's messages, the journal, the journal monitor | |
| `UnitJournalProofs` | lemmas about journals, their types and invariant | `UnitJournal` |
| `UnitMonitor` | state machine, phc2sys task, worker restart; refines `UnitFollower` | `UnitJournal` |
| `UnitMonitorProofs` | theorems about it, the refinement included | `UnitMonitor`, `UnitJournalProofs` |
| `Ptp4lMonitor` | state machine, ptp4l task, pmc, answers of ptp4l; refines `UnitFollower` | `UnitJournal` |
| `Ptp4lMonitorProofs` | theorems about it, the refinement included | `Ptp4lMonitor`, `UnitJournalProofs` |
| `HostToMaster` | *composition*, in time: several units, the worker, the topic, the master's window | |
| `HostToMasterProofs` | theorems about it | `HostToMaster` |
| `MC…` | instances for TLC | the module of that name; `MCGraphDiagnosis`: `SyncDoctor` |

### SyncGraph

| Model | Code |
|---|---|
| `aliases` | `_known_aliases`, as the class of each identifier (`{}`: unknown) |
| `nodes`, `links` | nodes and edges of the `MultiDiGraph`; a link has a kind, the networkx key and the metadata that is read later |
| `portIds`, `portState` | the `port_ids` attribute of the nodes, `_ports` |
| `selfState` | the `self_reported_state` attribute |
| `refNodes`, `refLinks` | `reference_graph` |
| `UpdateClockMaster`, `UpdatePhc2SysLinkState`, `HandleClockDiffMeasurement`, `CreatePtpLink`/`RemovePtpLink`, `UpdatePtpPortState`, `UpdateSelfReportedClockState`, `UpdateClockAliases` | the handlers of the same names |
| `Ignore` | the early returns, and the handlers that do nothing (status messages, an update with nothing set) |

`UpdateClockAliases` is the interesting one. `Merge` contains its whole effect: classes, `nx.relabel_nodes` (with a new
integer key for links that collide, here `Renumbered`), the removal of self-loops, ports, port states, node data and the
reference graph. What depends on networkx's insertion order (which of colliding links keeps its key, whose node data
survives) is a free choice. The choice between equally
readable names (`MostReadable`) is arbitrary but the same for every member of a class: they share one set object, and `max`
takes the first of the best in its iteration order. Identifiers are abstract: a clock identifier is
an opaque value with a readability score; the PTP domain is part of a port's number.

A clock identifier that is present in a message but has none of the identifiers that the code knows has no score (`NoScore`): `readability_score`
raises `ValueError` when the class it joins is asked for its canonical name. `Raises(u)` says which updates do so, `UpdateClockAliases` is disabled for them, and
what happens next is the business of the caller. Such an alias in an update that brings nothing new is ignored like all others.

### DiagMaster

`queue` holds updates with their age in ticks; `OnGraphUpdate` is the topic's callback, `OnDiagnosticTimer` reads the
unexpired updates, sorts and aggregates them into `todo`, `ApplyUpdate` is one iteration of the loop over them (one
handler of `SyncGraph`), `Diagnose` is the moment at which the finished graph is read. The executor is single-threaded:
nothing is received during a build. `TimePasses` is a tick of 1 s; the timer has priority once it is due. The queue may
hold any updates in any order, so any delay or reordering by the network that lets an update arrive is covered.

`UpdateRaises` is an update that makes a handler raise (`Raises` of `SyncGraph`). Nothing catches it between the loop and `main`, so the process ends
(phase `"down"`) and with it the queue; `Restart` is systemd's. Updates that arrive in between reach nobody.

The properties compare the finished graph with what the *window* says, which is defined without building a graph: the
latest update about a thing decides.

### GraphDiagnosis

A diagnosis is a level: the aggregate of a `DiagTree`. `Raised` stands for an exception, after which the adapter publishes
nothing. The operators carry the names of the `diagnose_*` functions. `all_simple_paths`, `shortest_path`, `find_cycle`,
`ancestors`, `descendants` are defined over the links of the model. Properties are stated with other notions
than the code uses (reachability instead of counting clocks, links down the reference instead of filtered paths).

### ReferenceGraph, SyncDoctor

A `clock_tree`, nested dictionaries in the code, is the set of its paths; `ClockTreeToDigraph` is `clock_tree_to_digraph` with
its `_tree_to_edges`. A clock without a parent and without children has no edge and is dropped. `GInit` chooses one of the configured trees
and starts from its graph; what `SyncGraph` then does to the reference (renaming in a merge) is part of the same behaviour.

`SyncDoctor` is `sync_graph_to_echart_options` without texts and coordinates: `ShownClocks` and `ShownLinks`, the graph that twopi lays out
(`Layout`: the reference, and each rogue clock under its relative furthest down the reference), and `DoctorRaises`, the disjunction of everything on the way
that raises: the assertion that the reference is a tree (`nx.is_tree` itself raises for an empty graph), and the diagnoses of the clocks
and links.

### UnitJournal, UnitMonitor, Ptp4lMonitor

| Model | Code |
|---|---|
| `unit`, `runs` | the main process of the unit: what `systemctl show` and `/proc` give to the factory, and a run number that the code does not know |
| `stage` | which of "Started", "Stopping", "Stopped" systemd has logged; each is one `Notice` |
| `log`, `read`, `cursor` | the journal, how far it was read, whether `_previous_cursor` is set |
| `batch` | the entries of the poll that `consume` has not parsed yet |
| `PollJournal` | `ConsolePollingJournalMonitor.poll` |
| `Age` | entries get older than 5 s; unread ones do not while the worker polls each second |
| `phase` | where the worker is between its steps; `"down"` before construction and during back-off |
| `Construct` | `DiagWorker.__init__` and the constructors it calls |
| `Consume`, `EndPoll`/`EndConsume` | `SystemdUnitStateMachine.consume`, one entry at a time, and its end |
| `Raise`, `Crash` | an exception ends `asyncio.run`; another monitor of the host may be its cause |

`Consume` steps entry by entry because the factory asks for the process that runs *at that moment*: the unit may be
replaced in between. In `UnitMonitor` every measurement carries the run that wrote it, in `Ptp4lMonitor` every answer
carries the run that gave it. The code does not know the number; the properties use it to say whose data is kept.

`UnitMonitor`: `state` and `old` are `state_machine.state` and the copy that `consume` compares with; `told` is what was
last sent about each clock. A line without a delay raises (`RaiseInParse`).

`Ptp4lMonitor`: `pmc`, `clock` are set and reset by the callbacks `_create_pmc_monitor` and `_reset_pmc_monitor`;
`QueryDataset` writes one query, `asked` are the queries that ptp4l has not come to, `pipe` is what pmc has printed,
`ReportInstances` reads it and builds the updates (`UpdatesOf`, from `_handle_management_tlv` and
`pmc_to_graph_updates`: locality by the first answer, the last answer about a data set wins). ptp4l may `Elect` another
master at any time; `Elections` determines all four data sets.

`UnitFollower` is what both promise, without journal, state machine or polls: the monitor may take any time to notice a restart (`due`), but once it has, it
holds nothing of an earlier process and learns nothing of one. `INSTANCE UnitFollower WITH` maps `view` to the configuration in
`state`, `held` to the runs of the measurements (phc2sys) or of the answers in `pipe` (ptp4l), `due` to "a start or stop of the unit is still
to be logged or read". `FollowsUnit` is `Follows` of the abstract module under this mapping.

Abstractions: pmc prints whole messages (text that does not parse is a lost answer); the state parsed from ptp4l's lines
and its warnings are never sent or are ignored by the graph, so a line only matters because it initialises the state.

pmc asks in the domain of the configuration it was started for (`DomainOf`), and an answer carries the domain of the process that gave it. If the unit is
replaced by one of another domain while pmc waits, the assertion `domainNumber == domain_id` fails and the worker ends: `WrongDomain`, `RaiseWrongDomain`.
Whether ptp4l answers a query for another domain at all is up to ptp4l: with `AnyDomain = FALSE` it does not, and such a query is lost. The run takes `TRUE`, the harder case; the
proofs cover both. The updates that follow are compared without their domain, which is the one that was asserted.

### HostToMaster

| Model | Code |
|---|---|
| `process`, `runs`, `starting`, `measures` | the units: main process, number of starts, whether "Started" is still to be logged, the clocks whose offsets it logs |
| `notice`, `lines` | the unread part of each journal: whether it has a start or stop message, and the last line about each clock after it. What a process logged since the last read stays unread when it exits (`Exit`) or measures other clocks (`Measure`) |
| `up`, `wait` | `main`'s loop around `asyncio.run`, its back-off of 5 s, and systemd's restart of the worker |
| `view`, `known` | `state_machine.state` of each unit and its `dst_clock_states` |
| `round`, `pending` | `run_loop`: the tasks poll each second, in any order |
| `Poll`, `PollRaises` | `Phc2SysMonitorTask.poll`, as one step; the factory raises for a command line it cannot parse (`Rejected`) |
| `Construct`, `ConstructorRaises` | `DiagWorker.__init__`, outside of the `try` |
| `Raise` | what an exception does to all tasks |
| `net`, `Deliver` | the topic: updates under way, delivered in any order, lost (`lost` in `Poll`) |
| `age` | the window: the age of the newest update of each kind; `Expires` is `_drop_expired_updates` |
| `since`, `calm`, `faults` | ghosts: how long ago each unit changed, how long the worker has polled it without a fault, bound |

A poll, which `UnitMonitor` takes apart entry by entry, is one step here. That is how it looks to the other tasks of the worker:
nothing is awaited or yielded between reading the journal and the first update. The module is about what `UnitMonitor` cannot show:
that an exception of one unit ends the monitors of all, that what was sent last lives on in the topic and the window, and that a clock
is shown or missing by what arrives within the expiry. A tick is one second. Whatever is due in a tick happens in it, in any order, so a delay shorter than
a tick is a matter of order (`MaxDelay = 0`); longer delays are `MaxDelay > 0`.

Lines that were written while the worker was down are read by the next one, whose first poll goes back as far as it has backed off (5 s each). A unit may have fallen silent
in the meantime, so its last state may be sent that late: `OldestLine` is the age of the oldest line that a poll may read, and `Silenced`, a delivery and the expiry later, is when nothing
of a silent unit is left. A *replaced* process is gone earlier (`Settled`), because the "Started" of its successor makes the monitor forget what was logged before, and if nothing runs the factory returns no state to send it with.

phc2sys logs a line per clock and second, and the worker polls once per second. The two have no common clock: a poll may fall between two lines, finds
nothing new, and sends nothing. The model counts such a poll as missed (`fresh = FALSE`), a fault like a lost update. After one of them the gap is two
periods, which equals the default expiry of 2 s, so the clock can be missing from a graph: `HealthyIsShown` is stated for the time since the last fault (`calm`).

## 3. The runs

States are distinct states.

| Run | Question | Instance | States |
|---|---|---|---|
| `sync_graph` | Is the graph consistent in whichever order updates come? | two clocks with two names each, 28 updates of all kinds, an alias that joins the two clocks | 19,576 |
| `sync_graph_kinds` | *violation*: at most one link of each kind | the links only | |
| `sync_graph_port_states` | *violation*: port states are merged | as `sync_graph` | |
| `diag_master` | Does a graph say what its window says, and do builds go on? | 15 updates of all kinds under two names of a clock, one of them an alias without an identifier, which raises; queue of 3, period 1, expiry 2 | 129,231 |
| `diag_master_aliases` | *violation*: aliases of one update are merged | three overlapping alias updates | |
| `diag_master_masters` | *violation*: the newest master only | two masters of one clock | |
| `graph_diagnosis` | Do the diagnoses agree with what they are meant to say, is the reference what was configured, does the web page show everything? | every graph of four clocks from 14 updates (chains, two cycles, a bad offset, a bad port, a bad clock), eight configured trees (one clock, chains, a branch, a forest, a clock in two trees, a clock below two others), an alias that joins two clocks | 45,824 |
| `graph_diagnosis_cycle` | *violation*: only clocks on a cycle are affected | as above | |
| `unit_monitor` | Does the phc2sys monitor follow its unit, as `UnitFollower` says? | two configurations (other source, a name that one of them does not know), two runs, one crash or broken line, 2 journal entries | 1,198,578 |
| `unit_monitor_retransmits` | *violation*: every poll retransmits | as above | |
| `ptp4l_monitor` | Does the ptp4l monitor report what the running instance says, and follow its unit as `UnitFollower` says? | two configurations on two interfaces and in two PTP domains with one UDS address, two ports, two runs, one fault | 1,028,877 |
| `host_to_master` | Do all graphs of the master show the clocks that the units measure now, and no others? | two units, one of which measures two clocks and one may run a configuration that the worker rejects; period 1, expiry 2, back-off 2; three starts, one fault | 595,764 |

Properties:

- `SyncGraph`: `AliasClasses` (classes partition the names), `OnlyCanonicalNames` (nothing goes by a retired name),
  `NoSelfLoops`, `ParentPortResolves` (the port stored on a link, which is never renamed, still resolves),
  `ClocksAndPortsStay`, `LinksSurvive` (a link disappears only because its ends became one clock, or with all of its kind).
- `DiagMaster`: `LinksAreLatest`, `StatesAreLatest`, `MeasurementsAreMedians`, `AtMostOneOfEachKind`: links, states
  and measurements of a finished graph are those of the window. `UsedBeforeExpiry`, `UnexpiredStay`: no update is dropped
  unused or reordered by a master that lives. `DiagnosticsGoOn` (once no alias without an identifier is received any more, builds finish again and again, whatever else arrives).
- `GraphDiagnosis`: `HealthyIfWellFormed`, `AdherentIfDownTheReference`, `FaultsReachDownstream`,
  `AllOkMeansSynchronised`, `AlwaysPublished`, `ReferenceIsConfigured` (the reference is the configured tree, by current names).
  The first two are about references with one root (`OneRoot`), the second also with one parent for each clock (`OneParent`): of a clock that is nested in two
  others the code looks at one path in the reference only, and which one depends on the order of insertion. `OneParent` is about the reference as it is now, so merges
  of names within a tree are covered. `AlwaysPublished` and `DoctorShowsAll` say which configurations cannot make the code raise.
- `SyncDoctor`: `DoctorShowsAll` (for one tree of different clocks nothing raises, every clock and link is shown, and the layout is one tree).
- `UnitMonitor`: `FollowsUnit` (no configuration or measurement of a replaced process is kept unless a message that
  clears it is still unread), `ToldIsCurrent` (receivers know what the monitor knows), `Recovers`, `ImplementsFollower` (every step is a step of `UnitFollower` or stutters).
- `Ptp4lMonitor`: `PmcFollowsState` (the assertions of `pmc_to_graph_updates` that a domain and a clock are set hold; the third, that the domain is the instance's, may fail, see `RaiseWrongDomain`), `AnswersFollowUnit` (no answer of a
  replaced process is reported under another configuration unless it will be corrected), `ReportsConverge` (if the unit
  keeps running, polls end up reporting the truth), `ImplementsFollower`.
- `HostToMaster`: `NothingOutlivesItsProcess` (a poll, a delivery and the expiry after a unit changed, no graph has anything of an earlier process, whatever was
  lost and whenever the worker crashed), `SilenceIsNoticed` (a unit that measures nothing any more disappears, also if its last lines are read only after a back-off: its last state is not sent for ever),
  `HealthyIsShown` (while polls succeed, every measured clock is in every graph), `AllRecover` (if all units keep running under configurations that the
  worker accepts, all clocks end up in every graph), `OneRejectedSilencesAll` (one unit that logs under a rejected configuration
  keeps the units of the whole host out of every graph).

### Bounds and why they are enough

- `sync_graph`, `graph_diagnosis` have no bound on the length of the behaviours: the state space is finite. Two clocks with two names
  each are the smallest instance in which a merge makes links, ports, data and self-loops collide; a third clock
  comes in with `graph_diagnosis`, and four suffice for a cycle with a clock above and one below it, and for a
  path that skips a clock.
- `MaxQueue = 3`: the code treats a window pairwise (later overwrites earlier; two names of a pair; a median of two
  or three). One alias update and two updates that use either name of the clock is the window in which sorting aliases
  first matters. Overlapping alias updates are a run of their own: three of them lead to the finding. The updates of a
  window have all combinations of ages.
- `MaxRuns = 2`: the hazard is data of a process that was replaced; a third run repeats the situation.
- `MaxLog = 2` (phc2sys), `1` (ptp4l): a line is only written while the log is shorter; systemd's messages are never
  held back, so the log becomes longer. A line before and one after a message is the case that matters; for ptp4l
  the content of a line is irrelevant.
- `MaxFaults = 1`: each of the faults alone, at every possible moment. A crash leaves nothing of
  the monitor, so what comes after it is a first fault again; two different faults of pmc in one poll are not covered.
- `Ports = {1, 2}`: one port that can be a slave and one that never is, so one query has two answers.
- `host_to_master`: three starts (`MaxStarts`) shared by two units is the least with a restart of one unit while the other runs; `MaxRuns = 2`
  and `MaxFaults = 1` as above. `BackOff = 2` instead of 5: it is at least the expiry, so everything disappears before
  the worker starts again, as it does with 5, and longer than the period, so a starting worker may read older lines than a poll does. The back-off that matters comes
  from a rejected configuration, which takes no fault, so the one fault is left for a unit that falls silent during it. For the three invariants the proofs cover every
  period, back-off, delay and expiry with `Period + MaxDelay < Expiry` (`TimeAssumption`); TLC found them to hold with `MaxDelay` 1 and 2 and `Period = 2`, too.
- Trees: one clock, a chain of two, three and four, a branch, a forest, a clock in two trees, and a clock below two others of one tree.
- One UDS address: the configurations of one unit share it, as the installation guide recommends an address per unit
  (`docs/installation.md:50`). A unit that moves to another address is in the model but not in the instance.

## 4. Fairness

| Assumed (weak fairness) | Because |
|---|---|
| the executor runs due callbacks, `TimePasses` (`DiagMaster`) | `rclpy.spin`, single-threaded; no callback blocks |
| `Restart` (`DiagMaster`) | systemd restarts a master that ends (`Restart=always` in `diag-master.service.j2`) |
| the worker's steps | `run_loop` polls each second; after an exception `main` starts over, and systemd restarts a worker that ends (`Restart=always` in its unit) |
| `Age` | time passes |
| systemd logs "Started" | it does for every unit it starts; the journal keeps the order of events |
| the unit logs lines while it runs | phc2sys logs each offset; ptp4l logs its offset or port states. A grandmaster ptp4l that never logs after "Started" would leave the monitor uninitialised: this is an assumption on ptp4l, not on the code |
| `AnswerQuery` | ptp4l answers management messages while it runs |
| whatever is due in `HostToMaster`: `Tick`, "Started", `Deliver`, `Construct`, a poll, a constructor that raises; one condition for all of them | as above; the executor delivers what was not lost. `Tick` is disabled while anything else is due, so no order among them is assumed |

Nothing obliges units to start or stop, faults to happen, or (in `DiagMaster`) workers to send. Liveness is stated under "the unit keeps
running". Everything is weak fairness.

## 5. The proofs

`SyncGraphProofs`, for all sets of identifiers, scores, ports, readings, updates and reference graphs:

| Theorem | Says |
|---|---|
| `TypeCorrect` | `Spec => []TypeOK` |
| `AliasClassesPartition` | `Spec => []AliasClasses` |
| `NoClockSyncsToItself` | `Spec => []NoSelfLoops` |
| `GraphUsesCanonicalNames` | `Spec => []OnlyCanonicalNames` |
| `ParentPortsResolve` | `Spec => []ParentPortResolves` |
| `ClocksAndPortsAreKept` | `Spec => ClocksAndPortsStay` |
| `LinksAreKept` | `Spec => LinksSurvive` |

Assumptions: those of `SyncGraph` (`ScoreAssumption`, `PortAssumption`, `UnsetAssumption`, `UpdatesAssumption`,
`ReferenceAssumption`). Nothing is assumed to be finite, except that a score is one of 0..4 (or `NoScore`), which makes a most readable
name exist (lemma `MostReadableInClass`, from which `Canon` inherits that it stays within a class).

*Argument.* `AliasClasses` and `NoSelfLoops` are inductive with `TypeOK`. `OnlyCanonicalNames` and `ParentPortResolves` are not
inductive alone: that a port of a link resolves needs that the ports are filed under canonical names, and that renaming keeps
them apart needs that classes are disjoint. The inductive invariant is `NameInv`, their conjunction with `TypeOK` and
`AliasClasses`. The step of `Merge` follows from what merging does to names: names of the merged class lead to
its new canonical name, all others lead to where they led before. Each handler has its own step. `ClocksAndPortsStay`, an action
property, follows from `NameInv` before the step.

`LinksAreKept` needs one more invariant, `KeysOfKinds`: a link that has the networkx key of a kind is of that kind. Without it `add_edge` might replace a
link of one kind by one of another. Each handler then loses no link or all of one kind (`UpdateLosesAKind`), and a merge only those whose ends it joins
(`MergeLosesLoops`).

`UnitFollower`, `UnitJournalProofs`, `UnitMonitorProofs`, `Ptp4lMonitorProofs`, for any configurations, clocks, ports, elections, and any numbers of runs, journal entries and faults:

| Theorem | Says |
|---|---|
| `FollowerFollows` | `UnitFollower`: `Spec => []Follows` |
| `MonitorTypeCorrect`, `Ptp4lTypeCorrect` | `Spec => []UTypeOK`, `Spec => []PTypeOK` |
| `MonitorImplementsFollower`, `Ptp4lImplementsFollower` | `Spec => ImplementsFollower` |
| `MonitorFollowsUnit` | `Spec => []FollowsUnit`, by `FollowerFollows` through the refinement |
| `ToldIsAlwaysCurrent` | `Spec => []ToldIsCurrent`: although only changes are sent, the receivers know what the monitor knows |
| `AnswersAlwaysFollow` | `Spec => []AnswersFollowUnit` |
| `PmcAlwaysFollowsState` | `Spec => []PmcFollowsState`: the assertions of `pmc_to_graph_updates` that a domain and a clock are set never fail, however the unit restarts |

*Argument.* `FollowsUnit` is not inductive: that data of a replaced process is cleared in time depends on where in the journal the messages are. `JournalInv`
says it: no line is of a run that has not started (`Written`), and a line of another run than the last one is followed by a start or stop message that the
monitor still has to come to (`Noticed`). It is inductive because a process is announced before it can be replaced. The refinement is proved from it: a step of the monitor is `Observe`, `Learn`, `StartOver` or a stutter of `UnitFollower`, a
step of the unit `Start`, `Exit` or `Announce`. For ptp4l `PmcInv` relates the state to the three fields that the callbacks set
(a process has a configuration, so what the factory returns is never taken for an uninitialised state, `NoneAssumption`;
a worker that is down has no state), `AskingInv` adds that pmc exists while it is asked, and `AnswerInv` that without a state no query and no answer is under way.
`ToldInv` says that during a poll the receivers know what consume's copy of the state says; lemma `SameUpdates`, that states in which the comparison finds no
difference lead to the same updates, closes the step that ends the poll.

`HostToMasterProofs`, for any units, clocks, configurations and starts, and any times with `Period + MaxDelay < Expiry`:

| Theorem | Says |
|---|---|
| `HostTypeCorrect` | `Spec => []HTypeOK` |
| `NothingOutlives` | `Spec => []NothingOutlivesItsProcess` |
| `SilenceAlwaysNoticed` | `Spec => []SilenceIsNoticed` |
| `HealthyAlwaysShown` | `Spec => []HealthyIsShown` |

*Argument.* The invariants count backwards from the graph. `StaleInv`: what a unit said before its last change is known to the worker for a poll at most
(`UnitInv`), so it was sent within `Period` of the change (`NetInv`), delivered within `MaxDelay` and is in the window for less than `Expiry` (`WindowInv`). By
`Settled = Period + MaxDelay + Expiry` nothing is left. `SilentInv` counts likewise for a unit that fell silent, but from its last unread line, which is at most
`OldestLine` old when it is read: a worker that runs reads it within a period, and one that is down when it has backed off, by which time it is at most `BackOff` old
(lemma `SilentPoll`). `ShownInv` adds `CalmInv`: of every clock that a unit measures the last poll sent an update, and so did one in every
period of the calm; of those the newest that must have been delivered is younger than the expiry. Here the assumption on the times is used.

`DiagMasterProofs`, for any set of updates that may be sent, windows of any length, and any period and expiry:

| Theorem | Says |
|---|---|
| `MasterTypeCorrect` | `DSpec => []DTypeOK` |
| `EveryGraphIsConsistent` | `AliasClasses`, `OnlyCanonicalNames`, `NoSelfLoops`, `ParentPortResolves` hold at every step of every build |
| `NothingExpiresUnused` | `Period < Expiry` implies `DSpec => []UsedBeforeExpiry` |
| `TheQueueKeepsUnexpired` | `DSpec => UnexpiredStay`: while the process lives |
| `StatesAreTheLatest`, `LinksAreTheLatest`, `MeasurementsAreTheMedians` | `DSpec => []StatesAreLatest`, `[]LinksAreLatest`, `[]MeasurementsAreMedians`: a finished graph is what its window says |
| `MasterGraphsAreSimple` | `DSpec => []AtMostOneOfEachKind`: the first finding of section 6 cannot show in a graph of the master |

The hypothesis of `NothingExpiresUnused` is the code's timer of 1 s and its default expiry of 2 s. It is the only theorem with one: an installation that sets a
shorter expiry loses updates, and nothing in the code prevents that.

*Argument.* The comprehensions of the code (drop what has expired, sort by kind, group by pair) keep some elements of a list in their order. They are written with
the set of indices that is kept (`Picked`; `Nth` is the k-th of them), not by recursion, and `Rank` counts how many of the kept indices come up to one:
`Nth` enumerates the kept indices in increasing order (lemmas `RankIncreases`, `NthHasRank`, `NthEnumerates`). What the latest entry of a kind is (`LatestOf`), how many there are, and which elements
a list has then follows for picked, concatenated and extended lists, and so for the sorted and aggregated window (`Plan`).

A build is proved by what it has done so far. `BuildInv`: the updates that were applied, with those in `todo`, are the plan, and the graph is the one that the applied
ones describe (`Described`). `Described` says it of clocks, ports, states and links, by the last update about each, without an order of application. Each
handler extends it by one update. It is not inductive for aliases: a merge after other updates may lose or renumber what they said, which is what the findings `sync_graph_kinds` and
`sync_graph_port_states` are about. Therefore the invariant has two parts: while only aliases were applied the graph is `Bare`, and then no alias follows (`AliasesLead`, which the sorting
establishes). That a finished graph says what the *window* says needs one more step, from the plan to the window: sorting keeps the last update about a thing
because all updates about it are of one kind (`LatestInPlan`). Measurements are the exception, because others take their place:
the plan has one median for each pair of names that was measured (`MediansType`), and the last of those for a pair of clocks is shown (`PlannedMeasurements`); that at most half of what was measured lies on either side of it is `MedianOfWindow`.

`GraphDiagnosisProofs`, for graphs and trees of any size (finite, as they come from a file), any levels and thresholds:

| Theorem | Says |
|---|---|
| `NoFaultIsHidden` | `GSpec => []FaultsReachDownstream` |
| `HealthyExactlyIfWellFormed` | `GSpec => []HealthyIfWellFormed` |
| `OkIsNeverMistaken` | `GSpec => []AllOkMeansSynchronised` |
| `ReferenceStaysConfigured` | `GSpec => []ReferenceIsConfigured` |
| `DiagnosticsAreAlwaysPublished` | `GSpec => []AlwaysPublished` |
| `AdherentExactlyIfDown` | `GSpec => []AdherentIfDownTheReference` |
| `DoctorAlwaysShowsAll` | `GSpec => []DoctorShowsAll` |

*Argument.* The diagnoses only read the graph, so each property follows from one invariant, `DiagnosisInv`: `NameInv`, `NoSelfLoops` and `KeysOfKinds`, that the graph is finite, that links have the
data of their kind, and that the reference is the configured tree under the current names (`ReferenceInv`). What makes the proofs long is what the graph algorithms compute.
`Reach` and `SimplePaths` are iterations that stop after as many rounds as there are nodes. That such an iteration is a function is shown first (`Iterates`),
then that its result is the least set of nodes that is closed under links (a set that grows has at most as many elements as there are nodes), and that `SimplePaths` are
all paths without a repetition (`SimplePathsAre`), with a shortest one among them if there is any (`ShortestPathExists`). Everything above is stated with these two facts, and no longer with rounds. Where an induction is needed, it is one over the
naturals by a least counterexample (`LeastNatural`).

`AdherentExactlyIfDown` relates paths that the code filters (those whose clocks are at increasing places of the one path in the reference) to links that go down the reference. In one direction a path
of such links visits increasing places because with one parent each (`HasOneParentEach`) all clocks above a clock are on the one path to it (`AboveIsOnPath`); in the
other each link of an adherent path goes down. `OkIsNeverMistaken` first shows that a reference diagnosis that is Ok leaves no clock missing and none
rogue, since only the clocks of the reference are published. `DoctorAlwaysShowsAll` shows that the configured paths form one tree (`TreeFromRoot`: a root that reaches all, one parent
for all others, no cycle), and that hanging each rogue clock below one that is in it keeps it a tree (`LayoutIsTree`).

*Assumptions.* Each theorem rests on the named assumptions of its modules only, which TLC evaluates for the instances.

*Only model-checked:*
- all liveness (`Recovers`, `ReportsConverge`, `DiagnosticsGoOn`, `AllRecover`, `OneRejectedSilencesAll`): fairness and `ENABLED` are out of this prover's reach;
- the violations of section 6, which are counterexamples on one instance each.

Every other invariant and action property of every passing run is stated by one of the theorems above.

## 6. Findings

Each is a run that finds a violation of what the repository says about itself (`PROJECT.json` quotes the lines).

| Run | The code | The repository says |
|---|---|---|
| `sync_graph_kinds` | merging two clocks that both were measured against a third leaves two measurement links, one under an integer key, on which `diagnose_link` raises. The master applies aliases first, so its graphs do not show it (`AtMostOneOfEachKind` holds in `diag_master`) | "at most one of each kind" (`get_links`) |
| `sync_graph_port_states` | `update_clock_aliases` clears `_ports` while iterating over a live view of it: all port states are lost. Again hidden by the master's order (`StatesAreLatest`) | "All links and port references are merged accordingly" |
| `diag_master_aliases` | three overlapping alias updates can leave one clock in two nodes: an update whose names are all known returns early | "The nodes of all aliases … are merged into a single node" |
| `diag_master_masters` | a clock that changes its master has both masters until the older report expires | "Newer updates overwrite older ones for the same entities" |
| `graph_diagnosis_cycle` | a clock above a cycle is diagnosed as part of it | "clocks not in the cycle shall be unaffected" (test) |
| `unit_monitor_retransmits` | a poll that changes nothing sends nothing, and the master forgets | "workers retransmit information at least once per second" (design document) |

Two more disagreements with a document are in the models, but have no run of their own:

- The docstring of `SyncGraph.update` says "ValueError: If the `update` field is unset" (`sync_graph.py:271-273`); the code ignores such an update (`sync_graph.py:301-303`).
  The models follow the code (`Ignore`), and `DiagnosticsGoOn` depends on it: with the documented behaviour, one unset update would end the master (mutant `RaisesIfUnset`).
- The same docstring says "for an invalid update, nothing changes" (`sync_graph.py:265`). An alias update with an identifier that is present but empty raises
  after `_known_aliases` was changed (`sync_graph.py:357-360`). As the exception ends the process, nobody sees the half-changed graph.

Documented as hazards and contained in the models, without a contradiction to a document:

- One alias update whose identifier is present but empty, or of a kind that this version does not know, ends the master, and the next one again, as long as they are received
  (`UpdateRaises`). `DiagnosticsGoOn` says only that the diagnostics recover when they cease.
- `phc2sys_to_graph_updates` resends all known clocks of a unit for every line about one of them. A clock that falls silent while others of the unit are measured
  is shown as long as the process runs. `SilenceIsNoticed` is about units that fall silent as a whole; no property says what should happen to one clock.
- An answer of another PTP domain ends the worker (`RaiseWrongDomain`; `ReportsConverge` holds nevertheless).
- A ptp4l unit whose ports have different clocks makes the factory raise at every attempt. The composition shows what that does by analogy only, for a phc2sys
  unit with a rejected command line (`OneRejectedSilencesAll`).

- A phc2sys line without a delay makes `_parse_offset` raise (`TypeError`), which takes all monitors of the host down until the line is older than the start-up
  window (`RaiseInParse`; `Recovers` holds nevertheless).
- A pmc answer with a field that does not parse: `pmc_parser.py:148` notes the error and constructs the data class without the field, which is a `TypeError` and ends
  the worker. In the models it is a `Crash`.
- A unit whose command line the factory rejects keeps all monitors of its host down (`OneRejectedSilencesAll`).
- A `clock_tree` with a lone clock only is the empty reference, which switches the comparison off (the models drop the clock as the code does; no property says it should stay), and makes the web page raise; a forest makes both raise; a clock in two trees
  passes `nx.is_tree` but its diagnosis raises. `AlwaysPublished` and `DoctorShowsAll` state which configurations are safe.
- An alias that joins two clocks of the reference gives it a self-loop or drops a link; then the topological sort, and the web page, raise.
- A link under an integer key (first row above) makes `diagnose_link`, and with it the web page, raise.
- `WebUi.update` is called without a `try`: with `--web-ui` each of the exceptions above ends the master.

## 7. What is not modelled

- Message texts, names and layout of diagnostics; colours, coordinates and the web server of SYNC.DOCTOR: output only.
- Parsing: pmc text, JSON of the journal, command lines, configuration and YAML text. Their results are inputs: a lost or failed answer of pmc, a rejected command line, a
  `clock_tree`. pmc_parser and pmc_protocol have no state but the text they look at.
- LinuxPTP configuration, `ethtool`, `systemctl` and `/proc`: the factory sees the process that runs, or none, or raises.
- ROS 2: serialisation, discovery, the nodes' start and shutdown. Delay, reordering and loss are in `HostToMaster`, any order of arrival in `DiagMaster`.
- In `HostToMaster`, a ptp4l unit: its updates do not depend on the journal once it is initialised, `Ptp4lMonitor` shows what they are, and for the other monitors
  it is one more source of exceptions (`Crash`).
- The lifetime of pmc processes and ROS nodes that a restarted worker leaves behind.
- Deployment, documentation and scripts.

## 8. Plan

Done: `SyncGraph`, `DiagMaster`, `GraphDiagnosis` with `ReferenceGraph` and `SyncDoctor`, `UnitJournal` with `UnitMonitor` and `Ptp4lMonitor`, their abstract specification
`UnitFollower`, and `HostToMaster`; the theorems of section 5, which state every invariant and action property that a run checks.

What could come next:

1. **Abstract window**: a specification of the master that has no graph, only "the latest report about each thing", as the
   refinement behind `LinksAreLatest` and `StatesAreLatest`. `Described` is most of its mapping.
2. **The two halves together**: that `HostToMaster`'s window is `DiagMaster`'s queue, so that what the first says of updates holds of graphs.
3. **The resynchronisation of the pmc parser**, if it can be stated without text.
4. **A ptp4l unit in `HostToMaster`**, with the aliases it sends: a graph in which a clock has lost an alias that expired.
