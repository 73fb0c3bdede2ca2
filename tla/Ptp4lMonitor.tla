---------------------------- MODULE Ptp4lMonitor ----------------------------
(***************************************************************************)
(* The monitoring of one ptp4l unit, on top of UnitJournal: the state      *)
(* machine that follows the unit through the journal, the pmc process that *)
(* Ptp4lMonitorTask keeps for it, the queries and answers of PmcMonitor,   *)
(* and the updates about the PTP instances that answered.                  *)
(*                                                                         *)
(* pmc asks whichever process listens at the unit's address when the query *)
(* arrives.  While it waits for answers the unit may stop, start with      *)
(* another configuration, or elect another master; answers may be late.    *)
(*                                                                         *)
(* Abstracted: what the instance knows is its election, which determines   *)
(* every data set.  A query that is not answered, an error status and text *)
(* that does not parse are one.  The state parsed from ptp4l's lines is    *)
(* never sent, and its warnings are updates that SyncGraph ignores: a line *)
(* only matters because it initialises the state.                          *)
(***************************************************************************)
EXTENDS UnitJournal, FiniteSets, SequencesExt

CONSTANTS
  Clock,      \* the clocks of the host's interfaces
  PtpId,      \* PTP clock identities
  Address,    \* a UDS address with a transport
  DomainOf,   \* the PTP domain of each configuration
  AnyDomain,  \* whether ptp4l also answers queries for another domain
  ClockOf,    \* Ptp4lConfig.clock of each configuration
  Identity,   \* the PTP clock identity of ptp4l under each configuration
  AddressOf,  \* where ptp4l listens under each configuration
  Ports,      \* the port numbers of the instance
  Elections,  \* the elections that the instance may come to
  Starts,     \* how it may start: pairs of a configuration and an election
  NoClock,
  NoPmc,
  Uninitialized,
  MaxFaults   \* bound: late answers, lost queries, exits of pmc, crashes and
              \* elections after the start of a process

ASSUME PtpConfigAssumption == /\ ClockOf \in [Config -> Clock]
                              /\ Identity \in [Config -> PtpId]
                              /\ AddressOf \in [Config -> Address]
                              /\ DomainOf \in [Config -> Nat]
                              /\ AnyDomain \in BOOLEAN
ASSUME PortsAssumption == Ports \subseteq Nat \ {0} /\ IsFiniteSet(Ports)
\* The master, and the port it is received on: 0 if it is the instance itself.
ASSUME ElectionAssumption ==
  /\ Elections \subseteq [master : PtpId, via : Ports \cup {0}]
  /\ Elections # {}
  /\ Starts \subseteq Config \X Elections
ASSUME NoneAssumption == /\ NoClock \notin Clock
                         /\ NoPmc \notin Config
                         /\ Uninitialized \notin Config
ASSUME FaultsAssumption == MaxFaults \in Nat

Line == [type |-> "line"]
Entry == {Notice, Line}

\* PmcMonitor.monitored_datasets
MonitoredDatasets == <<"default", "current", "parent", "port">>

\* An answer of the instance "id", sent from one of its ports (0: the UDS
\* port), by a process which the code does not know.
Answer == [id : PtpId, run : Run, port : Ports \cup {0},
           data : Range(MonitoredDatasets), domain : Nat, best : Elections]

\* The updates that are sent, without the domain of their ports.
Report ==
  [type : {"clock_alias"}, id : PtpId, clock : Clock]
  \cup [type : {"clock_master"}, id : PtpId, master : PtpId, offset : PtpId]
  \cup [type : {"ptp_parent"}, id : PtpId, parent : PtpId]
  \cup [type : {"port_state"}, id : PtpId, port : Ports,
        state : {"SLAVE", "MASTER"}]

VARIABLES
  best,     \* the current election of the running process
  phase,    \* "down", "idle" between polls, "consuming" or "asking"
  state,    \* state_machine.state: the configuration of a running state
  clock,    \* ptp4l_clock_id
  pmc,      \* pmc_monitor: the configuration whose address it asks
  alive,    \* whether the process of pmc_monitor runs
  next,     \* the next query of this poll, an index of MonitoredDatasets
  asked,    \* queries that ptp4l has not come to yet
  pipe,     \* the answers that pmc has printed and that were not read yet
  sent,     \* the updates of a poll that ended, until the next one
  faults

taskVars == <<phase, state, clock, pmc, alive, next, asked, pipe, sent>>
vars == <<journalVars, best, taskVars, faults>>

------------------------------------------------------------------------------
(* The unit. *)

StartUnit(c, e) ==
  /\ Start(c)
  /\ best' = e
  /\ UNCHANGED <<taskVars, faults>>

StepUnit(step) == step /\ UNCHANGED <<best, taskVars, faults>>

\* The best master clock algorithm of ptp4l comes to another result.
Elect(e) ==
  /\ unit # NoProcess
  /\ faults < MaxFaults
  /\ faults' = faults + 1
  /\ e # best
  /\ best' = e
  /\ UNCHANGED <<journalVars, taskVars>>

Age == AgeUnless(phase # "down") /\ UNCHANGED <<best, taskVars, faults>>

\* What the running process answers: one answer for each port to a query of
\* the port data set, else one from the UDS port.
AnswersTo(query) ==
  [i \in 1..(IF query = "port" THEN Cardinality(Ports) ELSE 1) |->
     [id |-> Identity[unit.config], run |-> unit.run,
      port |-> IF query = "port" THEN SetToSeq(Ports)[i] ELSE 0,
      data |-> query, domain |-> DomainOf[unit.config], best |-> best]]

\* ptp4l comes to a query.  It gets lost if no process listens at the address,
\* or the one that does ignores queries for another domain.
AnswerQuery ==
  /\ asked # <<>>
  /\ asked' = Tail(asked)
  /\ pipe' = IF /\ alive
                /\ unit # NoProcess
                /\ AddressOf[unit.config] = AddressOf[pmc]
                /\ AnyDomain \/ DomainOf[unit.config] = DomainOf[pmc]
               THEN pipe \o AnswersTo(Head(asked))
               ELSE pipe
  /\ UNCHANGED <<journalVars, best, phase, state, clock, pmc, alive, next,
                 sent, faults>>

LoseQuery ==
  /\ asked # <<>>
  /\ asked' = Tail(asked)
  /\ faults < MaxFaults
  /\ faults' = faults + 1
  /\ UNCHANGED <<journalVars, best, phase, state, clock, pmc, alive, next,
                 pipe, sent>>

PmcExits ==
  /\ pmc # NoPmc
  /\ alive
  /\ faults < MaxFaults
  /\ faults' = faults + 1
  /\ alive' = FALSE
  /\ UNCHANGED <<journalVars, best, phase, state, clock, pmc, next, asked,
                 pipe, sent>>

------------------------------------------------------------------------------
(* The state machine, and what its callbacks do to pmc. *)

\* _create_pmc_monitor, and the clock of its configuration.
StartPmc(c) ==
  /\ clock' = ClockOf[c]
  /\ pmc' = c
  /\ alive' = TRUE
  /\ asked' = <<>>
  /\ pipe' = <<>>

\* pmc is stopped, and what it has printed is gone.
ResetPmc ==
  /\ pmc' = NoPmc
  /\ alive' = FALSE
  /\ asked' = <<>>
  /\ pipe' = <<>>

OnStopped == clock' = NoClock /\ ResetPmc

SamePmc == UNCHANGED <<clock, pmc, alive, asked, pipe>>

\* Mutant: a state without a process.
InitializeWithoutCheck ==
  /\ state' = IF unit = NoProcess THEN NoProcess ELSE unit.config
  /\ IF unit = NoProcess THEN SamePmc ELSE StartPmc(unit.config)

\* _try_initialize, and Uninitialized.parse: ptp4l_state_factory reads the
\* process that runs now.
Initialize ==
  IF unit = NoProcess THEN state' = Uninitialized /\ SamePmc
  ELSE state' = unit.config /\ StartPmc(unit.config)

\* Mutant: pmc goes on.
UninitializeOnly ==
  /\ state' = Uninitialized
  /\ clock' = NoClock
  /\ UNCHANGED <<pmc, alive, asked, pipe>>

Uninitialize ==
  /\ state' = Uninitialized
  /\ IF state = Uninitialized THEN SamePmc ELSE OnStopped

\* Mutant: the state survives a start or stop of the unit.
ParseWithoutNotice(e) ==
  IF e = Line /\ state = Uninitialized THEN Initialize
  ELSE state' = state /\ SamePmc

\* Ptp4lRunningState.parse: what it learns from a line is never sent.
ParseRunning == state' = state /\ SamePmc

\* Mutant: a stopped unit is never initialised again.
ParseWithoutFactory(e) == IF e = Notice THEN Uninitialize ELSE ParseRunning

\* SystemdUnitStateMachine._parse
Parse(e) ==
  IF e = Notice THEN Uninitialize
  ELSE IF state = Uninitialized THEN Initialize
  ELSE ParseRunning

------------------------------------------------------------------------------
(* PmcMonitor: the instances that a text of answers describes. *)

\* The places of the answers about an instance.
From(p, id) == {i \in DOMAIN p : p[i].id = id}

\* An instance is local if the first answer about it came from port 0.
IsLocal(p, id) ==
  \E i \in From(p, id) : p[i].port = 0 /\ \A j \in From(p, id) : i <= j

\* The last answer about a data set, and about a port, overwrites earlier ones;
\* a set of at most one.
Newest(p, id, data, port) ==
  LET found == {i \in From(p, id) : p[i].data = data /\ p[i].port = port}
  IN  {p[i] : i \in {j \in found : \A k \in found : k <= j}}

\* pmc_to_graph_updates asserts that the default data set of each instance has
\* the domain that pmc was started with.
WrongDomain(p) ==
  \E i \in DOMAIN p : \E a \in Newest(p, p[i].id, "default", 0) :
    a.domain # DomainOf[pmc]

PortStateOf(e, port) == IF e.via = port THEN "SLAVE" ELSE "MASTER"

\* pmc_to_graph_updates for the instance "id".
UpdatesOf(p, id) ==
  (IF IsLocal(p, id)
     THEN {[type |-> "clock_alias", id |-> id, clock |-> clock]} ELSE {})
  \cup {[type |-> "clock_master", id |-> id, master |-> a.best.master,
         offset |-> b.best.master] :
          a \in Newest(p, id, "parent", 0), b \in Newest(p, id, "current", 0)}
  \cup UNION {
    {[type |-> "port_state", id |-> id, port |-> n,
      state |-> PortStateOf(a.best, n)] : a \in Newest(p, id, "port", n)}
    \cup {[type |-> "ptp_parent", id |-> id, parent |-> b.best.master] :
            a \in {x \in Newest(p, id, "port", n) : x.best.via = n},
            b \in Newest(p, id, "parent", 0)}
    : n \in Ports}

Updates(p) == UNION {UpdatesOf(p, id) : id \in {p[i].id : i \in DOMAIN p}}

------------------------------------------------------------------------------
(* The worker. *)

\* Ptp4lMonitorTask.__init__, in a worker that starts or starts again.
Construct ==
  /\ phase = "down"
  /\ phase' = "idle"
  /\ Initialize
  /\ NewJournalMonitor
  /\ UNCHANGED <<best, next, sent, faults>>

\* The start of Ptp4lMonitorTask.poll.
ReadJournal ==
  /\ phase = "idle"
  /\ phase' = "consuming"
  /\ PollJournal
  /\ sent' = {}
  /\ UNCHANGED <<best, state, clock, pmc, alive, next, asked, pipe, faults>>

Consume ==
  /\ phase = "consuming"
  /\ NextEntry
  /\ Parse(Head(batch))
  /\ UNCHANGED <<best, phase, next, sent, faults>>

\* Without pmc there is nothing to report.
EndConsume ==
  /\ phase = "consuming"
  /\ batch = <<>>
  /\ phase' = IF pmc = NoPmc THEN "idle" ELSE "asking"
  /\ UNCHANGED <<journalVars, best, state, clock, pmc, alive, next, asked,
                 pipe, sent, faults>>

\* query_dataset, for one data set after the other.
QueryDataset ==
  /\ phase = "asking"
  /\ next \in DOMAIN MonitoredDatasets
  /\ alive
  /\ asked' = Append(asked, MonitoredDatasets[next])
  /\ next' = next + 1
  /\ UNCHANGED <<journalVars, best, phase, state, clock, pmc, alive, pipe,
                 sent, faults>>

Raise ==
  /\ phase' = "down"
  /\ LoseBatch
  /\ state' = Uninitialized
  /\ OnStopped
  /\ next' = 1
  /\ sent' = {}
  /\ UNCHANGED best

\* PMC exited with an error code: poll, or query_dataset, raises.
RaiseExited ==
  /\ phase = "asking"
  /\ next \in DOMAIN MonitoredDatasets
  /\ ~ alive
  /\ Raise
  /\ UNCHANGED faults

\* All that pmc has printed so far is read.
ReadBack ==
  /\ sent' = Updates(pipe)
  /\ pipe' = <<>>

\* After the last wait the responses are read.  Queries that ptp4l has not come
\* to by then would be answered later.
ReadyToRead ==
  /\ phase = "asking"
  /\ next \notin DOMAIN MonitoredDatasets
  /\ \/ asked = <<>> /\ faults' = faults
     \/ asked # <<>> /\ faults < MaxFaults /\ faults' = faults + 1

\* An instance is of another domain: the assertion of pmc_to_graph_updates ends
\* the worker.
RaiseWrongDomain ==
  /\ ReadyToRead
  /\ WrongDomain(pipe)
  /\ Raise

\* The rest of poll.
ReportInstances ==
  /\ ReadyToRead
  /\ ~ WrongDomain(pipe)
  /\ ReadBack
  /\ phase' = "idle"
  /\ next' = 1
  /\ UNCHANGED <<journalVars, best, state, clock, pmc, alive, asked>>

\* Another monitor of the worker raises, or the process is restarted.
Crash ==
  /\ phase # "down"
  /\ faults < MaxFaults
  /\ faults' = faults + 1
  /\ Raise

------------------------------------------------------------------------------
Init ==
  /\ JournalInit
  /\ best = CHOOSE e \in Elections : TRUE
  /\ phase = "down"
  /\ state = Uninitialized
  /\ clock = NoClock
  /\ pmc = NoPmc
  /\ alive = FALSE
  /\ next = 1
  /\ asked = <<>>
  /\ pipe = <<>>
  /\ sent = {}
  /\ faults = 0

Next ==
  \/ \E s \in Starts : StartUnit(s[1], s[2])
  \/ StepUnit(Announce("starting", "running"))
  \/ StepUnit(Announce("running", "stopping"))
  \/ StepUnit(Announce("exited", "stopped"))
  \/ StepUnit(Exit)
  \/ StepUnit(LogEntry(Line))
  \/ \E e \in Elections : Elect(e)
  \/ Age
  \/ AnswerQuery
  \/ LoseQuery
  \/ PmcExits
  \/ Construct
  \/ ReadJournal
  \/ Consume
  \/ EndConsume
  \/ QueryDataset
  \/ RaiseExited
  \/ RaiseWrongDomain
  \/ ReportInstances
  \/ Crash

\* The worker's loop goes on, ptp4l answers, time passes, systemd announces
\* what it started and a running ptp4l logs.
Fairness ==
  /\ WF_vars(Construct \/ ReadJournal \/ Consume \/ EndConsume \/ QueryDataset
               \/ RaiseExited \/ RaiseWrongDomain \/ ReportInstances)
  /\ WF_vars(AnswerQuery)
  /\ WF_vars(Age)
  /\ WF_vars(StepUnit(Announce("starting", "running")))
  /\ WF_vars(StepUnit(LogEntry(Line)))

Spec == Init /\ [][Next]_vars /\ Fairness

------------------------------------------------------------------------------
(* Properties. *)

\* Every variable has its type, and the bounds hold.
PTypeOK ==
  /\ JournalTypeOK(Entry)
  /\ best \in Elections
  /\ phase \in {"down", "idle", "consuming", "asking"}
  /\ state \in Config \cup {Uninitialized}
  /\ clock \in Clock \cup {NoClock}
  /\ pmc \in Config \cup {NoPmc}
  /\ alive \in BOOLEAN
  /\ next \in 1..(Len(MonitoredDatasets) + 1)
  /\ asked \in Seq(Range(MonitoredDatasets))
  /\ pipe \in Seq(Answer)
  /\ sent \subseteq Report
  /\ faults \in 0..MaxFaults

\* pmc and the clock that its instance is given as an alias always belong to
\* the configuration that the state machine is in.  So two of the assertions of
\* pmc_to_graph_updates, that a domain and a clock are set when an instance is
\* reported, hold however the unit stops and starts while pmc is waited for.
\* The third, that the instance has this domain, need not: RaiseWrongDomain.
PmcFollowsState ==
  IF state = Uninitialized THEN pmc = NoPmc /\ clock = NoClock
  ELSE pmc = state /\ clock = ClockOf[state]

\* No answer of a process that was replaced is left to be reported, and none is
\* reported under the clock of another configuration, unless a message that
\* makes the monitor start over is still to come: whatever the updates of a
\* restart join wrongly is replaced by the next poll.
AnswersFollowUnit ==
  unit # NoProcess /\ ~ ChangePending /\ state # Uninitialized =>
    /\ clock = ClockOf[unit.config]
    /\ \A i \in DOMAIN pipe : pipe[i].run = unit.run

\* The processes whose answers are still to be reported.
HeldRuns == {pipe[i].run : i \in DOMAIN pipe}

Follower == INSTANCE UnitFollower WITH
  Unknown <- Uninitialized,
  view <- state,
  held <- HeldRuns,
  due <- ChangePending

\* The monitor keeps the promise of UnitFollower: once it has noticed that its
\* unit was started, no answer of an earlier process reaches it any more,
\* although queries and answers are under way while the unit stops and starts.
ImplementsFollower == Follower!Spec

\* All that can be said of the instance that runs with c and has come to e.
Truth(c, e) ==
  {[type |-> "clock_alias", id |-> Identity[c], clock |-> ClockOf[c]],
   [type |-> "clock_master", id |-> Identity[c], master |-> e.master,
    offset |-> e.master]}
  \cup {[type |-> "ptp_parent", id |-> Identity[c], parent |-> e.master] :
          n \in {m \in Ports : m = e.via}}
  \cup {[type |-> "port_state", id |-> Identity[c], port |-> n,
         state |-> IF n = e.via THEN "SLAVE" ELSE "MASTER"] : n \in Ports}

\* If the unit keeps running and its election is settled, then after whatever
\* late and lost answers, answers from another domain, exits of pmc, crashes and
\* restarts came before, every poll ends up reporting the instance as it is,
\* alias, master and ports.
ReportsConverge ==
  <>[](unit # NoProcess) /\ <>[][unit' = unit /\ best' = best]_vars
    => /\ []<>(phase = "idle")
       /\ <>[](phase = "idle" /\ unit # NoProcess
                => sent = Truth(unit.config, best))
=============================================================================
