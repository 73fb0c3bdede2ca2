---------------------------- MODULE UnitMonitor ----------------------------
(***************************************************************************)
(* The monitoring of one phc2sys unit by a diagnostic worker, on top of    *)
(* UnitJournal: the SystemdUnitStateMachine that follows the unit through  *)
(* the journal, the updates that Phc2SysMonitorTask sends, and the         *)
(* worker's restart after an exception.                                    *)
(*                                                                         *)
(* The factory reads the configuration of the process that runs at that    *)
(* moment, which need not be the one that wrote the entry.                 *)
(*                                                                         *)
(* Abstracted: what a phc2sys line measures is one Reading; a line's clock *)
(* name is looked up in the configuration as the code does.                *)
(***************************************************************************)
EXTENDS UnitJournal

CONSTANTS
  Clock,      \* clock identifiers
  Source,     \* source_clock of each configuration
  Aliases,    \* clock_aliases: the clock of each name, NoClock if unknown
  Name,       \* the clock names that occur in lines
  Reading,    \* what a line can say of its clock
  NoClock,
  Unmeasured, \* no state of a destination clock
  NoUpdate,   \* no update received about a destination clock
  Uninitialized,
  MaxFaults   \* bound: worker crashes and lines without a delay

ASSUME ConfigAssumption == /\ Source \in [Config -> Clock]
                           /\ Aliases \in [Config -> [Name -> Clock \cup {NoClock}]]
                           /\ NoClock \notin Clock
ASSUME FaultsAssumption == MaxFaults \in Nat

\* A message of systemd, an offset line that run wrote, or one without the
\* delay, which the regular expression allows to be missing.
Line == [type : {"offset"}, run : Run, name : Name, reading : Reading]
LineWithoutDelay == [type : {"without_delay"}]
Entry == {Notice} \cup Line \cup LineWithoutDelay

\* What was measured, and by which run, which the code does not know.
Measured == [reading : Reading, run : Run]
Running == [config : Config, dst : [Clock -> Measured \cup {Unmeasured}]]
Update == [src : Clock, dst : Clock, reading : Reading]

ASSUME UnsetAssumption == /\ Uninitialized \notin Running \cup Config
                          /\ Unmeasured \notin Measured
                          /\ NoUpdate \notin Update
                          /\ Uninitialized \notin
                               [config : Config, dst : SUBSET (Clock \X Reading)]

VARIABLES
  phase,     \* "down", "idle" between polls, or "consuming"
  state,     \* state_machine.state
  old,       \* consume's copy of the state before the batch
  told,      \* the last update sent about each destination clock
  faults

taskVars == <<phase, state, old, told>>
vars == <<journalVars, taskVars, faults>>

------------------------------------------------------------------------------
(* The unit and the journal. *)

LogLine(n, r) ==
  /\ unit # NoProcess
  /\ LogEntry([type |-> "offset", run |-> unit.run, name |-> n, reading |-> r])
  /\ UNCHANGED <<taskVars, faults>>

LogLineWithoutDelay ==
  /\ LogEntry([type |-> "without_delay"])
  /\ faults < MaxFaults
  /\ faults' = faults + 1
  /\ UNCHANGED taskVars

Age == AgeUnless(phase # "down") /\ UNCHANGED <<taskVars, faults>>

------------------------------------------------------------------------------
(* The worker. *)

\* Mutant: None stays None.
NoneIfStopped ==
  IF unit = NoProcess THEN NoProcess
  ELSE [config |-> unit.config, dst |-> [d \in Clock |-> Unmeasured]]

\* phc2sys_factory, None replaced by an Uninitialized state: the
\* configuration of the process that runs now.
Factory ==
  IF unit = NoProcess THEN Uninitialized
  ELSE [config |-> unit.config, dst |-> [d \in Clock |-> Unmeasured]]

\* DiagWorker.__init__ and what it constructs, after a back-off of 5 s.
Construct ==
  /\ phase = "down"
  /\ phase' = "idle"
  /\ state' = Factory
  /\ NewJournalMonitor
  /\ UNCHANGED <<old, told, faults>>

\* The start of Phc2SysMonitorTask.poll.
ReadJournal ==
  /\ phase = "idle"
  /\ phase' = "consuming"
  /\ PollJournal
  /\ old' = state
  /\ UNCHANGED <<state, told, faults>>

\* Phc2SysRunningState.parse
Parsed(s, e) ==
  LET d == Aliases[s.config][e.name]
  IN  IF d = NoClock THEN s
      ELSE [s EXCEPT !.dst[d] = [reading |-> e.reading, run |-> e.run]]

\* Mutant: the state survives a start or stop of the unit.
AfterLineOnly(s, e) ==
  IF e.type = "notice" THEN s
  ELSE IF s # Uninitialized THEN Parsed(s, e)
  ELSE IF Factory = Uninitialized THEN Uninitialized ELSE Parsed(Factory, e)

\* Mutant: a stopped unit is never initialised again.
AfterWithoutFactory(s, e) ==
  IF e.type = "notice" \/ s = Uninitialized THEN Uninitialized ELSE Parsed(s, e)

\* SystemdUnitStateMachine._parse: the state after an entry.
After(s, e) ==
  IF e.type = "notice" THEN Uninitialized
  ELSE IF s # Uninitialized THEN Parsed(s, e)
  ELSE IF Factory = Uninitialized THEN Uninitialized ELSE Parsed(Factory, e)

\* int() is given None for a line without a delay, which raises.
Raises(e) ==
  /\ e.type = "without_delay"
  /\ state # Uninitialized \/ Factory # Uninitialized

Consume ==
  /\ phase = "consuming"
  /\ batch # <<>>
  /\ ~ Raises(Head(batch))
  /\ state' = After(state, Head(batch))
  /\ NextEntry
  /\ UNCHANGED <<phase, old, told, faults>>

\* The state without what the code does not know.
Visible(s) ==
  IF s = Uninitialized THEN s
  ELSE [config |-> s.config,
        dst |-> {<<d, s.dst[d].reading>> : d \in {c \in Clock : s.dst[c] # Unmeasured}}]

\* Mutant: without the copy, a change made in place is compared with itself.
ReplacedBy(s, t) ==
  \/ (s = Uninitialized) # (t = Uninitialized)
  \/ s # Uninitialized /\ t # Uninitialized /\ s.config # t.config

Differ(s, t) == Visible(s) # Visible(t)

Measures(s, d) == s # Uninitialized /\ s.dst[d] # Unmeasured

\* phc2sys_to_graph_updates
UpdateFor(s, d) ==
  [src |-> Source[s.config], dst |-> d, reading |-> s.dst[d].reading]

\* Whether the update about d is sent at the end of consume: all that is known
\* is, if the state changed.
Sends(d) == Differ(old, state) /\ Measures(state, d)

EndPoll ==
  /\ phase = "consuming"
  /\ batch = <<>>
  /\ phase' = "idle"
  /\ told' = [d \in Clock |-> IF Sends(d) THEN UpdateFor(state, d) ELSE told[d]]
  /\ old' = Uninitialized
  /\ UNCHANGED <<journalVars, state, faults>>

\* An exception ends asyncio.run: this task and its state are gone.
Raise ==
  /\ phase' = "down"
  /\ state' = Uninitialized
  /\ old' = Uninitialized
  /\ LoseBatch
  /\ UNCHANGED told

RaiseInParse ==
  /\ phase = "consuming"
  /\ batch # <<>>
  /\ Raises(Head(batch))
  /\ Raise
  /\ UNCHANGED faults

\* Another monitor of the worker raises, or the process is restarted.
Crash ==
  /\ phase # "down"
  /\ faults < MaxFaults
  /\ faults' = faults + 1
  /\ Raise

------------------------------------------------------------------------------
Init ==
  /\ JournalInit
  /\ phase = "down"
  /\ state = Uninitialized
  /\ old = Uninitialized
  /\ told = [d \in Clock |-> NoUpdate]
  /\ faults = 0

Log == \E n \in Name, r \in Reading : LogLine(n, r)

Next ==
  \/ UnitStep /\ UNCHANGED <<taskVars, faults>>
  \/ Log
  \/ LogLineWithoutDelay
  \/ Age
  \/ Construct
  \/ ReadJournal
  \/ Consume
  \/ EndPoll
  \/ RaiseInParse
  \/ Crash

\* The worker's loop goes on, time passes, systemd announces what it started
\* and a running phc2sys logs its offsets.
Fairness ==
  /\ WF_vars(Construct \/ ReadJournal \/ Consume \/ EndPoll \/ RaiseInParse)
  /\ WF_vars(Age)
  /\ WF_vars(Announce("starting", "running") /\ UNCHANGED <<taskVars, faults>>)
  /\ WF_vars(Log)

Spec == Init /\ [][Next]_vars /\ Fairness

------------------------------------------------------------------------------
(* Properties. *)

\* Every variable has its type, and the bounds hold.
UTypeOK ==
  /\ JournalTypeOK(Entry)
  /\ phase \in {"down", "idle", "consuming"}
  /\ state \in Running \cup {Uninitialized}
  /\ old \in Running \cup {Uninitialized}
  /\ told \in [Clock -> Update \cup {NoUpdate}]
  /\ faults \in 0..MaxFaults

\* The monitor never keeps a configuration, or an offset, of a process that
\* was replaced: if either is not of the process that runs now, then a message
\* that makes the monitor start over is still to come.  This holds whenever
\* the unit or the worker restarts, between any two entries, and although the
\* first poll reads what was logged before the worker started.
FollowsUnit ==
  phase # "down" /\ state # Uninitialized /\ unit # NoProcess /\ ~ ChangePending =>
    /\ state.config = unit.config
    /\ \A d \in Clock : Measures(state, d) => state.dst[d].run = unit.run

\* The runs whose offsets the state has.
HeldRuns ==
  IF state = Uninitialized THEN {}
  ELSE {state.dst[d].run : d \in {c \in Clock : Measures(state, c)}}

\* The configuration that the monitor takes the unit to have.
View == IF state = Uninitialized THEN state ELSE state.config

Follower == INSTANCE UnitFollower WITH
  Unknown <- Uninitialized,
  view <- View,
  held <- HeldRuns,
  due <- ChangePending

\* The monitor keeps the promise of UnitFollower: after it has noticed that its
\* unit was started, it takes nothing of an earlier process any more, neither
\* from the rest of a batch nor from a later poll, and a view is only ever that
\* of the process that ran when it was made.
ImplementsFollower == Follower!Spec

\* Between two polls the receivers were last told what the monitor knows now,
\* although only changes of its state are sent.
ToldIsCurrent ==
  phase = "idle" =>
    \A d \in Clock : Measures(state, d) => told[d] = UpdateFor(state, d)

\* If the unit keeps running, the monitor ends up following that process, after
\* whatever stops, starts and crashes came before.
Recovers ==
  <>[](unit # NoProcess) =>
    <>[](state # Uninitialized /\ unit # NoProcess /\ state.config = unit.config)

\* What the design document says: workers retransmit what they know, at least
\* once per second, which is in every poll.
Retransmits ==
  [][EndPoll => \A d \in Clock : Measures(state, d) => Sends(d)]_vars
==============================================================================
