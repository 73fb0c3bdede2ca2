---------------------------- MODULE HostToMaster ----------------------------
(***************************************************************************)
(* A host and the master, in time: several phc2sys units, the worker that  *)
(* polls all of them, the topic, and the window of updates from which the  *)
(* master builds its graphs.                                               *)
(*                                                                         *)
(* The monitors are those of UnitMonitor with a poll as one step, which it *)
(* is for the other tasks of the worker; each implements UnitFollower.     *)
(* What is new here are the hazards of their company: an exception of one  *)
(* ends all of them, what was sent last outlives its process, and a clock  *)
(* is shown or missing by what arrives within the expiry.                  *)
(*                                                                         *)
(* A poll finds that what a process logs has changed, or else it counts as *)
(* missed, like a lost update.  Polls, deliveries and systemd's messages   *)
(* take no longer than the tick in which they are due.  The master may     *)
(* build a graph at any moment.                                            *)
(***************************************************************************)
EXTENDS Naturals, FiniteSets

CONSTANTS
  Unit,       \* the phc2sys units of the host
  Clock,      \* the destination clocks
  Config,     \* the configurations that a unit may be started with
  Starts,     \* how units may start: a configuration and the clocks measured
  Measurable, \* the sets of clocks that a unit may come to measure
  Rejected,   \* those whose command line makes the factory raise
  NoProcess,
  Uninitialized,
  Period,     \* the ticks between two polls of a unit (1 s)
  BackOff,    \* the ticks before a worker starts again (5 s)
  Expiry,     \* the age at which the master drops an update (2 s)
  MaxDelay,   \* how long an update may be under way
  MaxRuns,    \* bound: how often a unit starts
  MaxStarts,  \* bound: how often the units start together
  MaxFaults   \* bound: lost and missed updates, crashes, failing constructors
              \* and changes of what a process measures

Run == 1..MaxRuns
Process == [run : Run, config : Config]

ASSUME UnitsAssumption == /\ Starts \subseteq [unit : Unit, config : Config,
                                               measures : SUBSET Clock]
                          /\ Measurable \in [Unit -> SUBSET SUBSET Clock]
                          /\ Rejected \subseteq Config
                          /\ NoProcess \notin Process
                          /\ Uninitialized \notin Process
\* An update that is repeated in every poll is there again before it expires.
ASSUME TimeAssumption == /\ Period \in Nat \ {0}
                         /\ BackOff \in Nat
                         /\ MaxDelay \in Nat
                         /\ Expiry \in Nat
                         /\ Period + MaxDelay < Expiry
ASSUME BoundsAssumption ==
  MaxRuns \in Nat /\ MaxStarts \in Nat /\ MaxFaults \in Nat

\* By then all that a unit measures has been delivered.
Calm == Period + MaxDelay + 1

\* By then nothing of an earlier process is left.
Settled == Period + MaxDelay + Expiry

\* The age of the oldest line that a poll may read: the poll before was a period
\* ago, and the first poll of a worker reads the last 5 s of the journal, which
\* is what it has backed off for.
OldestLine == IF Period < BackOff THEN BackOff ELSE Period

\* By then nothing is left of a unit that fell silent.
Silenced == OldestLine + MaxDelay + Expiry

\* An update about a clock, with the oldest process that it says something of,
\* which the code does not know.
Update == [unit : Unit, clock : Clock, run : Run]

Nothing == [c \in Clock |-> 0]

VARIABLES
  process,   \* the main process of each unit
  runs,      \* how often each was started
  starting,  \* whether systemd has yet to log that it was
  measures,  \* the clocks whose offsets each process logs
  notice,    \* whether a start or stop message is unread
  lines,     \* the run of the last unread line about each clock after it, or 0
  up,        \* whether the worker runs
  wait,      \* the ticks until it starts
  view,      \* state_machine.state of each unit: the process it was read from
  known,     \* dst_clock_states: the run of the last line about each clock, or 0
  round,     \* ticks since the last round of polls began
  pending,   \* the units that are still to be polled in this round
  net,       \* the updates that are under way, with their age
  age,       \* the age of the newest update in the window; Expiry: dropped
  since,     \* ticks since the last change of each unit, at most Silenced
  calm,      \* ticks since the last change or fault, at most Calm
  faults

unitVars == <<process, runs, starting, measures>>
journalVars == <<notice, lines>>
workerVars == <<up, wait, view, known, round, pending>>
masterVars == <<net, age>>
vars == <<unitVars, journalVars, workerVars, masterVars, since, calm, faults>>

Fault == faults < MaxFaults /\ faults' = faults + 1

Running(u) == process[u] # NoProcess

Disturb(U) == [u \in Unit |-> IF u \in U THEN 0 ELSE calm[u]]

------------------------------------------------------------------------------
(* The units. *)

Changed(u) ==
  /\ since' = [since EXCEPT ![u] = 0]
  /\ calm' = Disturb({u})

Start(u, c, S) ==
  /\ ~ Running(u)
  /\ runs[u] < MaxRuns
  /\ Cardinality({s \in Unit \X Run : s[2] <= runs[s[1]]}) < MaxStarts
  /\ runs' = [runs EXCEPT ![u] = @ + 1]
  /\ process' = [process EXCEPT ![u] = [run |-> runs[u] + 1, config |-> c]]
  /\ starting' = [starting EXCEPT ![u] = TRUE]
  /\ measures' = [measures EXCEPT ![u] = S]
  /\ Changed(u)
  /\ UNCHANGED <<journalVars, workerVars, masterVars, faults>>

\* systemd logs "Started".
AnnounceStart(u) ==
  /\ starting[u]
  /\ starting' = [starting EXCEPT ![u] = FALSE]
  /\ notice' = [notice EXCEPT ![u] = TRUE]
  /\ lines' = [lines EXCEPT ![u] = Nothing]
  /\ UNCHANGED <<process, runs, measures, workerVars, masterVars, since, calm,
                 faults>>

\* The lines that u has logged since they were last read.
LinesOf(u) ==
  [c \in Clock |-> IF c \in measures[u] THEN process[u].run ELSE lines[u][c]]

\* A process that is stopped ends with "Stopped".  One that exits by itself may
\* leave only lines, if it has logged any since the last poll.
Exit(u) ==
  /\ Running(u)
  /\ ~ starting[u]
  /\ process' = [process EXCEPT ![u] = NoProcess]
  /\ measures' = [measures EXCEPT ![u] = {}]
  /\ \/ /\ notice' = [notice EXCEPT ![u] = TRUE]
        /\ lines' = [lines EXCEPT ![u] = Nothing]
     \/ /\ lines' = [lines EXCEPT ![u] = LinesOf(u)]
        /\ UNCHANGED notice
     \/ UNCHANGED journalVars
  /\ Changed(u)
  /\ UNCHANGED <<runs, starting, workerVars, masterVars, faults>>

\* The process begins or ceases to measure clocks.  What it has logged since the
\* last read, if anything, stays unread.
Measure(u, S) ==
  /\ Running(u)
  /\ S # measures[u]
  /\ measures' = [measures EXCEPT ![u] = S]
  /\ \/ lines' = [lines EXCEPT ![u] = LinesOf(u)]
     \/ UNCHANGED lines
  /\ Changed(u)
  /\ Fault
  /\ UNCHANGED <<process, runs, starting, notice, workerVars, masterVars>>

------------------------------------------------------------------------------
(* The worker. *)

\* Mutant: what raised is tried again, and the others go on.
RaiseRetries == UNCHANGED <<workerVars, journalVars, calm>>

\* An exception ends the tasks of all units.  The next worker reads what is
\* logged while it backs off; what was logged before is too old by then.
Raise ==
  /\ up' = FALSE
  /\ wait' = BackOff
  /\ view' = [u \in Unit |-> Uninitialized]
  /\ known' = [u \in Unit |-> Nothing]
  /\ pending' = {}
  /\ round' = 0
  /\ notice' = [u \in Unit |-> FALSE]
  /\ lines' = [u \in Unit |-> Nothing]
  /\ calm' = Disturb(Unit)

\* The factory raises for a command line that it cannot parse.
FactoryRaises(u) == Running(u) /\ process[u].config \in Rejected

Observed(u) == IF Running(u) THEN process[u] ELSE Uninitialized

\* DiagWorker.__init__ constructs the tasks of all units, which are polled at
\* once.
Construct ==
  /\ ~ up
  /\ wait = 0
  /\ \A u \in Unit : ~ FactoryRaises(u)
  /\ up' = TRUE
  /\ view' = [u \in Unit |-> Observed(u)]
  /\ round' = 0
  /\ pending' = Unit
  /\ UNCHANGED <<unitVars, journalVars, wait, known, masterVars, since, calm,
                 faults>>

\* The constructor runs outside the try: the process ends, and systemd starts it
\* again.  It raises for a rejected command line, or if a process ends while its
\* command line is read.
ConstructorRaises ==
  /\ ~ up
  /\ wait = 0
  /\ \/ (\E u \in Unit : FactoryRaises(u)) /\ UNCHANGED faults
     \/ Fault
  /\ Raise
  /\ UNCHANGED <<unitVars, masterVars, since>>

\* The unread lines, those of the running process included if there are any.
Unread(u, fresh) == IF Running(u) /\ fresh THEN LinesOf(u) ELSE lines[u]

Speaks(u, unread) == \E c \in Clock : unread[c] # 0

\* The state after the start and stop messages of the batch.
ViewBefore(u) == IF notice[u] THEN Uninitialized ELSE view[u]

NeedsFactory(u, unread) == ViewBefore(u) = Uninitialized /\ Speaks(u, unread)

\* Mutant: a stopped unit is never initialised again.
ViewWithoutFactory(u, unread) == ViewBefore(u)

\* ... for which a line of the unit makes it ask the factory.
ViewAfter(u, unread) ==
  IF NeedsFactory(u, unread) THEN Observed(u) ELSE ViewBefore(u)

\* Mutant: what an earlier process measured is kept.
KnownKept(u, unread) ==
  [c \in Clock |-> IF ViewAfter(u, unread) = Uninitialized THEN 0
                   ELSE IF unread[c] # 0 THEN unread[c] ELSE known[u][c]]

\* The measurements after the batch; those made before a start or stop message
\* are forgotten.
KnownAfter(u, unread) ==
  [c \in Clock |->
     IF ViewAfter(u, unread) = Uninitialized THEN 0
     ELSE IF unread[c] # 0 THEN unread[c]
     ELSE IF ViewBefore(u) = Uninitialized THEN 0 ELSE known[u][c]]

\* Mutant: every poll sends what is known.
SendsAlways(u, unread) == ViewAfter(u, unread) # Uninitialized

\* Any line changes the state of its clock, and with it all are sent.
Sends(u, unread) ==
  ViewAfter(u, unread) # Uninitialized /\ Speaks(u, unread)

Older(m, n) == IF m < n THEN m ELSE n

\* phc2sys_to_graph_updates: the configuration with each measurement.
UpdatesOf(u, unread) ==
  {[unit |-> u, clock |-> c,
    run |-> Older(ViewAfter(u, unread).run, KnownAfter(u, unread)[c])] :
     c \in {d \in Clock : KnownAfter(u, unread)[d] # 0}}

\* Phc2SysMonitorTask.poll, of which "lost" does not reach the master.
Poll(u, fresh, lost) ==
  LET unread == Unread(u, fresh)
      updates == IF Sends(u, unread) THEN UpdatesOf(u, unread) ELSE {}
      missed == ~ fresh /\ Running(u) /\ ~ starting[u] /\ measures[u] # {}
  IN  /\ ~ (NeedsFactory(u, unread) /\ FactoryRaises(u))
      /\ lost \subseteq updates
      /\ IF lost # {} \/ missed THEN Fault /\ calm' = Disturb({u})
         ELSE UNCHANGED <<faults, calm>>
      /\ view' = [view EXCEPT ![u] = ViewAfter(u, unread)]
      /\ known' = [known EXCEPT ![u] = KnownAfter(u, unread)]
      /\ net' = net \cup {[update |-> m, age |-> 0] : m \in updates \ lost}
      /\ notice' = [notice EXCEPT ![u] = FALSE]
      /\ lines' = [lines EXCEPT ![u] = Nothing]
      /\ pending' = pending \ {u}
      /\ UNCHANGED <<unitVars, up, wait, round, age, since>>

\* The factory raises in poll.
PollRaises(u, fresh) ==
  /\ NeedsFactory(u, Unread(u, fresh)) /\ FactoryRaises(u)
  /\ Raise
  /\ UNCHANGED <<unitVars, masterVars, since, faults>>

\* Another task raises, or the worker is restarted.
Crash ==
  /\ up
  /\ Fault
  /\ Raise
  /\ UNCHANGED <<unitVars, masterVars, since>>

------------------------------------------------------------------------------
(* The topic and the master. *)

\* on_graph_update
Deliver(m) ==
  /\ m \in net
  /\ net' = net \ {m}
  /\ age' = [age EXCEPT ![m.update] = 0]
  /\ UNCHANGED <<unitVars, journalVars, workerVars, since, calm, faults>>

\* Mutant: no update is dropped.
ExpiresNever(a) == a

\* Mutant: an update expires a tick too early.
ExpiresEarly(a) == IF a < Expiry - 1 THEN a ELSE Expiry

\* _drop_expired_updates
Expires(a) == IF a < Expiry THEN a ELSE Expiry

UpTo(n, max) == IF n < max THEN n + 1 ELSE max

\* Time passes when nothing is due.
Tick ==
  /\ \A u \in Unit : ~ starting[u]
  /\ \A m \in net : m.age < MaxDelay
  /\ IF up THEN pending = {} ELSE wait > 0
  /\ wait' = IF up THEN wait ELSE wait - 1
  /\ round' = IF up /\ round + 1 < Period THEN round + 1 ELSE 0
  /\ pending' = IF up /\ round' = 0 THEN Unit ELSE {}
  /\ net' = {[m EXCEPT !.age = @ + 1] : m \in net}
  /\ age' = [m \in Update |-> Expires(age[m] + 1)]
  /\ since' = [u \in Unit |-> UpTo(since[u], Silenced)]
  /\ calm' = [u \in Unit |-> IF up THEN UpTo(calm[u], Calm) ELSE calm[u]]
  /\ UNCHANGED <<unitVars, journalVars, up, view, known, faults>>

------------------------------------------------------------------------------
Init ==
  /\ process = [u \in Unit |-> NoProcess]
  /\ runs = [u \in Unit |-> 0]
  /\ starting = [u \in Unit |-> FALSE]
  /\ measures = [u \in Unit |-> {}]
  /\ notice = [u \in Unit |-> FALSE]
  /\ lines = [u \in Unit |-> Nothing]
  /\ up = FALSE
  /\ wait = 0
  /\ view = [u \in Unit |-> Uninitialized]
  /\ known = [u \in Unit |-> Nothing]
  /\ round = 0
  /\ pending = {}
  /\ net = {}
  /\ age = [m \in Update |-> Expiry]
  /\ since = [u \in Unit |-> Silenced]
  /\ calm = [u \in Unit |-> 0]
  /\ faults = 0

PollStep ==
  \E u \in pending, fresh \in BOOLEAN :
    \/ \E lost \in SUBSET UpdatesOf(u, Unread(u, fresh)) : Poll(u, fresh, lost)
    \/ PollRaises(u, fresh)

Next ==
  \/ \E s \in Starts : Start(s.unit, s.config, s.measures)
  \/ \E u \in Unit : AnnounceStart(u)
  \/ \E u \in Unit : Exit(u)
  \/ \E u \in Unit : \E S \in Measurable[u] : Measure(u, S)
  \/ Construct
  \/ ConstructorRaises
  \/ PollStep
  \/ Crash
  \/ \E m \in net : Deliver(m)
  \/ Tick

\* Whatever is due happens, in any order, and then time passes.
Fairness ==
  WF_vars(\/ Tick
          \/ \E u \in Unit : AnnounceStart(u)
          \/ \E m \in net : Deliver(m)
          \/ Construct
          \/ PollStep
          \/ ConstructorRaises)

Spec == Init /\ [][Next]_vars /\ Fairness
------------------------------------------------------------------------------
(* Properties. *)

\* Every variable has its type, and the bounds hold.
HTypeOK ==
  /\ process \in [Unit -> Process \cup {NoProcess}]
  /\ runs \in [Unit -> 0..MaxRuns]
  /\ starting \in [Unit -> BOOLEAN]
  /\ measures \in [Unit -> SUBSET Clock]
  /\ notice \in [Unit -> BOOLEAN]
  /\ lines \in [Unit -> [Clock -> 0..MaxRuns]]
  /\ up \in BOOLEAN
  /\ wait \in 0..BackOff
  /\ view \in [Unit -> Process \cup {Uninitialized}]
  /\ known \in [Unit -> [Clock -> 0..MaxRuns]]
  /\ round \in 0..(Period - 1)
  /\ pending \subseteq Unit
  /\ net \subseteq [update : Update, age : 0..MaxDelay]
  /\ age \in [Update -> 0..Expiry]
  /\ since \in [Unit -> 0..Silenced]
  /\ calm \in [Unit -> 0..Calm]
  /\ faults \in 0..MaxFaults

\* Whether a graph built now has the link of m.
Shown(m) == age[m] < Expiry

\* Once a unit has settled, the graphs say nothing of an earlier process of it:
\* neither lines read late, nor updates that resend what was known, nor those
\* under way, nor the window outlive a process by more than a poll, a delivery
\* and the expiry.  This holds whatever is lost and whenever the worker crashes.
NothingOutlivesItsProcess ==
  \A m \in Update :
    Shown(m) /\ since[m.unit] >= Settled =>
      Running(m.unit) /\ m.run = process[m.unit].run

\* A unit that measures nothing any more disappears from the graphs, so that its
\* clocks are diagnosed as missing: its last state is not sent for ever.  It is
\* sent once more by a worker that was down when the unit fell silent and reads
\* its last lines only after the back-off, so the bound is longer than that of a
\* process that was replaced.
SilenceIsNoticed ==
  \A m \in Update :
    measures[m.unit] = {} /\ since[m.unit] = Silenced => ~ Shown(m)

\* While the worker runs, and its polls succeed, every clock that a unit measures
\* is in every graph from the first poll and delivery on: no healthy clock is
\* diagnosed as missing, although updates may be late and expire.
HealthyIsShown ==
  \A u \in Unit : up /\ Running(u) /\ calm[u] = Calm =>
    \A c \in measures[u] :
      Shown([unit |-> u, clock |-> c, run |-> process[u].run])

\* If all units keep running, with configurations that the worker accepts, then
\* all their clocks end up in every graph, whatever came before.
AllRecover ==
  <>[](\A u \in Unit : Running(u) /\ process[u].config \notin Rejected) =>
    <>[](\A u \in Unit : Running(u) /\ \A c \in measures[u] :
           Shown([unit |-> u, clock |-> c, run |-> process[u].run]))

\* A unit that logs under a configuration that the worker rejects silences all
\* units of the host for as long as it runs.
OneRejectedSilencesAll ==
  <>[](\E u \in Unit :
         Running(u) /\ process[u].config \in Rejected /\ measures[u] # {}) =>
    <>[](\A m \in Update : ~ Shown(m))
=============================================================================
