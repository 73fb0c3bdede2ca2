------------------------- MODULE HostToMasterProofs -------------------------
(***************************************************************************)
(* For any units, clocks, configurations and bounds, any period, delay and *)
(* expiry: what the master shows of a host is current, and complete while  *)
(* nothing goes wrong.                                                     *)
(***************************************************************************)
EXTENDS HostToMaster, TLAPS

------------------------------------------------------------------------------
(* The types. *)

Known == [Clock -> 0..MaxRuns]

LEMMA Numbers ==
  /\ Period \in Nat /\ Period > 0 /\ BackOff \in Nat /\ MaxDelay \in Nat
  /\ Expiry \in Nat /\ Period + MaxDelay < Expiry
  /\ Calm \in Nat /\ Calm = Period + MaxDelay + 1
  /\ Settled \in Nat /\ Settled = Period + MaxDelay + Expiry
  /\ OldestLine \in Nat /\ Period <= OldestLine /\ BackOff <= OldestLine
  /\ Silenced \in Nat /\ Silenced = OldestLine + MaxDelay + Expiry
  /\ MaxRuns \in Nat /\ MaxStarts \in Nat /\ MaxFaults \in Nat
BY TimeAssumption, BoundsAssumption DEF Calm, Settled, OldestLine, Silenced

LEMMA NothingType == Nothing \in Known
BY Numbers DEF Nothing, Known

LEMMA DisturbType ==
  ASSUME HTypeOK, NEW U
  PROVE  Disturb(U) \in [Unit -> 0..Calm]
BY Numbers DEF Disturb, HTypeOK

\* The lines of a unit, read or not, are of runs that have started.
LEMMA UnreadType ==
  ASSUME HTypeOK, NEW u \in Unit, NEW fresh \in BOOLEAN
  PROVE  /\ Running(u) => LinesOf(u) \in Known
         /\ Unread(u, fresh) \in Known
<1>1. lines[u] \in Known
  BY DEF HTypeOK, Known
<1>2. ASSUME Running(u) PROVE LinesOf(u) \in Known
  <2>1. process[u].run \in 0..MaxRuns
    BY <1>2, Numbers DEF HTypeOK, Running, Process, Run
  <2>. QED
    BY <1>1, <2>1 DEF LinesOf, Known
<1>. QED
  BY <1>1, <1>2 DEF Unread

LEMMA ViewType ==
  ASSUME HTypeOK, NEW u \in Unit, NEW fresh \in BOOLEAN
  PROVE  /\ Observed(u) \in Process \cup {Uninitialized}
         /\ ViewAfter(u, Unread(u, fresh)) \in Process \cup {Uninitialized}
         /\ KnownAfter(u, Unread(u, fresh)) \in Known
<1>1. Unread(u, fresh) \in Known /\ known[u] \in Known
  BY UnreadType DEF HTypeOK, Known
<1>2. Observed(u) \in Process \cup {Uninitialized}
  BY DEF HTypeOK, Observed, Running
<1>3. ViewAfter(u, Unread(u, fresh)) \in Process \cup {Uninitialized}
  BY <1>2 DEF ViewAfter, ViewBefore, HTypeOK
<1>4. KnownAfter(u, Unread(u, fresh)) \in Known
  BY <1>1, Numbers DEF KnownAfter, Known
<1>. QED
  BY <1>2, <1>3, <1>4

LEMMA UpdatesType ==
  ASSUME HTypeOK, NEW u \in Unit, NEW fresh \in BOOLEAN,
         Sends(u, Unread(u, fresh))
  PROVE  UpdatesOf(u, Unread(u, fresh)) \subseteq Update
<1> DEFINE v == ViewAfter(u, Unread(u, fresh))
           k == KnownAfter(u, Unread(u, fresh))
<1>1. v \in Process /\ k \in Known
  BY ViewType DEF Sends
<1> HIDE DEF v, k
<1>2. v.run \in Run /\ \A c \in Clock : k[c] \in 0..MaxRuns
  BY <1>1 DEF Process, Known
<1>3. \A c \in Clock : k[c] # 0 => Older(v.run, k[c]) \in Run
  BY <1>2, Numbers DEF Older, Run
<1>. QED
  BY <1>3 DEF UpdatesOf, Update, v, k

LEMMA RaiseType ==
  ASSUME HTypeOK, Raise
  PROVE  /\ up' \in BOOLEAN /\ wait' \in 0..BackOff
         /\ view' \in [Unit -> Process \cup {Uninitialized}]
         /\ known' \in [Unit -> Known] /\ lines' \in [Unit -> Known]
         /\ notice' \in [Unit -> BOOLEAN]
         /\ pending' \subseteq Unit /\ round' \in 0..(Period - 1)
         /\ calm' \in [Unit -> 0..Calm]
<1>1. 0 \in 0..(Period - 1) /\ BackOff \in 0..BackOff
  BY Numbers
<1>2. calm' \in [Unit -> 0..Calm]
  BY DisturbType DEF Raise
<1>. QED
  BY <1>1, <1>2, NothingType DEF Raise

LEMMA FaultType ==
  ASSUME HTypeOK, Fault
  PROVE  faults' \in 0..MaxFaults
<1>1. faults \in 0..MaxFaults
  BY DEF HTypeOK
<1>. QED
  BY <1>1, Numbers DEF Fault

\* The type invariant in parts.
UnitType ==
  /\ process \in [Unit -> Process \cup {NoProcess}]
  /\ runs \in [Unit -> 0..MaxRuns]
  /\ starting \in [Unit -> BOOLEAN]
  /\ measures \in [Unit -> SUBSET Clock]
JournalType == notice \in [Unit -> BOOLEAN] /\ lines \in [Unit -> Known]
WorkerType ==
  /\ up \in BOOLEAN
  /\ wait \in 0..BackOff
  /\ view \in [Unit -> Process \cup {Uninitialized}]
  /\ known \in [Unit -> Known]
  /\ round \in 0..(Period - 1)
  /\ pending \subseteq Unit
MasterType ==
  /\ net \subseteq [update : Update, age : 0..MaxDelay]
  /\ age \in [Update -> 0..Expiry]
CountType ==
  /\ since \in [Unit -> 0..Silenced]
  /\ calm \in [Unit -> 0..Calm]
  /\ faults \in 0..MaxFaults

LEMMA TypeParts ==
  HTypeOK <=> UnitType /\ JournalType /\ WorkerType /\ MasterType /\ CountType
BY DEF HTypeOK, Known, UnitType, JournalType, WorkerType, MasterType, CountType

LEMMA HTypeInit == Init => HTypeOK
<1>. SUFFICES ASSUME Init PROVE HTypeOK
  OBVIOUS
<1>1. /\ 0 \in 0..MaxRuns /\ 0 \in 0..MaxFaults /\ 0 \in 0..BackOff /\ 0 \in 0..Calm
      /\ 0 \in 0..(Period - 1) /\ Expiry \in 0..Expiry /\ Silenced \in 0..Silenced
  BY Numbers
<1>2. UnitType /\ JournalType
  BY <1>1, NothingType DEF Init, UnitType, JournalType
<1>3. WorkerType
  BY <1>1, NothingType DEF Init, WorkerType
<1>4. MasterType /\ CountType
  BY <1>1 DEF Init, MasterType, CountType
<1>. QED
  BY <1>2, <1>3, <1>4, TypeParts

\* The steps of a unit count from anew.
LEMMA ChangedType ==
  ASSUME HTypeOK, NEW u \in Unit, Changed(u), faults' \in 0..MaxFaults
  PROVE  CountType'
<1>1. 0 \in 0..Silenced
  BY Numbers
<1>. QED
  BY <1>1, DisturbType DEF Changed, CountType, HTypeOK

LEMMA HTypeStep == HTypeOK /\ [Next]_vars => HTypeOK'
<1>. SUFFICES ASSUME HTypeOK, [Next]_vars PROVE HTypeOK'
  OBVIOUS
<1>1. UnitType /\ JournalType /\ WorkerType /\ MasterType /\ CountType
  BY TypeParts
<1>2. /\ UNCHANGED unitVars => UnitType'
      /\ UNCHANGED journalVars => JournalType'
      /\ UNCHANGED workerVars => WorkerType'
      /\ UNCHANGED masterVars => MasterType'
      /\ UNCHANGED <<since, calm, faults>> => CountType'
  BY <1>1 DEF UnitType, JournalType, WorkerType, MasterType, CountType, unitVars,
              journalVars, workerVars, masterVars
<1>4. SUFFICES UnitType' /\ JournalType' /\ WorkerType' /\ MasterType' /\ CountType'
  BY TypeParts DEF HTypeOK, Known, UnitType, JournalType, WorkerType, MasterType, CountType
<1>5. CASE \E s \in Starts : Start(s.unit, s.config, s.measures)
  <2>1. PICK s \in Starts : Start(s.unit, s.config, s.measures)
    BY <1>5
  <2>2. s.unit \in Unit /\ s.config \in Config /\ s.measures \subseteq Clock
    BY UnitsAssumption
  <2> DEFINE n == runs[s.unit] + 1
  <2>3. n \in 0..MaxRuns /\ n \in Run
    BY <1>1, <2>1, <2>2, Numbers DEF Start, UnitType, Run
  <2>4. [run |-> n, config |-> s.config] \in Process
    BY <2>2, <2>3 DEF Process
  <2>5. /\ process' = [process EXCEPT ![s.unit] = [run |-> n, config |-> s.config]]
        /\ runs' = [runs EXCEPT ![s.unit] = n]
        /\ starting' = [starting EXCEPT ![s.unit] = TRUE]
        /\ measures' = [measures EXCEPT ![s.unit] = s.measures]
    BY <2>1 DEF Start
  <2> HIDE DEF n
  <2>6. UnitType'
    BY <1>1, <2>2, <2>3, <2>4, <2>5 DEF UnitType
  <2>7. CountType'
    BY <1>1, <2>1, <2>2, ChangedType DEF Start, CountType
  <2>. QED
    BY <1>2, <2>1, <2>6, <2>7 DEF Start
<1>6. CASE \E u \in Unit : AnnounceStart(u)
  <2>1. PICK u \in Unit : AnnounceStart(u)
    BY <1>6
  <2>2. UnitType' /\ JournalType'
    BY <1>1, <2>1, NothingType DEF AnnounceStart, UnitType, JournalType
  <2>. QED
    BY <1>2, <2>1, <2>2 DEF AnnounceStart
<1>7. CASE \E u \in Unit : Exit(u)
  <2>1. PICK u \in Unit : Exit(u)
    BY <1>7
  <2>2. UnitType'
    BY <1>1, <2>1 DEF Exit, UnitType
  <2>3. LinesOf(u) \in Known
    BY <2>1, UnreadType DEF Exit
  <2>4. JournalType'
    BY <1>1, <2>1, <2>3, NothingType DEF Exit, JournalType, journalVars
  <2>5. CountType'
    BY <1>1, <2>1, ChangedType DEF Exit, CountType
  <2>. QED
    BY <1>2, <2>1, <2>2, <2>4, <2>5 DEF Exit
<1>8. CASE \E u \in Unit : \E S \in Measurable[u] : Measure(u, S)
  <2>1. PICK u \in Unit : \E S \in Measurable[u] : Measure(u, S)
    BY <1>8
  <2>2. PICK S \in Measurable[u] : Measure(u, S)
    BY <2>1
  <2>3. S \subseteq Clock
    BY UnitsAssumption
  <2>4. UnitType'
    BY <1>1, <2>2, <2>3 DEF Measure, UnitType
  <2>5. CountType'
    BY <2>2, ChangedType, FaultType DEF Measure
  <2>6. JournalType'
    <3>1. LinesOf(u) \in Known
      BY <2>2, UnreadType DEF Measure
    <3>. QED
      BY <1>1, <2>2, <3>1 DEF Measure, JournalType
  <2>. QED
    BY <1>2, <2>2, <2>4, <2>5, <2>6 DEF Measure
<1>9. CASE Construct
  <2>1. WorkerType'
    <3>1. 0 \in 0..(Period - 1)
      BY Numbers
    <3>2. \A u \in Unit : Observed(u) \in Process \cup {Uninitialized}
      BY ViewType
    <3>. QED
      BY <1>1, <1>9, <3>1, <3>2 DEF Construct, WorkerType
  <2>. QED
    BY <1>2, <1>9, <2>1 DEF Construct
<1>10. ASSUME Raise, faults' \in 0..MaxFaults, UNCHANGED <<unitVars, masterVars, since>>
       PROVE  UnitType' /\ JournalType' /\ WorkerType' /\ MasterType' /\ CountType'
  <2>1. JournalType' /\ WorkerType'
    BY <1>10, RaiseType DEF JournalType, WorkerType
  <2>2. CountType'
    BY <1>1, <1>10, RaiseType DEF CountType
  <2>. QED
    BY <1>2, <1>10, <2>1, <2>2
<1>11. CASE ConstructorRaises \/ Crash
  <2>1. faults' \in 0..MaxFaults
    BY <1>1, <1>11, FaultType DEF ConstructorRaises, Crash, CountType
  <2>. QED
    BY <1>10, <1>11, <2>1 DEF ConstructorRaises, Crash
<1>12. ASSUME NEW u \in pending, NEW fresh \in BOOLEAN, PollRaises(u, fresh)
       PROVE  UnitType' /\ JournalType' /\ WorkerType' /\ MasterType' /\ CountType'
  BY <1>1, <1>10, <1>12 DEF PollRaises, CountType
<1>13. ASSUME NEW u \in pending, NEW fresh \in BOOLEAN, NEW lost, Poll(u, fresh, lost)
       PROVE  UnitType' /\ JournalType' /\ WorkerType' /\ MasterType' /\ CountType'
  <2> DEFINE unread == Unread(u, fresh)
             updates == IF Sends(u, unread) THEN UpdatesOf(u, unread) ELSE {}
  <2>1. u \in Unit
    BY <1>1 DEF WorkerType
  <2>2. updates \subseteq Update
    BY <2>1, UpdatesType
  <2>3. ViewAfter(u, unread) \in Process \cup {Uninitialized} /\ KnownAfter(u, unread) \in Known
    BY <2>1, ViewType
  <2>4. /\ view' = [view EXCEPT ![u] = ViewAfter(u, unread)]
        /\ known' = [known EXCEPT ![u] = KnownAfter(u, unread)]
        /\ net' = net \cup {[update |-> m, age |-> 0] : m \in updates \ lost}
        /\ notice' = [notice EXCEPT ![u] = FALSE]
        /\ lines' = [lines EXCEPT ![u] = Nothing]
        /\ pending' = pending \ {u}
        /\ UNCHANGED <<unitVars, up, wait, round, age, since>>
        /\ \/ Fault /\ calm' = Disturb({u})
           \/ UNCHANGED <<faults, calm>>
    BY <1>13 DEF Poll
  <2> HIDE DEF unread, updates
  <2>5. WorkerType'
    BY <1>1, <2>1, <2>3, <2>4 DEF WorkerType
  <2>6. JournalType'
    BY <1>1, <2>4, NothingType DEF JournalType
  <2>7. MasterType'
    BY <1>1, <2>2, <2>4, Numbers DEF MasterType
  <2>8. CountType'
    BY <1>1, <2>4, DisturbType, FaultType DEF CountType
  <2>. QED
    BY <1>2, <2>4, <2>5, <2>6, <2>7, <2>8
<1>14. CASE PollStep
  BY <1>12, <1>13, <1>14 DEF PollStep
<1>15. CASE \E m \in net : Deliver(m)
  <2>1. PICK m \in net : Deliver(m)
    BY <1>15
  <2>2. MasterType'
    BY <1>1, <2>1, Numbers DEF Deliver, MasterType
  <2>. QED
    BY <1>2, <2>1, <2>2 DEF Deliver
<1>16. CASE Tick
  <2>1. WorkerType'
    <3>1. wait' \in 0..BackOff
      BY <1>1, <1>16, Numbers DEF Tick, WorkerType
    <3>2. round' \in 0..(Period - 1)
      BY <1>1, <1>16, Numbers DEF Tick, WorkerType
    <3>. QED
      BY <1>1, <1>16, <3>1, <3>2 DEF Tick, WorkerType
  <2>2. \A a \in 0..Expiry : Expires(a + 1) \in 0..Expiry
    BY Numbers DEF Expires
  <2>3. MasterType'
    <3>1. age' \in [Update -> 0..Expiry]
      BY <1>1, <1>16, <2>2 DEF Tick, MasterType
    <3>2. ASSUME NEW m \in net
          PROVE  [m EXCEPT !.age = @ + 1] \in [update : Update, age : 0..MaxDelay]
      BY <1>1, <1>16, Numbers DEF Tick, MasterType
    <3>. QED
      BY <1>16, <3>1, <3>2 DEF Tick, MasterType
  <2>4. CountType'
    <3>1. \A n \in Nat : \A k \in 0..n : UpTo(k, n) \in 0..n
      BY DEF UpTo
    <3>. QED
      BY <1>1, <1>16, <3>1, Numbers DEF Tick, CountType
  <2>. QED
    BY <1>2, <1>16, <2>1, <2>3, <2>4 DEF Tick
<1>17. CASE UNCHANGED vars
  BY <1>2, <1>17 DEF vars
<1>. QED
  BY <1>5, <1>6, <1>7, <1>8, <1>9, <1>11, <1>14, <1>15, <1>16, <1>17 DEF Next

\* Every variable keeps its type.
THEOREM HostTypeCorrect == Spec => []HTypeOK
BY HTypeInit, HTypeStep, PTL DEF Spec

------------------------------------------------------------------------------
(* What outlives a process, and for how long. *)

\* An update that is not of the process that runs now.
Outdated(m) == ~ Running(m.unit) \/ m.run # process[m.unit].run

\* An update that says nothing of the present: its unit may also have fallen
\* silent.
Past(m) == Outdated(m) \/ measures[m.unit] = {}

\* How long after the change of its unit such an update may still be sent.  A
\* process that has ended leaves nothing to send for a worker that starts later,
\* but the last lines of one that has fallen silent do.
SentWithin(m) == IF Outdated(m) THEN Period ELSE OldestLine

\* What the worker knows of a unit is of the process that runs.
Fresh(u) ==
  /\ view[u] \in {Uninitialized, process[u]}
  /\ \A c \in Clock : known[u][c] \in {0, process[u].run}

\* The last lines of a unit that has fallen silent are read within a period by
\* a worker that runs, and at once by one that starts.
SilentInv(u) ==
  measures[u] = {} =>
    \/ lines[u] = Nothing
    \/ since[u] <= (IF ~ up THEN BackOff - wait
                    ELSE IF u \in pending THEN OldestLine ELSE round)

\* Once the start of a process is logged, all lines before it are forgotten in
\* the next poll.  After its end the last lines are sent in a poll that comes
\* within a period, unless there is no view to send them with.
UnitInv(u) ==
  /\ starting[u] => Running(u) /\ since[u] = 0
  /\ Running(u) /\ ~ starting[u] =>
       /\ \A c \in Clock : lines[u][c] \in {0, process[u].run}
       /\ notice[u] \/ Fresh(u)
  /\ ~ Running(u) =>
       \/ view[u] = Uninitialized
       \/ lines[u] = Nothing
       \/ up /\ since[u] <= (IF u \in pending THEN Period ELSE round)

\* An update of the past was sent at most so long after the change of its unit ...
NetInv ==
  \A n \in net :
    Past(n.update) => since[n.update.unit] <= SentWithin(n.update) + n.age

\* ... and delivered at most MaxDelay later.
WindowInv ==
  \A m \in Update :
    Past(m) => \/ age[m] = Expiry
               \/ since[m.unit] <= SentWithin(m) + MaxDelay + age[m]

\* All units are polled at the beginning of a period, by a worker that runs.
PollsWhileUp == pending # {} => up /\ round = 0

\* The inductive invariant.
StaleInv ==
  /\ HTypeOK
  /\ PollsWhileUp
  /\ ~ up => /\ view = [u \in Unit |-> Uninitialized]
             /\ known = [u \in Unit |-> Nothing]
  /\ \A u \in Unit : UnitInv(u) /\ SilentInv(u)
  /\ NetInv
  /\ WindowInv

LEMMA StaleInvInit == Init => StaleInv
<1>. SUFFICES ASSUME Init PROVE StaleInv
  OBVIOUS
<1>1. HTypeOK
  BY HTypeInit
<1>2. \A u \in Unit : UnitInv(u) /\ SilentInv(u)
  BY DEF Init, UnitInv, SilentInv, Running
<1>. QED
  BY <1>1, <1>2 DEF Init, StaleInv, PollsWhileUp, NetInv, WindowInv

\* A change of a unit starts all bounds of its updates anew.
LEMMA ChangeBounds ==
  ASSUME StaleInv, NEW u \in Unit, since' = [since EXCEPT ![u] = 0],
         UNCHANGED masterVars,
         \A v \in Unit : v # u => process'[v] = process[v] /\ measures'[v] = measures[v]
  PROVE  NetInv' /\ WindowInv'
<1>1. /\ since \in [Unit -> 0..Silenced]
      /\ net \subseteq [update : Update, age : 0..MaxDelay] /\ age \in [Update -> 0..Expiry]
  BY DEF StaleInv, HTypeOK
<1>2. net' = net /\ age' = age
  BY DEF masterVars
<1>3. ASSUME NEW m \in Update, Past(m)'
      PROVE  \/ since'[m.unit] = 0
             \/ /\ Past(m) /\ since'[m.unit] = since[m.unit]
                /\ SentWithin(m)' = SentWithin(m)
  <2>1. m.unit \in Unit
    BY DEF Update
  <2>2. CASE m.unit = u
    BY <1>1, <2>2
  <2>3. CASE m.unit # u
    BY <1>1, <1>3, <2>1, <2>3 DEF Past, SentWithin, Outdated, Running
  <2>. QED
    BY <2>2, <2>3
<1>4. NetInv'
  <2>1. ASSUME NEW n \in net, Past(n.update)'
        PROVE  since'[n.update.unit] <= SentWithin(n.update)' + n.age
    <3>1. n.update \in Update /\ n.age \in 0..MaxDelay
      BY <1>1
    <3>2. CASE since'[n.update.unit] = 0
      BY <3>1, <3>2, Numbers DEF SentWithin
    <3>3. CASE /\ Past(n.update) /\ since'[n.update.unit] = since[n.update.unit]
               /\ SentWithin(n.update)' = SentWithin(n.update)
      BY <3>3 DEF StaleInv, NetInv
    <3>. QED
      BY <1>3, <2>1, <3>1, <3>2, <3>3
  <2>. QED
    BY <1>2, <2>1 DEF NetInv
<1>5. WindowInv'
  <2>1. ASSUME NEW m \in Update, Past(m)'
        PROVE  age[m] = Expiry \/ since'[m.unit] <= SentWithin(m)' + MaxDelay + age[m]
    <3>1. age[m] \in 0..Expiry
      BY <1>1
    <3>2. CASE since'[m.unit] = 0
      BY <3>1, <3>2, Numbers DEF SentWithin
    <3>3. CASE /\ Past(m) /\ since'[m.unit] = since[m.unit]
               /\ SentWithin(m)' = SentWithin(m)
      BY <3>3 DEF StaleInv, WindowInv
    <3>. QED
      BY <1>3, <2>1, <3>2, <3>3
  <2>. QED
    BY <1>2, <2>1 DEF WindowInv
<1>. QED
  BY <1>4, <1>5

LEMMA SameBounds ==
  ASSUME StaleInv, UNCHANGED <<process, measures, masterVars, since>>
  PROVE  NetInv' /\ WindowInv'
BY DEF StaleInv, NetInv, WindowInv, Past, SentWithin, Outdated, Running, masterVars

\* What the invariant of a unit depends on.
LEMMA SameUnit ==
  ASSUME NEW v \in Unit, UnitInv(v), SilentInv(v),
         process'[v] = process[v], starting'[v] = starting[v], since'[v] = since[v],
         measures'[v] = measures[v], lines'[v] = lines[v], notice'[v] = notice[v],
         view'[v] = view[v], known'[v] = known[v], up' = up, wait' = wait,
         round' = round, v \in pending' <=> v \in pending
  PROVE  UnitInv(v)' /\ SilentInv(v)'
BY DEF UnitInv, SilentInv, Running, Fresh

LEMMA ChangeUnits ==
  ASSUME StaleInv, NEW u \in Unit, Changed(u), UNCHANGED workerVars,
         \A v \in Unit : v # u =>
           /\ process'[v] = process[v] /\ starting'[v] = starting[v]
           /\ measures'[v] = measures[v]
           /\ lines'[v] = lines[v] /\ notice'[v] = notice[v],
         since'[u] = 0 => UnitInv(u)'
  PROVE  \A v \in Unit : UnitInv(v)' /\ SilentInv(v)'
<1>1. since \in [Unit -> 0..Silenced] /\ since' = [since EXCEPT ![u] = 0]
  BY DEF StaleInv, HTypeOK, Changed
<1>2. ASSUME NEW v \in Unit, v # u PROVE UnitInv(v)' /\ SilentInv(v)'
  BY <1>1, <1>2, SameUnit DEF StaleInv, workerVars
<1>3. since'[u] = 0
  BY <1>1
<1>4. SilentInv(u)'
  <2>1. BackOff - wait' >= 0 /\ round' >= 0
    BY Numbers DEF StaleInv, HTypeOK, workerVars
  <2>. QED
    BY <1>3, <2>1, Numbers DEF SilentInv
<1>. QED
  BY <1>2, <1>3, <1>4

LEMMA StaleStart ==
  ASSUME StaleInv, NEW u \in Unit, NEW c \in Config, NEW S, Start(u, c, S)
  PROVE  (\A v \in Unit : UnitInv(v)' /\ SilentInv(v)') /\ NetInv' /\ WindowInv'
<1>1. UnitType /\ process' = [process EXCEPT ![u] = [run |-> runs[u] + 1, config |-> c]]
  BY TypeParts DEF StaleInv, Start
<1>2. process'[u] # NoProcess
  <2>1. runs[u] + 1 \in Run
    BY <1>1, Numbers DEF Start, UnitType, Run
  <2>2. [run |-> runs[u] + 1, config |-> c] \in Process
    BY <2>1 DEF Process
  <2>. QED
    BY <1>1, <2>2, UnitsAssumption DEF UnitType
<1>3. since'[u] = 0 => UnitInv(u)'
  BY <1>1, <1>2 DEF Start, UnitType, UnitInv, Running
<1>4. \A v \in Unit : UnitInv(v)' /\ SilentInv(v)'
  BY <1>1, <1>3, ChangeUnits DEF Start, UnitType, journalVars
<1>. QED
  BY <1>1, <1>4, ChangeBounds DEF Start, Changed, UnitType

LEMMA StaleExit ==
  ASSUME StaleInv, NEW u \in Unit, Exit(u)
  PROVE  (\A v \in Unit : UnitInv(v)' /\ SilentInv(v)') /\ NetInv' /\ WindowInv'
<1>1. UnitType /\ JournalType /\ WorkerType
  BY TypeParts DEF StaleInv
<1>2. process'[u] = NoProcess /\ starting'[u] = FALSE
  BY <1>1 DEF Exit, UnitType
<1>3. UnitInv(u) /\ Running(u) /\ ~ starting[u] /\ (~ up => view[u] = Uninitialized)
  BY DEF StaleInv, Exit
<1>4. ASSUME since'[u] = 0 PROVE UnitInv(u)'
  <2>1. 0 <= (IF u \in pending' THEN Period ELSE round')
    BY <1>1, Numbers DEF Exit, WorkerType, workerVars
  <2>2. UNCHANGED <<up, view>>
    BY DEF Exit, workerVars
  <2>3. CASE up
    BY <1>2, <1>4, <2>1, <2>2, <2>3 DEF UnitInv, Running
  <2>4. CASE ~ up
    BY <1>2, <1>3, <2>2, <2>4 DEF UnitInv, Running
  <2>. QED
    BY <2>3, <2>4
<1>5. \A v \in Unit : UnitInv(v)' /\ SilentInv(v)'
  BY <1>1, <1>4, ChangeUnits DEF Exit, UnitType, JournalType, journalVars
<1>. QED
  BY <1>1, <1>5, ChangeBounds DEF Exit, Changed, UnitType

LEMMA StaleMeasure ==
  ASSUME StaleInv, NEW u \in Unit, NEW S, Measure(u, S)
  PROVE  (\A v \in Unit : UnitInv(v)' /\ SilentInv(v)') /\ NetInv' /\ WindowInv'
<1>1. UnitType
  BY TypeParts DEF StaleInv
<1>2. /\ Running(u) /\ UNCHANGED <<process, starting, notice, view, known>>
      /\ \A c \in Clock : lines'[u][c] \in {lines[u][c], process[u].run}
  BY DEF StaleInv, HTypeOK, Measure, LinesOf, workerVars
<1>3. since'[u] = 0 => UnitInv(u)'
  BY <1>2 DEF StaleInv, UnitInv, Running, Fresh
<1>4. \A v \in Unit : UnitInv(v)' /\ SilentInv(v)'
  BY <1>1, <1>3, ChangeUnits DEF Measure, UnitType, StaleInv, HTypeOK
<1>. QED
  BY <1>1, <1>4, ChangeBounds DEF Measure, Changed, UnitType

LEMMA StaleAnnounce ==
  ASSUME StaleInv, NEW u \in Unit, AnnounceStart(u)
  PROVE  (\A v \in Unit : UnitInv(v)' /\ SilentInv(v)') /\ NetInv' /\ WindowInv'
<1>1. UnitType /\ JournalType
  BY TypeParts DEF StaleInv
<1>2. UnitInv(u)' /\ SilentInv(u)'
  <2>1. /\ starting'[u] = FALSE /\ notice'[u] = TRUE /\ lines'[u] = Nothing
    BY <1>1 DEF AnnounceStart, UnitType, JournalType
  <2>. QED
    BY <2>1 DEF AnnounceStart, StaleInv, UnitInv, SilentInv, Running, Nothing
<1>3. ASSUME NEW v \in Unit, v # u PROVE UnitInv(v)' /\ SilentInv(v)'
  BY <1>1, <1>3, SameUnit
     DEF StaleInv, AnnounceStart, UnitType, JournalType, workerVars
<1>. QED
  BY <1>2, <1>3, SameBounds DEF AnnounceStart

\* An exception leaves nothing that could be sent.
LEMMA StaleRaise ==
  ASSUME StaleInv, Raise, UNCHANGED <<unitVars, masterVars, since>>
  PROVE  (\A v \in Unit : UnitInv(v)' /\ SilentInv(v)') /\ NetInv' /\ WindowInv'
<1>1. ASSUME NEW v \in Unit PROVE UnitInv(v)' /\ SilentInv(v)'
  <2>1. /\ view'[v] = Uninitialized /\ lines'[v] = Nothing
        /\ \A c \in Clock : known'[v][c] = 0
    BY DEF Raise, Nothing
  <2>. QED
    BY <2>1 DEF StaleInv, UnitInv, SilentInv, Running, Fresh, unitVars, Nothing
<1>. QED
  BY <1>1, SameBounds DEF unitVars

LEMMA StaleConstruct ==
  ASSUME StaleInv, Construct
  PROVE  (\A v \in Unit : UnitInv(v)' /\ SilentInv(v)') /\ NetInv' /\ WindowInv'
<1>1. ASSUME NEW v \in Unit PROVE UnitInv(v)' /\ SilentInv(v)'
  <2>1. /\ view'[v] = Observed(v)
        /\ \A c \in Clock : known'[v][c] = 0
    BY DEF StaleInv, Construct, Nothing
  <2>2. view'[v] = IF Running(v) THEN process[v] ELSE Uninitialized
    BY <2>1 DEF Observed
  <2>3. UnitInv(v)'
    BY <2>1, <2>2 DEF StaleInv, Construct, UnitInv, Running, Fresh, unitVars, journalVars
  <2>4. SilentInv(v) /\ since[v] \in Nat
    BY Numbers DEF StaleInv, HTypeOK
  <2>5. SilentInv(v)'
    BY <2>4, Numbers DEF Construct, SilentInv, unitVars, journalVars
  <2>. QED
    BY <2>3, <2>5
<1>. QED
  BY <1>1, SameBounds DEF Construct, unitVars

LEMMA StaleDeliver ==
  ASSUME StaleInv, NEW m \in net, Deliver(m)
  PROVE  (\A v \in Unit : UnitInv(v)' /\ SilentInv(v)') /\ NetInv' /\ WindowInv'
<1>1. HTypeOK /\ MasterType /\ CountType
  BY TypeParts DEF StaleInv
<1>2. m.update \in Update /\ m.age \in 0..MaxDelay /\ m.update.unit \in Unit
  BY <1>1 DEF MasterType, Update
<1>3. ASSUME NEW v \in Unit PROVE UnitInv(v)' /\ SilentInv(v)'
  BY SameUnit DEF StaleInv, Deliver, unitVars, journalVars, workerVars
<1>4. NetInv'
  BY DEF StaleInv, NetInv, Deliver, Past, SentWithin, Outdated, Running, unitVars
<1>5. ASSUME NEW k \in Update, Past(k)
      PROVE  age'[k] = Expiry \/ since[k.unit] <= SentWithin(k) + MaxDelay + age'[k]
  <2>1. CASE k = m.update
    <3>1. since[k.unit] <= SentWithin(k) + m.age /\ since[k.unit] \in 0..Silenced
      BY <1>1, <1>2, <1>5, <2>1 DEF StaleInv, NetInv, CountType
    <3>2. age'[k] = 0
      BY <1>1, <1>2, <2>1 DEF Deliver, MasterType
    <3>3. since[k.unit] <= SentWithin(k) + MaxDelay + 0
      BY <1>2, <3>1, Numbers DEF SentWithin
    <3>. QED
      BY <3>2, <3>3
  <2>2. CASE k # m.update
    <3>1. age'[k] = age[k]
      BY <1>1, <2>2 DEF Deliver, MasterType
    <3>. QED
      BY <1>5, <3>1 DEF StaleInv, WindowInv
  <2>. QED
    BY <2>1, <2>2
<1>6. WindowInv'
  BY <1>5 DEF WindowInv, Deliver, Past, SentWithin, Outdated, Running, unitVars
<1>. QED
  BY <1>3, <1>4, <1>6

LEMMA SinceTicks ==
  ASSUME HTypeOK, Tick, NEW u \in Unit
  PROVE  since[u] \in Nat /\ since'[u] \in Nat /\ since'[u] <= since[u] + 1
BY Numbers DEF HTypeOK, Tick, UpTo

LEMMA AgeTicks ==
  ASSUME HTypeOK, Tick, NEW m \in Update
  PROVE  /\ age[m] \in 0..Expiry
         /\ age'[m] = IF age[m] + 1 < Expiry THEN age[m] + 1 ELSE Expiry
BY DEF HTypeOK, Tick, Expires

LEMMA StaleTick ==
  ASSUME StaleInv, Tick
  PROVE  (\A v \in Unit : UnitInv(v)' /\ SilentInv(v)') /\ NetInv' /\ WindowInv'
<1>1. HTypeOK /\ MasterType /\ WorkerType
  BY TypeParts DEF StaleInv
<1>2. UNCHANGED <<process, measures, starting, notice, lines, up, view, known>>
  BY DEF Tick, unitVars, journalVars
<1>3. ASSUME NEW v \in Unit PROVE UnitInv(v)' /\ SilentInv(v)'
  <2>1. UnitInv(v) /\ SilentInv(v) /\ ~ starting[v] /\ (up => v \notin pending)
    BY DEF StaleInv, Tick
  <2>2. ASSUME up, since[v] <= round
        PROVE  since'[v] <= (IF v \in pending' THEN Period ELSE round')
    <3>1. v \notin pending /\ round \in 0..(Period - 1)
      BY <1>1, <2>1, <2>2 DEF WorkerType
    <3>2. since'[v] <= round + 1
      BY <1>1, <2>2, <3>1, SinceTicks, Numbers
    <3>3. CASE round + 1 < Period
      <4>1. round' = round + 1 /\ v \notin pending'
        BY <2>2, <3>1, <3>3, Numbers DEF Tick
      <4>. QED
        BY <3>2, <4>1
    <3>4. CASE ~ (round + 1 < Period)
      <4>1. v \in pending' /\ round + 1 = Period
        BY <2>2, <3>1, <3>4, Numbers DEF Tick
      <4>. QED
        BY <3>2, <4>1
    <3>. QED
      BY <3>3, <3>4
  <2>3. UnitInv(v)'
    BY <1>2, <2>1, <2>2 DEF UnitInv, Running, Fresh
  <2>4. ASSUME ~ up, since[v] <= BackOff - wait
        PROVE  since'[v] <= BackOff - wait'
    <3>1. wait \in Nat /\ wait' = wait - 1
      BY <1>1, <2>4, Numbers DEF Tick, WorkerType
    <3>. QED
      BY <1>1, <2>4, <3>1, SinceTicks, Numbers
  <2>5. ASSUME up, since[v] <= round
        PROVE  since'[v] <= (IF v \in pending' THEN OldestLine ELSE round')
    BY <1>1, <2>2, <2>5, SinceTicks, Numbers
  <2>6. SilentInv(v)'
    BY <1>2, <2>1, <2>4, <2>5 DEF SilentInv
  <2>. QED
    BY <2>3, <2>6
<1>4. NetInv'
  <2>1. ASSUME NEW n \in net, Past(n.update)
        PROVE  since'[n.update.unit] <= SentWithin(n.update) + (n.age + 1)
    <3>1. n.age \in Nat /\ n.update.unit \in Unit
      BY <1>1, Numbers DEF MasterType, Update
    <3>2. since[n.update.unit] <= SentWithin(n.update) + n.age
      BY <2>1 DEF StaleInv, NetInv
    <3>. QED
      BY <1>1, <3>1, <3>2, SinceTicks, Numbers DEF SentWithin
  <2>2. ASSUME NEW k \in net'
        PROVE  \E n \in net : k.update = n.update /\ k.age = n.age + 1
    <3>1. PICK n \in net : k = [n EXCEPT !.age = @ + 1]
      BY <2>2 DEF Tick
    <3>2. n \in [update : Update, age : 0..MaxDelay]
      BY <1>1 DEF MasterType
    <3>. QED
      BY <3>1, <3>2
  <2>. QED
    BY <1>2, <2>1, <2>2 DEF NetInv, Past, SentWithin, Outdated, Running
<1>5. WindowInv'
  <2>1. ASSUME NEW m \in Update, Past(m)
        PROVE  age'[m] = Expiry \/ since'[m.unit] <= SentWithin(m) + MaxDelay + age'[m]
    <3>1. m.unit \in Unit
      BY DEF Update
    <3>2. age[m] = Expiry \/ since[m.unit] <= SentWithin(m) + MaxDelay + age[m]
      BY <2>1 DEF StaleInv, WindowInv
    <3>. QED
      BY <1>1, <3>1, <3>2, SinceTicks, AgeTicks, Numbers DEF SentWithin
  <2>. QED
    BY <1>2, <2>1 DEF WindowInv, Past, SentWithin, Outdated, Running
<1>. QED
  BY <1>3, <1>4, <1>5

\* A poll of a process whose start was logged learns only of it.
LEMMA CurrentPoll ==
  ASSUME StaleInv, NEW u \in Unit, NEW fresh \in BOOLEAN,
         Running(u), ~ starting[u]
  PROVE  LET unread == Unread(u, fresh) IN
         /\ ViewAfter(u, unread) \in {Uninitialized, process[u]}
         /\ \A c \in Clock : KnownAfter(u, unread)[c] \in {0, process[u].run}
<1> DEFINE unread == Unread(u, fresh)
<1>1. /\ \A c \in Clock : lines[u][c] \in {0, process[u].run}
      /\ ViewBefore(u) \in {Uninitialized, process[u]}
      /\ ViewBefore(u) # Uninitialized => \A c \in Clock : known[u][c] \in {0, process[u].run}
  BY DEF StaleInv, UnitInv, ViewBefore, Fresh
<1>2. \A c \in Clock : unread[c] \in {0, process[u].run}
  BY <1>1 DEF Unread, LinesOf
<1> HIDE DEF unread
<1>3. ViewAfter(u, unread) \in {Uninitialized, process[u]}
  BY <1>1 DEF ViewAfter, Observed
<1>4. \A c \in Clock : KnownAfter(u, unread)[c] \in {0, process[u].run}
  BY <1>1, <1>2 DEF KnownAfter
<1>. QED
  BY <1>3, <1>4 DEF unread

\* The lines that are read of a unit that has fallen silent were waiting.
LEMMA SilentPoll ==
  ASSUME StaleInv, NEW u \in pending, NEW fresh \in BOOLEAN,
         Speaks(u, Unread(u, fresh)), measures[u] = {}
  PROVE  since[u] <= OldestLine
<1>1. HTypeOK /\ u \in Unit /\ up /\ SilentInv(u)
  BY DEF StaleInv, HTypeOK, PollsWhileUp
<1>2. lines[u] # Nothing
  BY <1>1 DEF Speaks, Unread, LinesOf, Nothing
<1>. QED
  BY <1>1, <1>2 DEF SilentInv

\* An update of the past is only sent so long after the change of its unit.
LEMMA PollSends ==
  ASSUME StaleInv, NEW u \in pending, NEW fresh \in BOOLEAN,
         Sends(u, Unread(u, fresh)), NEW m \in UpdatesOf(u, Unread(u, fresh)),
         Past(m)
  PROVE  since[m.unit] <= SentWithin(m)
<1> DEFINE unread == Unread(u, fresh)
<1>1. u \in Unit /\ since[u] \in Nat
  BY Numbers DEF StaleInv, HTypeOK
<1>2. PICK c \in Clock :
        /\ KnownAfter(u, unread)[c] # 0
        /\ m = [unit |-> u, clock |-> c,
                run |-> Older(ViewAfter(u, unread).run, KnownAfter(u, unread)[c])]
  BY DEF UpdatesOf
<1>3. ViewAfter(u, unread) # Uninitialized /\ Speaks(u, unread)
  BY DEF Sends
<1>4. CASE Running(u) /\ ~ starting[u]
  <2>1. /\ ViewAfter(u, unread) \in {Uninitialized, process[u]}
        /\ \A d \in Clock : KnownAfter(u, unread)[d] \in {0, process[u].run}
    BY <1>1, <1>4, CurrentPoll
  <2>2. measures[u] = {} => since[u] <= OldestLine
    BY <1>3, SilentPoll
  <2> HIDE DEF unread
  <2>3. m.unit = u /\ m.run = process[u].run
    BY <1>2, <1>3, <2>1 DEF Older
  <2>. QED
    BY <1>4, <2>2, <2>3 DEF Past, SentWithin, Outdated
<1>5. CASE starting[u]
  BY <1>1, <1>2, <1>5, Numbers DEF StaleInv, UnitInv, SentWithin
<1>6. CASE ~ Running(u)
  <2>1. view[u] # Uninitialized
    BY <1>3, <1>6 DEF ViewAfter, ViewBefore, Observed
  <2>2. lines[u] # Nothing
    BY <1>3, <1>6 DEF Unread, Speaks, Nothing
  <2>. QED
    BY <1>1, <1>2, <1>6, <2>1, <2>2 DEF StaleInv, UnitInv, SentWithin, Outdated
<1>. QED
  BY <1>4, <1>5, <1>6

LEMMA StalePoll ==
  ASSUME StaleInv, NEW u \in pending, NEW fresh \in BOOLEAN, NEW lost,
         Poll(u, fresh, lost)
  PROVE  (\A v \in Unit : UnitInv(v)' /\ SilentInv(v)') /\ NetInv' /\ WindowInv'
<1> DEFINE unread == Unread(u, fresh)
           updates == IF Sends(u, unread) THEN UpdatesOf(u, unread) ELSE {}
<1>1. HTypeOK /\ UnitType /\ JournalType /\ WorkerType /\ u \in Unit
  BY TypeParts DEF StaleInv, WorkerType
<1>2. /\ view' = [view EXCEPT ![u] = ViewAfter(u, unread)]
      /\ known' = [known EXCEPT ![u] = KnownAfter(u, unread)]
      /\ net' = net \cup {[update |-> m, age |-> 0] : m \in updates \ lost}
      /\ notice' = [notice EXCEPT ![u] = FALSE]
      /\ lines' = [lines EXCEPT ![u] = Nothing]
      /\ pending' = pending \ {u}
      /\ UNCHANGED <<unitVars, up, wait, round, age, since>>
  BY DEF Poll
<1>3. ASSUME NEW m \in updates, Past(m) PROVE since[m.unit] <= SentWithin(m) + 0
  BY <1>3, PollSends, Numbers DEF SentWithin
<1>4. /\ view'[u] = ViewAfter(u, unread) /\ known'[u] = KnownAfter(u, unread)
      /\ notice'[u] = FALSE /\ lines'[u] = Nothing
  BY <1>1, <1>2 DEF WorkerType, JournalType
<1>5. Running(u) /\ ~ starting[u] =>
        /\ ViewAfter(u, unread) \in {Uninitialized, process[u]}
        /\ \A c \in Clock : KnownAfter(u, unread)[c] \in {0, process[u].run}
  BY <1>1, CurrentPoll
<1> HIDE DEF unread, updates
<1>6. UNCHANGED <<process, starting, measures>>
  BY <1>2 DEF unitVars
<1>7. UnitInv(u)' /\ SilentInv(u)'
  BY <1>1, <1>2, <1>4, <1>5, <1>6
     DEF StaleInv, UnitInv, SilentInv, Running, Fresh, Nothing
<1>8. ASSUME NEW v \in Unit, v # u PROVE UnitInv(v)' /\ SilentInv(v)'
  BY <1>1, <1>2, <1>6, <1>8, SameUnit DEF StaleInv, WorkerType, JournalType
<1>9. NetInv'
  <2>1. ASSUME NEW n \in net', Past(n.update)
        PROVE  since[n.update.unit] <= SentWithin(n.update) + n.age
    <3>1. CASE n \in net
      BY <2>1, <3>1 DEF StaleInv, NetInv
    <3>2. CASE \E m \in updates : n = [update |-> m, age |-> 0]
      BY <1>3, <2>1, <3>2
    <3>. QED
      BY <1>2, <3>1, <3>2
  <2>. QED
    BY <1>2, <1>6, <2>1 DEF NetInv, Past, SentWithin, Outdated, Running
<1>10. WindowInv'
  BY <1>2, <1>6 DEF StaleInv, WindowInv, Past, SentWithin, Outdated, Running
<1>. QED
  BY <1>7, <1>8, <1>9, <1>10

LEMMA DownStep ==
  ASSUME StaleInv, [Next]_vars
  PROVE  /\ PollsWhileUp'
         /\ ~ up' => /\ view' = [u \in Unit |-> Uninitialized]
                     /\ known' = [u \in Unit |-> Nothing]
<1>1. ASSUME Raise
      PROVE  /\ PollsWhileUp'
             /\ view' = [u \in Unit |-> Uninitialized] /\ known' = [u \in Unit |-> Nothing]
  BY <1>1 DEF Raise, PollsWhileUp
<1>2. CASE ConstructorRaises \/ Crash
  BY <1>1, <1>2 DEF ConstructorRaises, Crash
<1>3. CASE PollStep
  <2>1. PICK u \in pending, fresh \in BOOLEAN :
          \/ \E lost \in SUBSET UpdatesOf(u, Unread(u, fresh)) : Poll(u, fresh, lost)
          \/ PollRaises(u, fresh)
    BY <1>3 DEF PollStep
  <2>2. up /\ round = 0
    BY <2>1 DEF StaleInv, PollsWhileUp
  <2>3. CASE \E lost \in SUBSET UpdatesOf(u, Unread(u, fresh)) : Poll(u, fresh, lost)
    BY <2>2, <2>3 DEF Poll, PollsWhileUp
  <2>. QED
    BY <1>1, <2>1, <2>3 DEF PollRaises
<1>4. CASE Construct
  BY <1>4 DEF Construct, PollsWhileUp
<1>5. CASE Tick
  BY <1>5 DEF StaleInv, Tick, PollsWhileUp
<1>6. CASE \/ \E s \in Starts : Start(s.unit, s.config, s.measures)
           \/ \E u \in Unit : AnnounceStart(u)
           \/ \E u \in Unit : Exit(u)
           \/ \E u \in Unit : \E S \in Measurable[u] : Measure(u, S)
           \/ \E m \in net : Deliver(m)
           \/ UNCHANGED vars
  <2>1. UNCHANGED workerVars
    BY <1>6 DEF Start, AnnounceStart, Exit, Measure, Deliver, vars
  <2>. QED
    BY <2>1 DEF StaleInv, PollsWhileUp, workerVars
<1>. QED
  BY <1>2, <1>3, <1>4, <1>5, <1>6 DEF Next

LEMMA StaleInvStep == StaleInv /\ [Next]_vars => StaleInv'
<1>. SUFFICES ASSUME StaleInv, [Next]_vars PROVE StaleInv'
  OBVIOUS
<1>1. HTypeOK'
  BY HTypeStep DEF StaleInv
<1>2. SUFFICES (\A v \in Unit : UnitInv(v)' /\ SilentInv(v)') /\ NetInv' /\ WindowInv'
  BY <1>1, DownStep DEF StaleInv
<1>3. ASSUME NEW s \in Starts, Start(s.unit, s.config, s.measures)
      PROVE  (\A v \in Unit : UnitInv(v)' /\ SilentInv(v)') /\ NetInv' /\ WindowInv'
  <2>1. s.unit \in Unit /\ s.config \in Config
    BY UnitsAssumption
  <2>. QED
    BY <1>3, <2>1, StaleStart
<1>4. CASE \/ \E u \in Unit : AnnounceStart(u)
           \/ \E u \in Unit : Exit(u)
           \/ \E u \in Unit : \E S \in Measurable[u] : Measure(u, S)
  BY <1>4, StaleAnnounce, StaleExit, StaleMeasure
<1>5. CASE ConstructorRaises \/ Crash
  BY <1>5, StaleRaise DEF ConstructorRaises, Crash
<1>6. CASE PollStep
  BY <1>6, StalePoll, StaleRaise DEF PollStep, PollRaises
<1>7. CASE Construct \/ Tick \/ \E m \in net : Deliver(m)
  BY <1>7, StaleConstruct, StaleTick, StaleDeliver
<1>8. CASE UNCHANGED vars
  BY <1>8, SameBounds, SameUnit
     DEF StaleInv, vars, unitVars, journalVars, workerVars, masterVars
<1>. QED
  BY <1>3, <1>4, <1>5, <1>6, <1>7, <1>8 DEF Next

LEMMA StaleInvAlways == Spec => []StaleInv
BY StaleInvInit, StaleInvStep, PTL DEF Spec

\* What is said of a unit that has settled is of the process that runs now, and
\* in the end nothing is said of one that measures nothing.
LEMMA SettledIsCurrent ==
  ASSUME StaleInv, NEW m \in Update, Shown(m)
  PROVE  /\ since[m.unit] >= Settled => ~ Outdated(m)
         /\ since[m.unit] = Silenced => ~ Past(m)
<1>1. age[m] \in 0..Expiry /\ since[m.unit] \in Nat
  <2>1. m.unit \in Unit
    BY DEF Update
  <2>2. age \in [Update -> 0..Expiry] /\ since \in [Unit -> 0..Silenced]
    BY DEF StaleInv, HTypeOK
  <2>. QED
    BY <2>1, <2>2, Numbers
<1>2. Past(m) => since[m.unit] <= SentWithin(m) + MaxDelay + age[m] /\ age[m] < Expiry
  BY DEF StaleInv, WindowInv, Shown, HTypeOK
<1>3. since[m.unit] >= Settled => ~ Outdated(m)
  BY <1>1, <1>2, Numbers DEF Past, SentWithin
<1>4. since[m.unit] = Silenced => ~ Past(m)
  BY <1>1, <1>2, Numbers DEF SentWithin
<1>. QED
  BY <1>3, <1>4

\* Neither lines read late, nor updates sent again, nor those under way, nor the
\* window show an earlier process of a unit that has settled, for any number of
\* units and any losses and crashes.
THEOREM NothingOutlives == Spec => []NothingOutlivesItsProcess
<1>1. StaleInv => NothingOutlivesItsProcess
  BY SettledIsCurrent DEF NothingOutlivesItsProcess, Outdated
<1>. QED
  BY <1>1, StaleInvAlways, PTL

\* A unit that measures nothing disappears from the graphs, whether its worker
\* ran when it fell silent or was down, for any back-off.
THEOREM SilenceAlwaysNoticed == Spec => []SilenceIsNoticed
<1>1. StaleInv => SilenceIsNoticed
  BY SettledIsCurrent DEF SilenceIsNoticed, Past
<1>. QED
  BY <1>1, StaleInvAlways, PTL

------------------------------------------------------------------------------
(* What a graph shows while nothing goes wrong. *)

\* An update of m was sent t ticks ago, or later, or is still under way.
SentBy(m, t) ==
  \/ age[m] <= t
  \/ \E n \in net : n.update = m /\ n.age = t

\* What a unit is to be shown with.
Healthy(u, c) == [unit |-> u, clock |-> c, run |-> process[u].run]

\* The last poll sent it, and so did one in every period of the calm before.
SentInv(u, c) ==
  /\ u \notin pending /\ calm[u] > round => SentBy(Healthy(u, c), round)
  /\ \A x \in Nat :
       (u \in pending => x > 0) /\ x + Period <= calm[u] =>
         \E t \in x..(x + Period - 1) : SentBy(Healthy(u, c), t)

CalmInv(u) ==
  /\ ~ up => calm[u] = 0
  /\ starting[u] => calm[u] = 0
  /\ up /\ Running(u) => \A c \in measures[u] : SentInv(u, c)

LEMMA HealthyType ==
  ASSUME HTypeOK, NEW u \in Unit, NEW c \in measures[u], Running(u)
  PROVE  Healthy(u, c) \in Update
BY DEF HTypeOK, Running, Process, Healthy, Update

LEMMA CalmTypes ==
  ASSUME HTypeOK
  PROVE  /\ round \in Nat /\ \A u \in Unit : calm[u] \in Nat /\ calm[u] <= Calm
         /\ \A m \in Update : age[m] \in Nat
         /\ \A n \in net : n.age \in Nat /\ n.age <= MaxDelay /\ n.update \in Update
BY Numbers DEF HTypeOK

\* Nothing has been promised of a unit that was disturbed.
LEMMA DisturbedCalm ==
  ASSUME HTypeOK, HTypeOK', NEW u \in Unit, calm'[u] = 0
  PROVE  CalmInv(u)'
<1>1. /\ round' \in Nat /\ ~ (calm'[u] > round')
      /\ \A x \in Nat : ~ (x + Period <= calm'[u])
  BY Numbers DEF HTypeOK
<1>2. \A c : SentInv(u, c)'
  BY <1>1 DEF SentInv
<1>. QED
  BY <1>2 DEF CalmInv

\* What was sent stays so.
LEMMA SentStays ==
  ASSUME HTypeOK, NEW m \in Update, NEW t \in Nat, SentBy(m, t),
         age'[m] = age[m] \/ age'[m] = 0,
         \A n \in net : n \in net' \/ age'[n.update] = 0
  PROVE  SentBy(m, t)'
BY CalmTypes DEF SentBy

LEMMA SameCalm ==
  ASSUME HTypeOK, NEW u \in Unit, CalmInv(u),
         process'[u] = process[u], measures'[u] = measures[u],
         starting'[u] => starting[u], up' = up, round' = round,
         calm'[u] = calm[u], u \in pending' <=> u \in pending,
         \A m \in Update : age'[m] = age[m] \/ age'[m] = 0,
         \A n \in net : n \in net' \/ age'[n.update] = 0
  PROVE  CalmInv(u)'
<1>1. ASSUME up, Running(u), NEW c \in measures[u], SentInv(u, c)
      PROVE  SentInv(u, c)'
  <2>1. Healthy(u, c)' = Healthy(u, c) /\ Healthy(u, c) \in Update
    BY <1>1, HealthyType DEF Healthy
  <2>2. \A t \in Nat : SentBy(Healthy(u, c), t) => SentBy(Healthy(u, c), t)'
    BY <2>1, SentStays DEF SentBy
  <2>3. round \in Nat /\ \A x \in Nat : x..(x + Period - 1) \subseteq Nat
    BY CalmTypes, Numbers
  <2>. QED
    BY <1>1, <2>1, <2>2, <2>3 DEF SentInv, SentBy
<1>. QED
  BY <1>1 DEF CalmInv, Running

LEMMA CalmTick ==
  ASSUME StaleInv, Tick, NEW u \in Unit, CalmInv(u)
  PROVE  CalmInv(u)'
<1>1. HTypeOK
  BY DEF StaleInv
<1>2. /\ UNCHANGED <<process, measures, starting, up>>
      /\ ~ starting[u] /\ (up => u \notin pending)
      /\ (IF up THEN calm'[u] <= calm[u] + 1 ELSE calm'[u] = calm[u])
      /\ calm'[u] \in Nat
  BY <1>1, CalmTypes, Numbers DEF Tick, unitVars, UpTo
<1>3. ASSUME up, Running(u), NEW c \in measures[u], SentInv(u, c)
      PROVE  SentInv(u, c)'
  <2>1. Healthy(u, c)' = Healthy(u, c) /\ Healthy(u, c) \in Update
    BY <1>1, <1>2, <1>3, HealthyType DEF Healthy
  <2>2. ASSUME NEW t \in Nat, SentBy(Healthy(u, c), t)
        PROVE  SentBy(Healthy(u, c), t + 1)'
    <3> DEFINE m == Healthy(u, c)
    <3>1. CASE age[m] <= t
      <4>1. age'[m] <= t + 1
        BY <1>1, <2>1, <3>1, AgeTicks, Numbers
      <4>. QED
        BY <2>1, <4>1 DEF SentBy
    <3>2. CASE \E n \in net : n.update = m /\ n.age = t
      <4>1. PICK n \in net : n.update = m /\ n.age = t
        BY <3>2
      <4>2. [n EXCEPT !.age = @ + 1] \in net'
        BY DEF Tick
      <4>3. n \in [update : Update, age : 0..MaxDelay]
        BY <1>1 DEF HTypeOK
      <4>. QED
        BY <2>1, <4>1, <4>2, <4>3 DEF SentBy
    <3>. QED
      BY <2>2, <3>1, <3>2 DEF SentBy
  <2>3. round \in Nat /\ round' \in Nat /\ calm[u] \in Nat
    BY <1>1, CalmTypes, HTypeStep DEF HTypeOK, Tick
  <2>4. u \notin pending' => round' = round + 1 /\ round' < Period
    BY <1>3, <2>3, Numbers DEF Tick
  <2>5. ASSUME u \notin pending', calm'[u] > round'
        PROVE  SentBy(Healthy(u, c), round)'
    <3>1. calm[u] > round /\ round' = round + 1
      BY <1>2, <1>3, <2>3, <2>4, <2>5
    <3>2. PICK t \in Nat : t = round
      BY <2>3
    <3>3. SentBy(Healthy(u, c), t)
      BY <1>2, <1>3, <3>1, <3>2 DEF SentInv, SentBy
    <3>4. SentBy(Healthy(u, c), t + 1)'
      BY <2>2, <3>3
    <3>. QED
      BY <3>1, <3>2, <3>4 DEF SentBy
  <2>6. ASSUME NEW x \in Nat, u \in pending' => x > 0, x + Period <= calm'[u]
        PROVE  \E t \in x..(x + Period - 1) : SentBy(Healthy(u, c), t)'
    <3>1. CASE x = 0
      <4>1. calm'[u] > round' /\ round' \in x..(x + Period - 1)
        BY <1>2, <2>3, <2>4, <2>6, <3>1, Numbers
      <4>. QED
        BY <2>5, <2>6, <3>1, <4>1 DEF SentBy
    <3>2. CASE x > 0
      <4>1. (x - 1) \in Nat /\ (x - 1) + Period <= calm[u]
        BY <1>2, <1>3, <2>3, <2>6, <3>2, Numbers
      <4>2. PICK t \in (x - 1)..((x - 1) + Period - 1) : SentBy(Healthy(u, c), t)
        BY <1>2, <1>3, <4>1 DEF SentInv
      <4>3. t \in Nat /\ t + 1 \in x..(x + Period - 1)
        BY <3>2, <4>1, <4>2, Numbers
      <4>. QED
        BY <2>2, <4>2, <4>3
    <3>. QED
      BY <3>1, <3>2
  <2>. QED
    BY <2>5, <2>6 DEF SentInv, SentBy
<1>. QED
  BY <1>2, <1>3 DEF CalmInv, Running

\* A poll that succeeds sends what is to be shown of each clock.
LEMMA PollShows ==
  ASSUME StaleInv, NEW u \in Unit, NEW c \in measures[u], Running(u), ~ starting[u]
  PROVE  /\ Sends(u, Unread(u, TRUE))
         /\ Healthy(u, c) \in UpdatesOf(u, Unread(u, TRUE))
<1> DEFINE unread == Unread(u, TRUE)
<1>1. HTypeOK /\ c \in Clock
  BY DEF StaleInv, HTypeOK
<1>2. process[u] # Uninitialized /\ process[u].run # 0
  BY <1>1, UnitsAssumption, Numbers DEF HTypeOK, Running, Process, Run
<1>3. unread[c] = process[u].run
  BY <1>1 DEF Unread, LinesOf
<1>4. ViewBefore(u) \in {Uninitialized, process[u]}
  BY DEF StaleInv, UnitInv, ViewBefore, Fresh
<1> HIDE DEF unread
<1>5. Speaks(u, unread)
  BY <1>1, <1>2, <1>3 DEF Speaks
<1>6. ViewAfter(u, unread) = process[u]
  BY <1>4, <1>5 DEF ViewAfter, NeedsFactory, Observed
<1>7. KnownAfter(u, unread)[c] = process[u].run
  BY <1>1, <1>2, <1>3, <1>6 DEF KnownAfter
<1>8. Healthy(u, c) \in UpdatesOf(u, unread)
  <2>1. Older(process[u].run, process[u].run) = process[u].run
    BY DEF Older
  <2>. QED
    BY <1>1, <1>2, <1>6, <1>7, <2>1 DEF UpdatesOf, Healthy
<1>. QED
  BY <1>2, <1>5, <1>6, <1>8 DEF Sends, unread

LEMMA CalmPoll ==
  ASSUME StaleInv, HTypeOK', NEW u \in pending, NEW fresh \in BOOLEAN, NEW lost,
         Poll(u, fresh, lost), \A v \in Unit : CalmInv(v)
  PROVE  \A v \in Unit : CalmInv(v)'
<1> DEFINE unread == Unread(u, fresh)
           updates == IF Sends(u, unread) THEN UpdatesOf(u, unread) ELSE {}
           missed == ~ fresh /\ Running(u) /\ ~ starting[u] /\ measures[u] # {}
<1>1. HTypeOK /\ u \in Unit /\ up /\ round = 0
  BY DEF StaleInv, HTypeOK, PollsWhileUp
<1>2. /\ net' = net \cup {[update |-> m, age |-> 0] : m \in updates \ lost}
      /\ pending' = pending \ {u}
      /\ UNCHANGED <<unitVars, up, round, age>>
      /\ IF lost # {} \/ missed THEN calm' = Disturb({u}) ELSE calm' = calm
  BY DEF Poll
<1> HIDE DEF unread, updates
<1>3. UNCHANGED <<process, measures, starting>>
  BY <1>2 DEF unitVars
<1>4. ASSUME NEW v \in Unit, v # u PROVE CalmInv(v)'
  <2>1. calm'[v] = calm[v]
    BY <1>2, <1>4 DEF Disturb
  <2>. QED
    BY <1>1, <1>2, <1>3, <1>4, <2>1, SameCalm
<1>5. CASE lost # {} \/ missed
  <2>1. calm'[u] = 0
    BY <1>1, <1>2, <1>5 DEF Disturb
  <2>. QED
    BY <1>1, <1>4, <2>1, DisturbedCalm
<1>6. CASE lost = {} /\ ~ missed
  <2>1. ASSUME Running(u), NEW c \in measures[u], calm[u] > 0
        PROVE  SentBy(Healthy(u, c), 0)'
    <3>1. ~ starting[u] /\ fresh
      BY <1>1, <1>6, <2>1, CalmTypes DEF CalmInv
    <3>2. Healthy(u, c) \in updates
      BY <1>1, <2>1, <3>1, PollShows DEF updates, unread
    <3>3. [update |-> Healthy(u, c), age |-> 0] \in net'
      BY <1>2, <1>6, <3>2
    <3>4. Healthy(u, c)' = Healthy(u, c)
      BY <1>3 DEF Healthy
    <3>. QED
      BY <3>3, <3>4 DEF SentBy
  <2>2. ASSUME Running(u), NEW c \in measures[u] PROVE SentInv(u, c)'
    <3>1. calm'[u] = calm[u] /\ round' = 0 /\ u \notin pending' /\ calm[u] \in Nat
      BY <1>1, <1>2, <1>6, CalmTypes
    <3>2. ASSUME NEW x \in Nat, x + Period <= calm[u]
          PROVE  \E t \in x..(x + Period - 1) : SentBy(Healthy(u, c), t)'
      <4>1. CASE x = 0
        <5>1. calm[u] > 0 /\ 0 \in x..(x + Period - 1)
          BY <3>1, <3>2, <4>1, Numbers
        <5>. QED
          BY <2>1, <2>2, <5>1
      <4>2. CASE x > 0
        <5>1. PICK t \in x..(x + Period - 1) : SentBy(Healthy(u, c), t)
          BY <1>1, <2>2, <3>2, <4>2 DEF CalmInv, SentInv
        <5>2. SentBy(Healthy(u, c), t)'
          BY <1>2, <1>3, <5>1 DEF SentBy, Healthy
        <5>. QED
          BY <5>2
      <4>. QED
        BY <4>1, <4>2
    <3>3. calm[u] > 0 => SentBy(Healthy(u, c), 0)'
      BY <2>1, <2>2
    <3>. QED
      BY <3>1, <3>2, <3>3 DEF SentInv, SentBy
  <2>3. CalmInv(u)'
    BY <1>1, <1>2, <1>3, <1>6, <2>2 DEF CalmInv, Running
  <2>. QED
    BY <1>4, <2>3
<1>. QED
  BY <1>5, <1>6

LEMMA CalmStep ==
  StaleInv /\ StaleInv' /\ (\A v \in Unit : CalmInv(v)) /\ [Next]_vars
    => (\A v \in Unit : CalmInv(v))'
<1>. SUFFICES ASSUME StaleInv, StaleInv', \A v \in Unit : CalmInv(v), [Next]_vars
              PROVE  \A v \in Unit : CalmInv(v)'
  OBVIOUS
<1>1. HTypeOK /\ HTypeOK'
  BY DEF StaleInv
<1>2. ASSUME NEW u \in Unit, Changed(u), UNCHANGED <<workerVars, masterVars>>,
             \A v \in Unit : v # u => process'[v] = process[v] /\ starting'[v] = starting[v]
                                      /\ measures'[v] = measures[v]
      PROVE  \A v \in Unit : CalmInv(v)'
  <2>1. calm'[u] = 0 /\ \A v \in Unit : v # u => calm'[v] = calm[v]
    BY <1>2 DEF Changed, Disturb
  <2>2. ASSUME NEW v \in Unit, v # u PROVE CalmInv(v)'
    BY <1>1, <1>2, <2>1, <2>2, SameCalm DEF workerVars, masterVars
  <2>. QED
    BY <1>1, <2>1, <2>2, DisturbedCalm
<1>3. CASE \E s \in Starts : Start(s.unit, s.config, s.measures)
  <2>1. PICK s \in Starts : Start(s.unit, s.config, s.measures)
    BY <1>3
  <2>2. s.unit \in Unit
    BY UnitsAssumption
  <2>. QED
    BY <1>1, <1>2, <2>1, <2>2 DEF Start, HTypeOK
<1>4. CASE \E u \in Unit : Exit(u)
  BY <1>1, <1>2, <1>4 DEF Exit, HTypeOK
<1>5. CASE \E u \in Unit : \E S \in Measurable[u] : Measure(u, S)
  BY <1>1, <1>2, <1>5 DEF Measure, HTypeOK, unitVars
<1>6. CASE \E u \in Unit : AnnounceStart(u)
  BY <1>1, <1>6, SameCalm DEF AnnounceStart, HTypeOK, workerVars, masterVars
<1>7. ASSUME Raise PROVE \A v \in Unit : CalmInv(v)'
  BY <1>1, <1>7, DisturbedCalm DEF Raise, Disturb
<1>8. CASE ConstructorRaises \/ Crash
  BY <1>7, <1>8 DEF ConstructorRaises, Crash
<1>9. CASE PollStep
  BY <1>1, <1>7, <1>9, CalmPoll DEF PollStep, PollRaises
<1>10. CASE Construct
  BY <1>1, <1>10, DisturbedCalm DEF Construct, CalmInv
<1>11. CASE \E m \in net : Deliver(m)
  <2>1. PICK n \in net : Deliver(n)
    BY <1>11
  <2>2. /\ \A m \in Update : age'[m] = age[m] \/ age'[m] = 0
        /\ \A k \in net : k \in net' \/ age'[k.update] = 0
    BY <1>1, <2>1 DEF Deliver, HTypeOK
  <2>. QED
    BY <1>1, <2>1, <2>2, SameCalm DEF Deliver, unitVars, workerVars
<1>12. CASE Tick
  BY <1>12, CalmTick
<1>13. CASE UNCHANGED vars
  BY <1>1, <1>13, SameCalm DEF vars, unitVars, workerVars, masterVars
<1>. QED
  BY <1>3, <1>4, <1>5, <1>6, <1>8, <1>9, <1>10, <1>11, <1>12, <1>13 DEF Next

\* While polls succeed every clock that is measured is in every graph, for any
\* period, delay and expiry that leave room for one another.
THEOREM HealthyAlwaysShown == Spec => []HealthyIsShown
<1> DEFINE ShownInv == StaleInv /\ \A v \in Unit : CalmInv(v)
<1>1. Init => ShownInv
  <2>1. Init => \A v \in Unit : CalmInv(v)
    BY DEF Init, CalmInv
  <2>. QED
    BY <2>1, StaleInvInit
<1>2. ShownInv /\ [Next]_vars => ShownInv'
  BY StaleInvStep, CalmStep
<1>3. ShownInv => HealthyIsShown
  <2>1. SUFFICES ASSUME ShownInv, NEW u \in Unit, up, Running(u), calm[u] = Calm,
                        NEW c \in measures[u]
                 PROVE  age[Healthy(u, c)] < Expiry
    BY DEF HealthyIsShown, Shown, Healthy
  <2>2. HTypeOK /\ SentInv(u, c) /\ Healthy(u, c) \in Update
    BY <2>1, HealthyType DEF StaleInv, CalmInv
  <2>3. (MaxDelay + 1) \in Nat /\ (MaxDelay + 1) + Period <= calm[u] /\ MaxDelay + 1 > 0
    BY <2>1, Numbers
  <2>4. PICK t \in (MaxDelay + 1)..((MaxDelay + 1) + Period - 1) : SentBy(Healthy(u, c), t)
    BY <2>2, <2>3 DEF SentInv
  <2>5. t \in Nat /\ t > MaxDelay /\ t < Expiry
    BY <2>3, <2>4, Numbers
  <2>. QED
    BY <2>2, <2>4, <2>5, CalmTypes, Numbers DEF SentBy
<1>. QED
  BY <1>1, <1>2, <1>3, PTL DEF Spec
=============================================================================
