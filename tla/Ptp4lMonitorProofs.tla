------------------------- MODULE Ptp4lMonitorProofs -------------------------
(***************************************************************************)
(* For any configurations, ports, elections and bounds: the monitor of a   *)
(* ptp4l unit is well typed; pmc, its clock and the state of the state     *)
(* machine always belong together; the answers and the clock are of the    *)
(* process that runs; and the monitor implements UnitFollower.             *)
(***************************************************************************)
EXTENDS Ptp4lMonitor, UnitJournalProofs, FiniteSetTheorems

------------------------------------------------------------------------------
(* pmc, its clock and the state. *)

\* What is inductive: the factory reads the configuration of a process, so a
\* state that it returns is never taken for an uninitialised one; and a worker
\* that starts has nothing of an earlier one.
PmcInv ==
  /\ unit # NoProcess => unit.config \in Config
  /\ phase = "down" => state = Uninitialized
  /\ PmcFollowsState

------------------------------------------------------------------------------
(* The callbacks of the state machine. *)

\* ptp4l_state_factory sets the state, pmc and the clock to one configuration,
\* or nothing at all if the unit does not run.
LEMMA InitializeFollows ==
  ASSUME PmcInv, Initialize, state = Uninitialized
  PROVE  PmcFollowsState'
<1>1. CASE unit = NoProcess
  BY <1>1 DEF PmcInv, PmcFollowsState, Initialize, SamePmc
<1>2. CASE unit # NoProcess
  <2>1. unit.config \in Config
    BY <1>2 DEF PmcInv
  <2>2. unit.config # Uninitialized
    BY <2>1, NoneAssumption
  <2>. QED
    BY <1>2, <2>2 DEF PmcFollowsState, Initialize, StartPmc
<1>. QED
  BY <1>1, <1>2

\* Parsing an entry keeps the three together, whether it starts over, calls the
\* factory or does neither.
LEMMA ParseFollows ==
  ASSUME PmcInv, NEW e, Parse(e)
  PROVE  PmcFollowsState'
<1>1. CASE e = Notice
  BY <1>1 DEF Parse, PmcInv, PmcFollowsState, Uninitialize, SamePmc, OnStopped,
              ResetPmc
<1>2. CASE e # Notice /\ state = Uninitialized
  BY <1>2, InitializeFollows DEF Parse
<1>3. CASE e # Notice /\ state # Uninitialized
  BY <1>3 DEF Parse, ParseRunning, PmcInv, PmcFollowsState, SamePmc
<1>. QED
  BY <1>1, <1>2, <1>3

\* After an exception nothing is left of the monitor.
LEMMA RaiseFollows ==
  ASSUME Raise
  PROVE  PmcFollowsState'
BY DEF Raise, OnStopped, ResetPmc, PmcFollowsState

------------------------------------------------------------------------------
LEMMA PmcInvInit == Init => PmcInv
BY DEF Init, JournalInit, PmcInv, PmcFollowsState

\* What a step of the unit, of pmc or of the journal does not touch.
LEMMA FollowsUnchanged ==
  ASSUME PmcFollowsState, UNCHANGED <<state, clock, pmc>>
  PROVE  PmcFollowsState'
BY DEF PmcFollowsState

LEMMA PmcInvStep == PmcInv /\ [Next]_vars => PmcInv'
<1>. SUFFICES ASSUME PmcInv, [Next]_vars PROVE PmcInv'
  OBVIOUS
<1>. USE DEF PmcInv
<1>1. CASE \E s \in Starts : StartUnit(s[1], s[2])
  <2>1. PICK s \in Starts : StartUnit(s[1], s[2])
    BY <1>1
  <2>2. s[1] \in Config
    BY ElectionAssumption
  <2>3. unit' = [run |-> runs + 1, config |-> s[1]] /\ UNCHANGED taskVars
    BY <2>1 DEF StartUnit, Start
  <2>. QED
    BY <2>2, <2>3, FollowsUnchanged DEF taskVars
<1>2. CASE StepUnit(Exit)
  BY <1>2, FollowsUnchanged DEF StepUnit, Exit, taskVars
<1>3. CASE \/ StepUnit(Announce("starting", "running"))
           \/ StepUnit(Announce("running", "stopping"))
           \/ StepUnit(Announce("exited", "stopped"))
           \/ StepUnit(LogEntry(Line))
           \/ Age
  BY <1>3, FollowsUnchanged
     DEF StepUnit, Announce, LogEntry, Age, AgeUnless, unitVars, taskVars
<1>4. CASE \/ \E e \in Elections : Elect(e)
           \/ AnswerQuery
           \/ LoseQuery
           \/ PmcExits
  BY <1>4, FollowsUnchanged
     DEF Elect, AnswerQuery, LoseQuery, PmcExits, journalVars, unitVars, taskVars
<1>5. CASE Construct
  <2>1. unit' = unit
    BY <1>5 DEF Construct, NewJournalMonitor, unitVars
  <2>2. CASE state = Uninitialized
    BY <1>5, <2>1, <2>2, InitializeFollows DEF Construct
  <2>. QED
    BY <1>5, <2>2 DEF Construct
<1>6. CASE Consume
  <2>1. unit' = unit
    BY <1>6 DEF Consume, NextEntry, unitVars
  <2>. QED
    BY <1>6, <2>1, ParseFollows DEF Consume
<1>7. CASE ReadJournal \/ EndConsume \/ QueryDataset \/ ReportInstances
  BY <1>7, FollowsUnchanged
     DEF ReadJournal, PollJournal, EndConsume, QueryDataset, ReportInstances,
         journalVars, unitVars
<1>8. CASE RaiseExited \/ RaiseWrongDomain \/ Crash
  <2>1. Raise
    BY <1>8 DEF RaiseExited, RaiseWrongDomain, Crash
  <2>2. unit' = unit
    BY <2>1 DEF Raise, LoseBatch, unitVars
  <2>3. state' = Uninitialized
    BY <2>1 DEF Raise
  <2>. QED
    BY <2>3, <2>1, <2>2, RaiseFollows
<1>9. CASE UNCHANGED vars
  BY <1>9, FollowsUnchanged DEF vars, journalVars, unitVars, taskVars
<1>. QED
  BY <1>1, <1>2, <1>3, <1>4, <1>5, <1>6, <1>7, <1>8, <1>9 DEF Next

\* In every reachable state pmc and the clock of the alias updates belong to the
\* configuration of the state machine, so neither assertion that a domain and a
\* clock are set ever fails: for any number of restarts, crashes, late answers.
THEOREM PmcAlwaysFollowsState == Spec => []PmcFollowsState
<1>1. PmcInv => PmcFollowsState
  BY DEF PmcInv
<1>. QED
  BY PmcInvInit, PmcInvStep, <1>1, PTL DEF Spec

------------------------------------------------------------------------------
(* The types. *)

DataSet == Range(MonitoredDatasets)

LEMMA DataSets ==
  /\ Len(MonitoredDatasets) = 4 /\ DOMAIN MonitoredDatasets = 1..4
  /\ \A i \in 1..4 : MonitoredDatasets[i] \in DataSet
BY DEF MonitoredDatasets, DataSet, Range

\* The ports can be put in a sequence, as SetToSeq does.
LEMMA PortSequence ==
  /\ Cardinality(Ports) \in Nat
  /\ \A i \in 1..Cardinality(Ports) : SetToSeq(Ports)[i] \in Ports
<1>1. Cardinality(Ports) \in Nat /\ ExistsBijection(1..Cardinality(Ports), Ports)
  BY PortsAssumption, FS_CardinalityType
<1>2. \E f \in [1..Cardinality(Ports) -> Ports] : IsInjective(f)
  BY <1>1 DEF ExistsBijection, Bijection, Injection
<1>3. SetToSeq(Ports) \in [1..Cardinality(Ports) -> Ports]
  BY <1>2 DEF SetToSeq
<1>. QED
  BY <1>1, <1>3

LEMMA FunctionIsSequence ==
  ASSUME NEW S, NEW n \in Nat, NEW f \in [1..n -> S]
  PROVE  f \in Seq(S)
<1>1. f \in UNION {[1..k -> S] : k \in Nat}
  OBVIOUS
<1>. QED
  BY <1>1, SeqDef, Zenon

\* What a process answers is of that process.
LEMMA AnswersType ==
  ASSUME unit \in Process, best \in Elections, NEW q \in DataSet
  PROVE  /\ AnswersTo(q) \in Seq(Answer)
         /\ \A i \in DOMAIN AnswersTo(q) : AnswersTo(q)[i].run = unit.run
<1> DEFINE n == IF q = "port" THEN Cardinality(Ports) ELSE 1
           a == [i \in 1..n |->
                   [id |-> Identity[unit.config], run |-> unit.run,
                    port |-> IF q = "port" THEN SetToSeq(Ports)[i] ELSE 0,
                    data |-> q, domain |-> DomainOf[unit.config],
                    best |-> best]]
<1>1. /\ unit.run \in Run /\ Identity[unit.config] \in PtpId
      /\ DomainOf[unit.config] \in Nat
  BY PtpConfigAssumption DEF Process
<1>2. n \in Nat /\ \A i \in 1..n :
        (IF q = "port" THEN SetToSeq(Ports)[i] ELSE 0) \in Ports \cup {0}
  BY PortSequence
<1>3. a \in [1..n -> Answer]
  BY <1>1, <1>2 DEF Answer, DataSet
<1>4. AnswersTo(q) = a /\ DOMAIN a = 1..n /\ \A i \in 1..n : a[i].run = unit.run
  BY DEF AnswersTo
<1> HIDE DEF n, a
<1>. QED
  BY <1>2, <1>3, <1>4, FunctionIsSequence

\* The updates about an instance, for answers of the right type.
LEMMA UpdatesType ==
  ASSUME NEW p \in Seq(Answer), clock \in Clock
  PROVE  Updates(p) \subseteq Report
<1>1. \A i \in DOMAIN p : p[i] \in Answer
  BY LenProperties, ElementOfSeq
<1>2. \A a \in Answer : /\ a.id \in PtpId /\ a.best.master \in PtpId
  BY ElectionAssumption DEF Answer
<1>3. \A id, data, port : \A a \in Newest(p, id, data, port) : a \in Answer
  BY <1>1 DEF Newest, From
<1>4. ASSUME NEW i \in DOMAIN p, NEW u \in UpdatesOf(p, p[i].id)
      PROVE  u \in Report
  <2> DEFINE id == p[i].id
  <2>1. id \in PtpId
    BY <1>1, <1>2
  <2> HIDE DEF id
  <2>2. \/ u = [type |-> "clock_alias", id |-> id, clock |-> clock]
        \/ \E a \in Newest(p, id, "parent", 0), b \in Newest(p, id, "current", 0) :
             u = [type |-> "clock_master", id |-> id, master |-> a.best.master,
                  offset |-> b.best.master]
        \/ \E n \in Ports : \E a \in Newest(p, id, "port", n) :
             u = [type |-> "port_state", id |-> id, port |-> n,
                  state |-> PortStateOf(a.best, n)]
        \/ \E n \in Ports : \E b \in Newest(p, id, "parent", 0) :
             u = [type |-> "ptp_parent", id |-> id, parent |-> b.best.master]
    BY <1>4 DEF UpdatesOf, id
  <2>3. \A e, n : PortStateOf(e, n) \in {"SLAVE", "MASTER"}
    BY DEF PortStateOf
  <2>. QED
    BY <1>2, <1>3, <2>1, <2>2, <2>3 DEF Report
<1>. QED
  BY <1>4 DEF Updates

\* While pmc is asked it is there, so that the updates have a clock.
AskingInv == PTypeOK /\ PmcInv /\ (phase = "asking" => pmc # NoPmc)

LEMMA AskingClock ==
  ASSUME AskingInv, phase = "asking"
  PROVE  state # Uninitialized /\ clock \in Clock
<1>1. state # Uninitialized /\ clock = ClockOf[state] /\ state \in Config
  BY DEF AskingInv, PmcInv, PmcFollowsState, PTypeOK
<1>. QED
  BY <1>1, PtpConfigAssumption

\* The type of what pmc and the state machine keep.
PmcTypeOK ==
  /\ state \in Config \cup {Uninitialized}
  /\ clock \in Clock \cup {NoClock}
  /\ pmc \in Config \cup {NoPmc}
  /\ alive \in BOOLEAN
  /\ asked \in Seq(DataSet)
  /\ pipe \in Seq(Answer)

LEMMA PmcStepType ==
  ASSUME PmcTypeOK, unit \in Process \cup {NoProcess},
         \/ Initialize /\ state = Uninitialized
         \/ \E e : Parse(e)
         \/ state' = Uninitialized /\ OnStopped
  PROVE  PmcTypeOK'
<1>1. <<>> \in Seq(DataSet) /\ <<>> \in Seq(Answer)
  BY EmptySeq
<1>2. ASSUME Initialize, state = Uninitialized PROVE PmcTypeOK'
  <2>1. CASE unit = NoProcess
    BY <1>2, <2>1 DEF Initialize, SamePmc, PmcTypeOK
  <2>2. CASE unit # NoProcess
    <3>1. unit.config \in Config /\ ClockOf[unit.config] \in Clock
      BY <2>2, PtpConfigAssumption DEF Process
    <3>. QED
      BY <1>1, <1>2, <2>2, <3>1 DEF Initialize, StartPmc, PmcTypeOK
  <2>. QED
    BY <2>1, <2>2
<1>3. ASSUME state' = Uninitialized, OnStopped PROVE PmcTypeOK'
  BY <1>1, <1>3 DEF OnStopped, ResetPmc, PmcTypeOK
<1>4. ASSUME NEW e, Parse(e) PROVE PmcTypeOK'
  <2>1. CASE e = Notice
    BY <1>3, <1>4, <2>1 DEF Parse, Uninitialize, SamePmc, PmcTypeOK
  <2>2. CASE e # Notice
    BY <1>2, <1>4, <2>2 DEF Parse, ParseRunning, SamePmc, PmcTypeOK
  <2>. QED
    BY <2>1, <2>2
<1>. QED
  BY <1>2, <1>3, <1>4

LEMMA AskingInvInit == Init => AskingInv
<1>. SUFFICES ASSUME Init PROVE AskingInv
  OBVIOUS
<1>1. log = <<>> /\ batch = <<>> /\ read = 0
  BY DEF Init, JournalInit
<1>2. log \in Seq(Entry) /\ batch \in Seq(Entry) /\ read \in 0..Len(log)
  BY <1>1
<1>3. 0 \in 0..MaxRuns /\ 0 \in 0..MaxFaults
  BY BoundsAssumption, FaultsAssumption
<1>4. JournalTypeOK(Entry)
  BY <1>2, <1>3 DEF Init, JournalInit, Stage, JournalTypeOK
<1>5. <<>> \in Seq(Range(MonitoredDatasets)) /\ <<>> \in Seq(Answer)
  BY EmptySeq
<1>6. best \in Elections
  BY ElectionAssumption DEF Init
<1>7. 1 \in 1..(Len(MonitoredDatasets) + 1)
  BY DataSets
<1>8. PTypeOK
  BY <1>3, <1>4, <1>5, <1>6, <1>7 DEF Init, PTypeOK
<1>. QED
  BY <1>8, PmcInvInit DEF Init, AskingInv

\* The kinds of steps, those that raise being one.
LEMMA StepKinds ==
  ASSUME [Next]_vars
  PROVE  \/ (\E c \in Config : Start(c)) /\ best' \in Elections /\ UNCHANGED <<taskVars, faults>>
         \/ StepUnit(\/ Announce("starting", "running")
                     \/ Announce("running", "stopping")
                     \/ Announce("exited", "stopped"))
         \/ StepUnit(Exit)
         \/ StepUnit(LogEntry(Line))
         \/ Age
         \/ \E e \in Elections : Elect(e)
         \/ AnswerQuery \/ LoseQuery \/ PmcExits
         \/ Construct \/ ReadJournal \/ Consume \/ EndConsume \/ QueryDataset
         \/ ReportInstances
         \/ Raise /\ (faults' = faults \/ (faults < MaxFaults /\ faults' = faults + 1))
         \/ UNCHANGED vars
<1>1. CASE \E s \in Starts : StartUnit(s[1], s[2])
  <2>1. PICK s \in Starts : StartUnit(s[1], s[2])
    BY <1>1
  <2>2. s[1] \in Config /\ s[2] \in Elections
    BY ElectionAssumption
  <2>. QED
    BY <2>1, <2>2 DEF StartUnit
<1>2. CASE RaiseExited \/ RaiseWrongDomain \/ Crash
  BY <1>2 DEF RaiseExited, RaiseWrongDomain, ReadyToRead, Crash
<1>. QED
  BY <1>1, <1>2 DEF Next, StepUnit

LEMMA PTypeStep ==
  ASSUME AskingInv, [Next]_vars
  PROVE  PTypeOK'
<1>1. PTypeOK /\ JournalTypeOK(Entry) /\ Notice \in Entry /\ Line \in Entry
  BY DEF AskingInv, PTypeOK, Entry
<1>2. unit \in Process \cup {NoProcess} /\ PmcTypeOK
  BY <1>1 DEF PTypeOK, PmcTypeOK, DataSet, JournalTypeOK
<1>3. faults \in Nat /\ MaxFaults \in Nat /\ faults \in 0..MaxFaults
  BY <1>1, FaultsAssumption DEF PTypeOK
<1>4. ASSUME JournalTypeOK(Entry)', UNCHANGED <<best, taskVars, faults>>
      PROVE  PTypeOK'
  BY <1>1, <1>4 DEF PTypeOK, taskVars
<1>5. ASSUME UnitStep, best' \in Elections, UNCHANGED <<taskVars, faults>>
      PROVE  PTypeOK'
  <2>1. JournalTypeOK(Entry)'
    BY <1>1, <1>5, UnitStepType
  <2>. QED
    BY <1>1, <1>5, <2>1 DEF PTypeOK, taskVars
<1>6. CASE (\E c \in Config : Start(c)) /\ best' \in Elections /\ UNCHANGED <<taskVars, faults>>
  BY <1>5, <1>6 DEF UnitStep
<1>7. CASE \/ StepUnit(\/ Announce("starting", "running")
                       \/ Announce("running", "stopping")
                       \/ Announce("exited", "stopped"))
           \/ StepUnit(Exit)
  BY <1>1, <1>5, <1>7 DEF StepUnit, UnitStep, PTypeOK
<1>8. CASE StepUnit(LogEntry(Line))
  BY <1>1, <1>4, <1>8, LogEntryType DEF StepUnit
<1>9. CASE Age
  BY <1>1, <1>4, <1>9, AgeType DEF Age
<1>10. ASSUME UNCHANGED journalVars
       PROVE  JournalTypeOK(Entry)'
  BY <1>1, <1>10 DEF JournalTypeOK, journalVars, unitVars, readVars
<1>11. CASE \E e \in Elections : Elect(e)
  BY <1>1, <1>3, <1>10, <1>11 DEF Elect, PTypeOK, taskVars
<1>12. CASE AnswerQuery
  <2>1. asked \in Seq(DataSet) /\ asked # <<>> /\ pipe \in Seq(Answer)
    BY <1>2, <1>12 DEF AnswerQuery, PmcTypeOK
  <2>2. Head(asked) \in DataSet /\ Tail(asked) \in Seq(DataSet)
    BY <2>1, TailEntries
  <2>3. pipe' \in Seq(Answer)
    <3>1. CASE unit = NoProcess
      BY <1>12, <2>1, <3>1 DEF AnswerQuery
    <3>2. CASE unit # NoProcess
      <4>1. unit \in Process /\ best \in Elections
        BY <1>1, <1>2, <3>2 DEF PTypeOK
      <4>2. AnswersTo(Head(asked)) \in Seq(Answer)
        BY <2>2, <4>1, AnswersType
      <4>3. pipe \o AnswersTo(Head(asked)) \in Seq(Answer)
        BY <2>1, <4>2, ConcatProperties
      <4>. QED
        BY <1>12, <2>1, <4>3 DEF AnswerQuery
    <3>. QED
      BY <3>1, <3>2
  <2>. QED
    BY <1>1, <1>10, <1>12, <2>2, <2>3 DEF AnswerQuery, PTypeOK, DataSet
<1>13. CASE LoseQuery
  <2>1. Tail(asked) \in Seq(DataSet)
    BY <1>2, <1>13, TailEntries DEF LoseQuery, PmcTypeOK
  <2>. QED
    BY <1>1, <1>3, <1>10, <1>13, <2>1 DEF LoseQuery, PTypeOK, DataSet
<1>14. CASE PmcExits
  <2>1. faults' \in 0..MaxFaults
    BY <1>3, <1>14 DEF PmcExits
  <2>2. alive' \in BOOLEAN /\ JournalTypeOK(Entry)'
    BY <1>10, <1>14 DEF PmcExits
  <2>. QED
    BY <1>1, <1>14, <2>1, <2>2 DEF PmcExits, PTypeOK
<1>15. CASE Construct
  <2>1. JournalTypeOK(Entry)'
    BY <1>1, <1>15, NewMonitorType DEF Construct
  <2>2. state = Uninitialized
    BY <1>15 DEF Construct, AskingInv, PmcInv
  <2>3. PmcTypeOK'
    BY <1>2, <1>15, <2>2, PmcStepType DEF Construct
  <2>. QED
    BY <1>1, <1>15, <2>1, <2>3 DEF Construct, PTypeOK, PmcTypeOK, DataSet
<1>16. CASE ReadJournal
  <2>1. JournalTypeOK(Entry)'
    BY <1>1, <1>16, PollType DEF ReadJournal
  <2>. QED
    BY <1>1, <1>16, <2>1 DEF ReadJournal, PTypeOK
<1>17. CASE Consume
  <2>1. JournalTypeOK(Entry)'
    BY <1>1, <1>17, NextEntryType DEF Consume
  <2>2. PmcTypeOK'
    BY <1>2, <1>17, PmcStepType DEF Consume
  <2>. QED
    BY <1>1, <1>17, <2>1, <2>2 DEF Consume, PTypeOK, PmcTypeOK, DataSet
<1>18. CASE EndConsume
  BY <1>1, <1>10, <1>18 DEF EndConsume, PTypeOK
<1>19. CASE QueryDataset
  <2>1. next \in 1..4 /\ MonitoredDatasets[next] \in DataSet
    BY <1>19, DataSets DEF QueryDataset
  <2>2. next' \in 1..(Len(MonitoredDatasets) + 1)
    BY <1>19, <2>1, DataSets DEF QueryDataset
  <2>3. asked' \in Seq(DataSet)
    BY <1>2, <1>19, <2>1, AppendEntries DEF QueryDataset, PmcTypeOK
  <2>. QED
    BY <1>1, <1>10, <1>19, <2>2, <2>3 DEF QueryDataset, PTypeOK, DataSet
<1>20. 1 \in 1..(Len(MonitoredDatasets) + 1)
  BY DataSets
<1>21. CASE ReportInstances
  <2>1. sent' \subseteq Report
    BY <1>2, <1>21, AskingClock, UpdatesType
       DEF ReadyToRead, ReportInstances, ReadBack, PmcTypeOK
  <2>2. <<>> \in Seq(Answer)
    BY EmptySeq
  <2>3. faults' \in 0..MaxFaults
    BY <1>3, <1>21 DEF ReadyToRead, ReportInstances
  <2>. QED
    BY <1>1, <1>10, <1>20, <1>21, <2>1, <2>2, <2>3
       DEF ReadyToRead, ReportInstances, ReadBack, PTypeOK
<1>22. CASE Raise /\ (faults' = faults \/ (faults < MaxFaults /\ faults' = faults + 1))
  <2>1. JournalTypeOK(Entry)'
    BY <1>1, <1>22, NextEntryType DEF Raise
  <2>2. PmcTypeOK'
    BY <1>2, <1>22, PmcStepType DEF Raise
  <2>3. faults' \in 0..MaxFaults
    BY <1>3, <1>22
  <2>. QED
    BY <1>1, <1>20, <1>22, <2>1, <2>2, <2>3 DEF Raise, PTypeOK, PmcTypeOK, DataSet
<1>23. CASE UNCHANGED vars
  BY <1>4, <1>10, <1>23 DEF vars
<1>. QED
  BY <1>6, <1>7, <1>8, <1>9, <1>11, <1>12, <1>13, <1>14, <1>15, <1>16, <1>17,
     <1>18, <1>19, <1>21, <1>22, <1>23, StepKinds

LEMMA AskingStep ==
  ASSUME AskingInv, [Next]_vars
  PROVE  phase' = "asking" => pmc' # NoPmc
<1>1. CASE Construct \/ ReadJournal \/ Consume
  BY <1>1 DEF Construct, ReadJournal, Consume
<1>2. CASE EndConsume
  BY <1>2 DEF EndConsume
<1>3. CASE Raise \/ ReportInstances
  BY <1>3 DEF Raise, ReadyToRead, ReportInstances
<1>4. ASSUME UNCHANGED <<phase, pmc>>
      PROVE  phase' = "asking" => pmc' # NoPmc
  BY <1>4 DEF AskingInv
<1>. QED
  BY <1>1, <1>2, <1>3, <1>4, StepKinds
     DEF StepUnit, Age, taskVars, Elect, AnswerQuery, LoseQuery, PmcExits,
         QueryDataset, vars

\* Every variable keeps its type.
THEOREM Ptp4lTypeCorrect == Spec => []PTypeOK
<1>1. AskingInv /\ [Next]_vars => AskingInv'
  BY PTypeStep, PmcInvStep, AskingStep DEF AskingInv
<1>2. AskingInv => PTypeOK
  BY DEF AskingInv
<1>. QED
  BY <1>1, <1>2, AskingInvInit, PTL DEF Spec

------------------------------------------------------------------------------
(* The monitor implements UnitFollower. *)

\* The inductive invariant: a process has the number of its start, and without
\* a state no query and no answer is under way.
AnswerInv ==
  /\ AskingInv
  /\ unit # NoProcess <=> stage \in {"starting", "running", "stopping"}
  /\ unit # NoProcess => unit.run = runs /\ runs \in 1..MaxRuns
  /\ state = Uninitialized => ~ alive /\ asked = <<>> /\ pipe = <<>>
  /\ phase # "consuming" => batch = <<>>

LEMMA AnswerInvInit == Init => AnswerInv
BY AskingInvInit DEF Init, JournalInit, AnswerInv

\* A state of the monitor is never taken for none.
LEMMA PmcOfState ==
  ASSUME AskingInv
  PROVE  /\ state # Uninitialized <=> pmc # NoPmc
         /\ unit # NoProcess => unit.config # Uninitialized /\ unit.config \in Config
BY NoneAssumption DEF AskingInv, PTypeOK, PmcInv, PmcFollowsState

\* Starting over and a new pmc leave no query and no answer behind.
LEMMA PmcStepClears ==
  ASSUME AnswerInv,
         \/ Initialize /\ state = Uninitialized
         \/ \E e : Parse(e)
         \/ state' = Uninitialized /\ OnStopped
  PROVE  \/ state' = Uninitialized /\ ~ alive' /\ asked' = <<>> /\ pipe' = <<>>
         \/ state = Uninitialized /\ unit # NoProcess /\ state' = unit.config /\ pipe' = <<>>
         \/ state # Uninitialized /\ SamePmc /\ state' = state
<1>1. ASSUME Initialize, state = Uninitialized
      PROVE  \/ state' = Uninitialized /\ ~ alive' /\ asked' = <<>> /\ pipe' = <<>>
             \/ unit # NoProcess /\ state' = unit.config /\ pipe' = <<>>
  BY <1>1 DEF Initialize, StartPmc, SamePmc, AnswerInv
<1>2. ASSUME state' = Uninitialized, OnStopped
      PROVE  ~ alive' /\ asked' = <<>> /\ pipe' = <<>>
  BY <1>2 DEF OnStopped, ResetPmc
<1>3. CASE \E e : Parse(e)
  <2>1. PICK e : Parse(e)
    BY <1>3
  <2>2. CASE e = Notice
    BY <1>2, <2>1, <2>2 DEF Parse, Uninitialize, SamePmc, AnswerInv
  <2>3. CASE e # Notice
    BY <1>1, <2>1, <2>3 DEF Parse, ParseRunning
  <2>. QED
    BY <2>2, <2>3
<1>. QED
  BY <1>1, <1>2, <1>3

LEMMA UnitInvStep ==
  ASSUME AnswerInv, [Next]_vars
  PROVE  /\ unit' # NoProcess <=> stage' \in {"starting", "running", "stopping"}
         /\ unit' # NoProcess => unit'.run = runs' /\ runs' \in 1..MaxRuns
<1>1. CASE \E c \in Config : Start(c)
  <2>1. PICK c \in Config : Start(c)
    BY <1>1
  <2>2. unit' = [run |-> runs + 1, config |-> c] /\ runs' = runs + 1
    BY <2>1 DEF Start
  <2>3. runs + 1 \in 1..MaxRuns
    BY <2>1, BoundsAssumption DEF Start, AnswerInv, AskingInv, PTypeOK, JournalTypeOK
  <2>4. unit' \in Process
    BY <2>2, <2>3 DEF Process, Run
  <2>. QED
    BY <2>1, <2>2, <2>3, <2>4, ProcessAssumption DEF Start
<1>2. CASE StepUnit(\/ Announce("starting", "running")
                    \/ Announce("running", "stopping")
                    \/ Announce("exited", "stopped"))
  BY <1>2 DEF StepUnit, Announce, AnswerInv
<1>3. CASE StepUnit(Exit)
  BY <1>3 DEF StepUnit, Exit
<1>4. ASSUME UNCHANGED unitVars
      PROVE  /\ unit' # NoProcess <=> stage' \in {"starting", "running", "stopping"}
             /\ unit' # NoProcess => unit'.run = runs' /\ runs' \in 1..MaxRuns
  BY <1>4 DEF unitVars, AnswerInv
<1>. QED
  BY <1>1, <1>2, <1>3, <1>4, StepKinds
     DEF StepUnit, LogEntry, Age, AgeUnless, Elect, AnswerQuery, LoseQuery, PmcExits,
         Construct, NewJournalMonitor, ReadJournal, PollJournal, Consume, NextEntry,
         EndConsume, QueryDataset, ReportInstances, Raise, LoseBatch, vars, journalVars

\* Without a state pmc does not run, and nothing is asked of it.
LEMMA ClearedStep ==
  ASSUME AnswerInv, [Next]_vars
  PROVE  /\ state' = Uninitialized => ~ alive' /\ asked' = <<>> /\ pipe' = <<>>
         /\ phase' # "consuming" => batch' = <<>>
<1>1. /\ AskingInv /\ (phase = "asking" => state # Uninitialized)
      /\ (unit # NoProcess => unit.config # Uninitialized)
  BY AskingClock, PmcOfState DEF AnswerInv
<1>2. CASE Construct
  <2>1. state = Uninitialized
    BY <1>1, <1>2 DEF Construct, AskingInv, PmcInv
  <2>. QED
    BY <1>1, <1>2, <2>1, PmcStepClears DEF Construct, NewJournalMonitor
<1>3. CASE Consume
  BY <1>1, <1>3, PmcStepClears DEF Consume
<1>4. CASE Raise
  BY <1>4 DEF Raise, OnStopped, ResetPmc, LoseBatch
<1>5. CASE AnswerQuery \/ LoseQuery \/ PmcExits
  BY <1>5 DEF AnswerQuery, LoseQuery, PmcExits, AnswerInv, journalVars, readVars
<1>6. CASE QueryDataset \/ ReportInstances
  BY <1>1, <1>6 DEF QueryDataset, ReadyToRead, ReportInstances, AnswerInv, journalVars, readVars
<1>7. CASE EndConsume \/ ReadJournal
  BY <1>7 DEF EndConsume, ReadJournal, AnswerInv, journalVars, readVars
<1>8. ASSUME UNCHANGED <<taskVars, batch>>
      PROVE  /\ state' = Uninitialized => ~ alive' /\ asked' = <<>> /\ pipe' = <<>>
             /\ phase' # "consuming" => batch' = <<>>
  BY <1>8 DEF taskVars, AnswerInv
<1>. QED
  BY <1>2, <1>3, <1>4, <1>5, <1>6, <1>7, <1>8, StepKinds
     DEF Start, StepUnit, Announce, Exit, LogEntry, Age, AgeUnless, Elect, vars,
         journalVars, readVars

LEMMA AnswerInvHolds == Spec => []AnswerInv
<1>1. AnswerInv /\ [Next]_vars => AnswerInv'
  BY PTypeStep, PmcInvStep, AskingStep, UnitInvStep, ClearedStep
     DEF AnswerInv, AskingInv
<1>. QED
  BY <1>1, AnswerInvInit, PTL DEF Spec

------------------------------------------------------------------------------
(* Every step is one of UnitFollower, or none. *)

LEMMA PendingBoolean == ChangePending \in BOOLEAN /\ ChangePending' \in BOOLEAN
BY DEF ChangePending

LEMMA HeldNothing == pipe' = <<>> => HeldRuns' = {}
BY DEF HeldRuns

\* Steps that only matter below the abstraction.
LEMMA FollowerStutters ==
  ASSUME UNCHANGED <<state, pipe, unitVars>>, ChangePending' <=> ChangePending
  PROVE  UNCHANGED Follower!vars
<1>1. ChangePending' = ChangePending
  BY PendingBoolean
<1>. QED
  BY <1>1 DEF Follower!vars, unitVars, HeldRuns

LEMMA FollowerStartsOver ==
  ASSUME state' = Uninitialized, pipe' = <<>>, UNCHANGED unitVars
  PROVE  Follower!StartOver
BY PendingBoolean, HeldNothing DEF Follower!StartOver, unitVars

\* Something to notice has come up.
LEMMA FollowerAnnounces ==
  ASSUME UNCHANGED <<state, pipe, unit, runs>>, ChangePending'
  PROVE  Follower!Announce
<1>1. ChangePending' = TRUE
  BY PendingBoolean
<1>. QED
  BY <1>1 DEF Follower!Announce, HeldRuns

LEMMA FollowerObserves ==
  ASSUME state = Uninitialized, unit # NoProcess, state' = unit.config,
         pipe' = <<>>, UNCHANGED unitVars
  PROVE  Follower!Observe
BY PendingBoolean, HeldNothing DEF Follower!Observe, unitVars

\* What pmc is answered is of the process that runs.
LEMMA AnswerLearns ==
  ASSUME AnswerInv, AnswerQuery
  PROVE  [Follower!Next]_(Follower!vars)
<1>1. UNCHANGED <<unitVars, journalVars, state>>
  BY DEF AnswerQuery, journalVars
<1>2. ChangePending' = ChangePending
  BY <1>1, PendingBoolean DEF ChangePending, journalVars, unitVars, readVars
<1>3. CASE pipe' = pipe
  BY <1>1, <1>2, <1>3, FollowerStutters
<1>4. CASE pipe' # pipe
  <2> DEFINE a == AnswersTo(Head(asked))
  <2>1. unit # NoProcess /\ alive /\ pipe' = pipe \o a
    BY <1>4 DEF AnswerQuery
  <2>2. unit \in Process /\ best \in Elections /\ Head(asked) \in DataSet
        /\ pipe \in Seq(Answer)
    BY <2>1, TailEntries
       DEF AnswerInv, AskingInv, PTypeOK, JournalTypeOK, AnswerQuery, DataSet
  <2>3. a \in Seq(Answer) /\ \A i \in DOMAIN a : a[i].run = unit.run
    BY <2>2, AnswersType
  <2> HIDE DEF a
  <2>4. /\ Len(pipe) \in Nat /\ Len(a) \in Nat
        /\ DOMAIN pipe = 1..Len(pipe) /\ DOMAIN a = 1..Len(a)
        /\ DOMAIN pipe' = 1..(Len(pipe) + Len(a))
        /\ \A i \in 1..(Len(pipe) + Len(a)) :
             pipe'[i] = IF i <= Len(pipe) THEN pipe[i] ELSE a[i - Len(pipe)]
    BY <2>1, <2>2, <2>3, ConcatProperties, LenProperties
  <2>5. ASSUME NEW i \in DOMAIN pipe'
        PROVE  pipe'[i].run \in HeldRuns \cup {unit.run}
    <3>1. CASE i <= Len(pipe)
      BY <2>4, <3>1 DEF HeldRuns
    <3>2. CASE ~ (i <= Len(pipe))
      <4>1. i - Len(pipe) \in DOMAIN a /\ pipe'[i] = a[i - Len(pipe)]
        BY <2>4, <3>2
      <4>. QED
        BY <2>3, <4>1
    <3>. QED
      BY <3>1, <3>2
  <2>6. HeldRuns' \subseteq HeldRuns \cup {unit.run}
    BY <2>5 DEF HeldRuns
  <2>7. unit.run \in 1..runs
    BY <2>1, BoundsAssumption DEF AnswerInv
  <2>8. HeldRuns' \subseteq HeldRuns \cup Follower!Sources(ChangePending)
    BY <2>6, <2>7 DEF Follower!Sources
  <2>9. state # Uninitialized
    BY <2>1 DEF AnswerInv
  <2>. QED
    BY <1>1, <1>2, <2>8, <2>9 DEF Follower!Next, Follower!Learn, unitVars
<1>. QED
  BY <1>3, <1>4

LEMMA ConsumeFollows ==
  ASSUME AnswerInv, Consume
  PROVE  [Follower!Next]_(Follower!vars)
<1> DEFINE e == Head(batch)
<1>1. /\ JournalTypeOK(Entry) /\ NextEntry /\ Parse(e)
      /\ UNCHANGED unitVars
  BY DEF AnswerInv, AskingInv, PTypeOK, Consume, NextEntry
<1>2. \/ state' = Uninitialized /\ ~ alive' /\ asked' = <<>> /\ pipe' = <<>>
      \/ state = Uninitialized /\ unit # NoProcess /\ state' = unit.config /\ pipe' = <<>>
      \/ state # Uninitialized /\ SamePmc /\ state' = state
  BY <1>1, PmcStepClears
<1>3. CASE state' = Uninitialized /\ pipe' = <<>>
  BY <1>1, <1>3, FollowerStartsOver DEF Follower!Next
<1>4. CASE state = Uninitialized /\ unit # NoProcess /\ state' = unit.config /\ pipe' = <<>>
  BY <1>1, <1>4, FollowerObserves DEF Follower!Next
<1>5. CASE state # Uninitialized /\ SamePmc /\ state' = state
  <2>1. e # Notice
    BY <1>1, <1>5, PmcOfState DEF Parse, Uninitialize, AnswerInv
  <2>2. ChangePending' <=> ChangePending
    <3>1. Unread' = Unread /\ (Announces(batch) <=> Announces(batch'))
      BY <1>1, <2>1, NextEntryUnread
    <3>. QED
      BY <1>1, <3>1, PendingIs DEF ChangePending, Unread, unitVars
  <2>. QED
    BY <1>1, <1>5, <2>2, FollowerStutters DEF SamePmc
<1>. QED
  BY <1>2, <1>3, <1>4, <1>5

LEMMA FollowerStep ==
  ASSUME AnswerInv, [Next]_vars
  PROVE  [Follower!Next]_(Follower!vars)
<1>1. /\ JournalTypeOK(Entry) /\ Notice \in Entry /\ Line \in Entry /\ Line # Notice
      /\ AskingInv /\ PmcInv
  BY DEF AnswerInv, AskingInv, PTypeOK, Entry, Line, Notice
<1>2. CASE (\E c \in Config : Start(c)) /\ UNCHANGED taskVars
  <2>1. PICK c \in Config : Start(c)
    BY <1>2
  <2>2. ChangePending' = TRUE
    BY <2>1, PendingBoolean DEF Start, ChangePending
  <2>3. Follower!Start(c)
    BY <1>2, <2>1, <2>2 DEF Start, Follower!Start, taskVars, HeldRuns
  <2>. QED
    BY <2>3 DEF Follower!Next
<1>3. CASE StepUnit(Exit)
  <2>1. ChangePending' <=> ChangePending
    BY <1>3 DEF StepUnit, Exit, ChangePending, readVars
  <2>2. Follower!Exit
    BY <1>3, <2>1, PendingBoolean DEF StepUnit, Exit, taskVars, Follower!Exit, HeldRuns
  <2>. QED
    BY <2>2 DEF Follower!Next
<1>4. ASSUME NEW f, NEW t, Announce(f, t), UNCHANGED taskVars
      PROVE  [Follower!Next]_(Follower!vars)
  <2>1. ChangePending'
    BY <1>1, <1>4, AnnounceUnread DEF ChangePending, Unread
  <2>2. Follower!Announce
    BY <1>4, <2>1, FollowerAnnounces DEF Announce, taskVars
  <2>. QED
    BY <2>2 DEF Follower!Next
<1>5. CASE StepUnit(LogEntry(Line))
  <2>1. UNCHANGED <<unitVars, batch, taskVars>> /\ LogEntry(Line)
    BY <1>5 DEF StepUnit, LogEntry, readVars
  <2>2. Announces(Unread)' <=> Announces(Unread)
    BY <1>1, <2>1, LogEntryUnread
  <2>3. ChangePending' <=> ChangePending
    BY <2>1, <2>2, PendingIs DEF ChangePending, Unread, unitVars
  <2>. QED
    BY <2>1, <2>3, FollowerStutters DEF taskVars
<1>6. CASE Age
  <2>1. UNCHANGED <<unitVars, batch, taskVars>> /\ (phase # "down" => read > 0)
    BY <1>6 DEF Age, AgeUnless
  <2>2. CASE read > 0
    <3>1. Announces(Unread)' <=> Announces(Unread)
      BY <1>1, <1>6, <2>2, AgeUnread DEF Age
    <3>2. ChangePending' <=> ChangePending
      BY <2>1, <3>1, PendingIs DEF ChangePending, Unread, unitVars
    <3>. QED
      BY <2>1, <3>2, FollowerStutters DEF taskVars
  <2>3. CASE phase = "down"
    <3>1. state = Uninitialized /\ pipe = <<>>
      BY <1>1, <2>3 DEF PmcInv, AnswerInv
    <3>. QED
      BY <2>1, <3>1, FollowerStartsOver DEF taskVars, Follower!Next
  <2>. QED
    BY <2>1, <2>2, <2>3
<1>7. ASSUME UNCHANGED journalVars
      PROVE  UNCHANGED unitVars /\ (ChangePending' <=> ChangePending)
  BY <1>7 DEF journalVars, unitVars, readVars, ChangePending
<1>8. CASE \/ \E e \in Elections : Elect(e)
           \/ LoseQuery \/ PmcExits \/ EndConsume \/ QueryDataset \/ UNCHANGED vars
  BY <1>7, <1>8, FollowerStutters
     DEF Elect, LoseQuery, PmcExits, EndConsume, QueryDataset, vars, taskVars
<1>9. CASE AnswerQuery
  BY <1>9, AnswerLearns
<1>10. CASE Construct
  <2>1. UNCHANGED unitVars /\ Initialize /\ state = Uninitialized
    BY <1>1, <1>10 DEF Construct, NewJournalMonitor, PmcInv
  <2>. QED
    BY <2>1, PmcStepClears, FollowerStartsOver, FollowerObserves DEF Follower!Next
<1>11. CASE ReadJournal
  <2>1. UNCHANGED <<unitVars, state, pipe>> /\ batch = <<>> /\ PollJournal
    BY <1>11 DEF ReadJournal, PollJournal, AnswerInv
  <2>2. ~ Announces(batch)
    BY <2>1 DEF Announces
  <2>3. ChangePending => ChangePending'
    BY <1>1, <2>1, <2>2, PollUnread, PendingIs DEF ChangePending, unitVars
  <2>4. CASE ChangePending' <=> ChangePending
    BY <2>1, <2>4, FollowerStutters
  <2>5. CASE ChangePending'
    BY <2>1, <2>5, FollowerAnnounces DEF unitVars, Follower!Next
  <2>. QED
    BY <2>3, <2>4, <2>5
<1>12. CASE Consume
  BY <1>12, ConsumeFollows
<1>13. CASE ReportInstances
  <2>1. UNCHANGED unitVars /\ ChangePending' = ChangePending
    BY <1>7, <1>13, PendingBoolean DEF ReadyToRead, ReportInstances
  <2>2. state # Uninitialized /\ state' = state /\ HeldRuns' = {}
    BY <1>1, <1>13, AskingClock, HeldNothing DEF ReadyToRead, ReportInstances, ReadBack
  <2>. QED
    BY <2>1, <2>2 DEF Follower!Next, Follower!Learn, unitVars
<1>14. CASE Raise
  BY <1>14, FollowerStartsOver DEF Raise, OnStopped, ResetPmc, LoseBatch, Follower!Next
<1>15. CASE StepUnit(\/ Announce("starting", "running")
                     \/ Announce("running", "stopping")
                     \/ Announce("exited", "stopped"))
  BY <1>4, <1>15 DEF StepUnit
<1>. QED
  BY <1>2, <1>3, <1>5, <1>6, <1>8, <1>9, <1>10, <1>11, <1>12, <1>13, <1>14, <1>15,
     StepKinds

LEMMA FollowerInit == Init => Follower!Init
BY DEF Init, JournalInit, Follower!Init, HeldRuns, ChangePending, Announces

\* The monitor implements UnitFollower: after it has noticed that its unit was
\* started, no answer of an earlier process reaches it any more, however queries
\* and answers, exits of pmc and restarts are interleaved.
THEOREM Ptp4lImplementsFollower == Spec => ImplementsFollower
BY FollowerInit, FollowerStep, AnswerInvHolds, PTL
   DEF Spec, ImplementsFollower, Follower!Spec

LEMMA FollowsIsAnswersFollow ==
  ASSUME AnswerInv, Follower!Follows
  PROVE  AnswersFollowUnit
BY DEF AnswerInv, AskingInv, PmcInv, PmcFollowsState, Follower!Follows, HeldRuns,
       AnswersFollowUnit

\* Unless a start or stop of the unit is still to be come to, the clock that the
\* instance is reported under, and all answers that are left to be reported, are
\* those of the process that runs.
THEOREM AnswersAlwaysFollow == Spec => []AnswersFollowUnit
BY Ptp4lImplementsFollower, Follower!FollowerFollows, AnswerInvHolds,
   FollowsIsAnswersFollow, PTL
   DEF ImplementsFollower
=============================================================================
