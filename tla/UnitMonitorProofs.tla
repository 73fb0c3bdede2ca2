-------------------------- MODULE UnitMonitorProofs --------------------------
(***************************************************************************)
(* For any clocks, configurations, names, readings and bounds: the monitor *)
(* of a phc2sys unit is well typed, follows the process that runs, and     *)
(* implements UnitFollower.                                                *)
(***************************************************************************)
EXTENDS UnitMonitor, UnitJournalProofs

------------------------------------------------------------------------------
(* The types. *)

LEMMA EntryKinds ==
  /\ Notice \in Entry
  /\ \A e \in Entry : e.type = "notice" <=> e = Notice
  /\ \A e \in Entry : e.type = "offset" => e \in Line
  /\ \A e \in Line : e \in Entry /\ e.type = "offset" /\ e # Notice
  /\ \A e \in LineWithoutDelay : e \in Entry /\ e.type = "without_delay" /\ e # Notice
  /\ \A e \in Entry : e = Notice \/ e \in Line \/ e \in LineWithoutDelay
BY DEF Entry, Notice, Line, LineWithoutDelay

LEMMA FactoryType ==
  ASSUME unit \in Process \cup {NoProcess}
  PROVE  /\ Factory \in Running \cup {Uninitialized}
         /\ unit # NoProcess => /\ Factory # Uninitialized
                                /\ Factory.config = unit.config
                                /\ \A d \in Clock : Factory.dst[d] = Unmeasured
BY UnsetAssumption DEF Factory, Running, Process

\* A line changes the measurement of one clock, or none.
LEMMA ParsedType ==
  ASSUME NEW s \in Running, NEW e \in Line
  PROVE  /\ Parsed(s, e) \in Running
         /\ Parsed(s, e).config = s.config
         /\ \A d \in Clock : \/ Parsed(s, e).dst[d] = s.dst[d]
                             \/ Parsed(s, e).dst[d] = [reading |-> e.reading,
                                                       run |-> e.run]
<1> DEFINE d == Aliases[s.config][e.name]
<1>1. /\ s.config \in Config /\ e.name \in Name /\ e.run \in Run /\ e.reading \in Reading
      /\ s.dst \in [Clock -> Measured \cup {Unmeasured}]
      /\ s = [config |-> s.config, dst |-> s.dst]
  BY DEF Running, Line
<1>2. d \in Clock \cup {NoClock}
  BY <1>1, ConfigAssumption
<1>3. [reading |-> e.reading, run |-> e.run] \in Measured
  BY <1>1 DEF Measured
<1>. QED
  BY <1>1, <1>2, <1>3 DEF Parsed, Running

LEMMA AfterType ==
  ASSUME UTypeOK, NEW e \in Entry, ~ Raises(e)
  PROVE  After(state, e) \in Running \cup {Uninitialized}
<1>1. unit \in Process \cup {NoProcess} /\ state \in Running \cup {Uninitialized}
  BY DEF UTypeOK, JournalTypeOK
<1>2. CASE e = Notice
  BY <1>2, EntryKinds DEF After
<1>3. CASE e \in Line
  BY <1>1, <1>3, EntryKinds, FactoryType, ParsedType, UnsetAssumption DEF After
<1>4. CASE e \in LineWithoutDelay
  BY <1>1, <1>4, EntryKinds DEF After, Raises
<1>. QED
  BY <1>2, <1>3, <1>4, EntryKinds

LEMMA ToldType ==
  ASSUME UTypeOK, NEW d \in Clock, Measures(state, d)
  PROVE  UpdateFor(state, d) \in Update
<1>1. state \in Running /\ state.dst[d] \in Measured
  BY DEF UTypeOK, Measures, Running
<1>2. Source[state.config] \in Clock /\ state.dst[d].reading \in Reading
  BY <1>1, ConfigAssumption DEF Running, Measured
<1>. QED
  BY <1>2 DEF UpdateFor, Update

LEMMA UTypeInit == Init => UTypeOK
<1>. SUFFICES ASSUME Init PROVE UTypeOK
  OBVIOUS
<1>1. log = <<>> /\ batch = <<>> /\ read = 0
  BY DEF Init, JournalInit
<1>2. log \in Seq(Entry) /\ batch \in Seq(Entry) /\ read \in 0..Len(log)
  BY <1>1
<1>3. JournalTypeOK(Entry)
  <2>1. 0 \in 0..MaxRuns
    BY BoundsAssumption
  <2>2. runs \in 0..MaxRuns /\ stage \in Stage /\ cursor \in BOOLEAN
    BY <2>1 DEF Init, JournalInit, Stage
  <2>3. unit \in Process \cup {NoProcess}
    BY DEF Init, JournalInit
  <2>. QED
    BY <1>2, <2>2, <2>3 DEF JournalTypeOK
<1>. QED
  BY <1>3, FaultsAssumption DEF Init, UTypeOK

LEMMA UTypeStep == UTypeOK /\ [Next]_vars => UTypeOK'
<1>. SUFFICES ASSUME UTypeOK, [Next]_vars PROVE UTypeOK'
  OBVIOUS
<1>0. JournalTypeOK(Entry) /\ Notice \in Entry
  BY EntryKinds DEF UTypeOK
<1>1. CASE UnitStep /\ UNCHANGED <<taskVars, faults>>
  BY <1>0, <1>1, UnitStepType DEF UTypeOK, taskVars
<1>2. CASE Log
  <2>1. PICK n \in Name, r \in Reading : LogLine(n, r)
    BY <1>2 DEF Log
  <2> DEFINE e == [type |-> "offset", run |-> unit.run, name |-> n, reading |-> r]
  <2>2. e \in Entry
    BY <2>1, <1>0 DEF LogLine, JournalTypeOK, Process, Entry, Line
  <2>3. LogEntry(e) /\ UNCHANGED <<taskVars, faults>>
    BY <2>1 DEF LogLine
  <2> HIDE DEF e
  <2>. QED
    BY <1>0, <2>2, <2>3, LogEntryType DEF UTypeOK, taskVars
<1>3. CASE LogLineWithoutDelay
  <2>1. [type |-> "without_delay"] \in Entry
    BY DEF Entry, LineWithoutDelay
  <2>2. JournalTypeOK(Entry)'
    BY <1>0, <1>3, <2>1, LogEntryType DEF LogLineWithoutDelay
  <2>3. faults' \in 0..MaxFaults
    BY <1>3, FaultsAssumption DEF LogLineWithoutDelay, UTypeOK
  <2>. QED
    BY <1>3, <2>2, <2>3 DEF UTypeOK, LogLineWithoutDelay, taskVars
<1>4. CASE Age
  BY <1>0, <1>4, AgeType DEF Age, UTypeOK, taskVars
<1>5. CASE Construct
  <2>1. JournalTypeOK(Entry)'
    BY <1>0, <1>5, NewMonitorType DEF Construct
  <2>2. Factory \in Running \cup {Uninitialized}
    BY <1>0, FactoryType DEF JournalTypeOK
  <2>. QED
    BY <1>5, <2>1, <2>2 DEF UTypeOK, Construct
<1>6. CASE ReadJournal
  <2>1. JournalTypeOK(Entry)'
    BY <1>0, <1>6, PollType DEF ReadJournal
  <2>. QED
    BY <1>6, <2>1 DEF UTypeOK, ReadJournal
<1>7. CASE Consume
  <2>1. JournalTypeOK(Entry)'
    BY <1>0, <1>7, NextEntryType DEF Consume
  <2>2. Head(batch) \in Entry
    BY <1>0, <1>7, NextEntryUnread DEF Consume
  <2>3. state' \in Running \cup {Uninitialized}
    BY <1>7, <2>2, AfterType DEF Consume
  <2>. QED
    BY <1>7, <2>1, <2>3 DEF UTypeOK, Consume
<1>8. CASE EndPoll
  <2>1. told' \in [Clock -> Update \cup {NoUpdate}]
    BY <1>8, ToldType DEF EndPoll, Sends, UTypeOK
  <2>2. JournalTypeOK(Entry)'
    BY <1>0, <1>8 DEF EndPoll, JournalTypeOK, journalVars, unitVars, readVars
  <2>. QED
    BY <1>8, <2>1, <2>2 DEF UTypeOK, EndPoll
<1>9. ASSUME Raise PROVE JournalTypeOK(Entry)' /\ phase' = "down"
                         /\ state' = Uninitialized /\ old' = Uninitialized
                         /\ told' = told
  BY <1>0, <1>9, NextEntryType DEF Raise
<1>10. CASE RaiseInParse
  BY <1>9, <1>10 DEF RaiseInParse, UTypeOK
<1>11. CASE Crash
  <2>1. faults' \in 0..MaxFaults
    BY <1>11, FaultsAssumption DEF Crash, UTypeOK
  <2>. QED
    BY <1>9, <1>11, <2>1 DEF Crash, UTypeOK
<1>12. CASE UNCHANGED vars
  BY <1>12 DEF UTypeOK, JournalTypeOK, vars, journalVars, unitVars, readVars, taskVars
<1>. QED
  BY <1>1, <1>2, <1>3, <1>4, <1>5, <1>6, <1>7, <1>8, <1>10, <1>11, <1>12 DEF Next

\* Every variable keeps its type.
THEOREM MonitorTypeCorrect == Spec => []UTypeOK
BY UTypeInit, UTypeStep, PTL DEF Spec

------------------------------------------------------------------------------
(* What keeps the monitor from mixing up two processes. *)

\* Entries with no line of a run that has not started yet.
Written(n) == {e \in Entry : e.type = "offset" => e.run \in 1..n}

\* Every line of another run than r is followed by a start or stop message.
Noticed(entries, r) ==
  \A i \in DOMAIN entries :
    entries[i].type = "offset" /\ entries[i].run # r =>
      \E j \in DOMAIN entries : j > i /\ entries[j] = Notice

\* The inductive invariant.  What makes it so: a process is announced before it
\* can be replaced, so between the lines of two processes there is always a
\* message in the journal, and a batch that has lost it was read before it was
\* written, so that it is unread.
JournalInv ==
  /\ UTypeOK
  /\ unit # NoProcess <=> stage \in {"starting", "running", "stopping"}
  /\ unit # NoProcess => unit.run = runs
  /\ log \in Seq(Written(runs)) /\ batch \in Seq(Written(runs))
  /\ phase = "down" => state = Uninitialized
  /\ phase # "consuming" => batch = <<>>
  /\ stage \in {"running", "stopping"} =>
       /\ Noticed(log, unit.run)
       /\ Noticed(batch, unit.run) \/ Announces(Unread)

\* A message makes everything before it noticed.
LEMMA NoticeNoticed ==
  ASSUME NEW S, NEW s \in Seq(S), Notice \in S, NEW r
  PROVE  Noticed(Append(s, Notice), r)
<1> DEFINE t == Append(s, Notice)
<1>1. /\ Len(s) \in Nat
      /\ DOMAIN t = 1..(Len(s) + 1)
      /\ t[Len(s) + 1] = Notice
  BY AppendEntries
<1> HIDE DEF t
<1>2. ASSUME NEW i \in DOMAIN t, t[i].type = "offset"
      PROVE  \E j \in DOMAIN t : j > i /\ t[j] = Notice
  <2>1. i # Len(s) + 1
    BY <1>1, <1>2 DEF Notice
  <2>2. Len(s) + 1 \in DOMAIN t /\ Len(s) + 1 > i
    BY <1>1, <2>1
  <2>. QED
    BY <1>1, <2>2
<1>. QED
  BY <1>2 DEF Noticed, t

LEMMA AppendNoticed ==
  ASSUME NEW S, NEW s \in Seq(S), NEW e \in S, NEW r, Noticed(s, r),
         ~(e.type = "offset" /\ e.run # r)
  PROVE  Noticed(Append(s, e), r)
<1> DEFINE t == Append(s, e)
<1>1. /\ Len(s) \in Nat
      /\ DOMAIN s = 1..Len(s)
      /\ DOMAIN t = 1..(Len(s) + 1)
      /\ \A i \in 1..Len(s) : t[i] = s[i]
      /\ t[Len(s) + 1] = e
  BY AppendEntries
<1> HIDE DEF t
<1>2. ASSUME NEW i \in DOMAIN t, t[i].type = "offset" /\ t[i].run # r
      PROVE  \E j \in DOMAIN t : j > i /\ t[j] = Notice
  <2>1. i \in DOMAIN s /\ t[i] = s[i]
    BY <1>1, <1>2
  <2>2. PICK j \in DOMAIN s : j > i /\ s[j] = Notice
    BY <1>2, <2>1 DEF Noticed
  <2>3. j \in DOMAIN t /\ t[j] = Notice
    BY <1>1, <2>2
  <2>. QED
    BY <2>2, <2>3
<1>. QED
  BY <1>2 DEF Noticed, t

LEMMA TailNoticed ==
  ASSUME NEW S, NEW s \in Seq(S), s # <<>>, NEW r, Noticed(s, r)
  PROVE  /\ Noticed(Tail(s), r)
         /\ Head(s).type = "offset" /\ Head(s).run # r => Announces(Tail(s))
<1> DEFINE t == Tail(s)
<1>1. /\ Len(s) \in Nat /\ Len(s) > 0
      /\ DOMAIN s = 1..Len(s)
      /\ DOMAIN t = 1..(Len(s) - 1)
      /\ \A i \in 1..(Len(s) - 1) : t[i] = s[i + 1]
      /\ Head(s) = s[1]
  BY TailEntries
<1> HIDE DEF t
<1>2. ASSUME NEW j \in DOMAIN s, j > 1, s[j] = Notice
      PROVE  j - 1 \in DOMAIN t /\ t[j - 1] = Notice
  BY <1>1, <1>2
<1>3. ASSUME NEW i \in DOMAIN t, t[i].type = "offset" /\ t[i].run # r
      PROVE  \E j \in DOMAIN t : j > i /\ t[j] = Notice
  <2>1. i + 1 \in DOMAIN s /\ t[i] = s[i + 1]
    BY <1>1
  <2>2. PICK j \in DOMAIN s : j > i + 1 /\ s[j] = Notice
    BY <1>3, <2>1 DEF Noticed
  <2>3. j - 1 \in DOMAIN t /\ t[j - 1] = Notice /\ j - 1 > i
    BY <1>1, <1>2, <2>2
  <2>. QED
    BY <2>3
<1>4. ASSUME Head(s).type = "offset" /\ Head(s).run # r
      PROVE  Announces(t)
  <2>1. PICK j \in DOMAIN s : j > 1 /\ s[j] = Notice
    BY <1>1, <1>4 DEF Noticed
  <2>. QED
    BY <1>2, <2>1 DEF Announces
<1>. QED
  BY <1>3, <1>4 DEF Noticed, t

LEMMA SuffixNoticed ==
  ASSUME NEW S, NEW s \in Seq(S), NEW n \in 0..Len(s), NEW r, Noticed(s, r)
  PROVE  Noticed(SubSeq(s, n + 1, Len(s)), r)
<1> DEFINE t == SubSeq(s, n + 1, Len(s))
<1>1. t \in Seq(S) /\ Len(t) = Len(s) - n /\ \A i \in 1..Len(t) : t[i] = s[i + n]
  BY SuffixEntries
<1>2. DOMAIN t = 1..Len(t) /\ DOMAIN s = 1..Len(s) /\ Len(s) \in Nat
  BY <1>1, LenProperties
<1> HIDE DEF t
<1>3. ASSUME NEW i \in DOMAIN t, t[i].type = "offset" /\ t[i].run # r
      PROVE  \E j \in DOMAIN t : j > i /\ t[j] = Notice
  <2>1. i + n \in DOMAIN s /\ t[i] = s[i + n]
    BY <1>1, <1>2
  <2>2. PICK j \in DOMAIN s : j > i + n /\ s[j] = Notice
    BY <1>3, <2>1 DEF Noticed
  <2>3. j - n \in DOMAIN t /\ t[j - n] = s[j - n + n] /\ j - n + n = j /\ j - n > i
    BY <1>1, <1>2, <2>2
  <2>. QED
    BY <2>2, <2>3
<1>. QED
  BY <1>3 DEF Noticed, t

LEMMA EmptyNoticed == \A r : Noticed(<<>>, r)
BY DEF Noticed

------------------------------------------------------------------------------
(* The inductive invariant. *)

LEMMA JournalInvInit == Init => JournalInv
<1>. SUFFICES ASSUME Init PROVE JournalInv
  OBVIOUS
<1>1. UTypeOK
  BY UTypeInit
<1>2. log = <<>> /\ batch = <<>> /\ unit = NoProcess /\ stage = "stopped"
  BY DEF Init, JournalInit
<1>3. log \in Seq(Written(runs)) /\ batch \in Seq(Written(runs))
  BY <1>2
<1>. QED
  BY <1>1, <1>2, <1>3 DEF JournalInv, Init

\* The variables of the unit change together, and only in its own steps.
LEMMA UnitInvStep ==
  ASSUME JournalInv, [Next]_vars
  PROVE  /\ unit' # NoProcess <=> stage' \in {"starting", "running", "stopping"}
         /\ unit' # NoProcess => unit'.run = runs'
<1>1. CASE \E c \in Config : Start(c)
  <2>1. PICK c \in Config : Start(c)
    BY <1>1
  <2>2. unit' \in Process \cup {NoProcess}
    BY UTypeStep DEF JournalInv, UTypeOK, JournalTypeOK
  <2>3. unit' = [run |-> runs + 1, config |-> c] /\ runs' = runs + 1
    BY <2>1 DEF Start
  <2>4. runs + 1 \in Run
    BY <2>1, BoundsAssumption DEF Start, JournalInv, UTypeOK, JournalTypeOK, Run
  <2>5. unit' \in Process
    BY <2>3, <2>4 DEF Process
  <2>. QED
    BY <2>1, <2>3, <2>5, ProcessAssumption DEF Start
<1>2. CASE \/ Announce("starting", "running")
           \/ Announce("running", "stopping")
           \/ Announce("exited", "stopped")
  BY <1>2 DEF Announce, JournalInv
<1>3. CASE Exit
  BY <1>3 DEF Exit
<1>4. CASE UNCHANGED unitVars
  BY <1>4 DEF unitVars, JournalInv
<1>5. CASE UnitStep
  BY <1>1, <1>2, <1>3, <1>5 DEF UnitStep
<1>6. CASE Raise
  BY <1>4, <1>6 DEF Raise, LoseBatch
<1>. QED
  BY <1>4, <1>5, <1>6
     DEF Next, Log, LogLine, LogEntry, LogLineWithoutDelay, Age, AgeUnless,
         Construct, NewJournalMonitor, ReadJournal, PollJournal, Consume, NextEntry,
         EndPoll, RaiseInParse, Crash, vars, journalVars

\* Whatever is in the journal or in a batch was written by a run that has started.
LEMMA WrittenStep ==
  ASSUME JournalInv, [Next]_vars
  PROVE  log' \in Seq(Written(runs')) /\ batch' \in Seq(Written(runs'))
<1>1. PICK S : S = Written(runs)
  OBVIOUS
<1>2. JournalTypeOK(S) /\ Notice \in S /\ S \subseteq Entry
  BY <1>1, EntryKinds DEF JournalInv, UTypeOK, JournalTypeOK, Written, Notice
<1>3. runs \in Nat
  BY BoundsAssumption DEF JournalInv, UTypeOK, JournalTypeOK
<1>4. ASSUME log' \in Seq(S), batch' \in Seq(S), runs' = runs
      PROVE  log' \in Seq(Written(runs')) /\ batch' \in Seq(Written(runs'))
  BY <1>1, <1>4
<1>5. CASE \E c \in Config : Start(c)
  <2>1. runs' = runs + 1 /\ log' = log /\ batch' = batch
    BY <1>5 DEF Start, readVars
  <2>2. S \subseteq Written(runs')
    BY <1>1, <1>3, <2>1 DEF Written
  <2>3. Seq(S) \subseteq Seq(Written(runs'))
    BY <2>2, SeqMonotonic
  <2>. QED
    BY <1>2, <2>1, <2>3 DEF JournalTypeOK
<1>6. CASE \/ Announce("starting", "running")
           \/ Announce("running", "stopping")
           \/ Announce("exited", "stopped")
           \/ Exit
  <2>1. JournalTypeOK(S)'
    BY <1>2, <1>6, UnitStepType DEF UnitStep
  <2>2. runs' = runs
    BY <1>6 DEF Announce, Exit
  <2>. QED
    BY <1>4, <2>1, <2>2 DEF JournalTypeOK
<1>7. CASE Log
  <2>1. PICK n \in Name, r \in Reading : LogLine(n, r)
    BY <1>7 DEF Log
  <2> DEFINE e == [type |-> "offset", run |-> unit.run, name |-> n, reading |-> r]
  <2>2. e \in S
    BY <2>1, <1>1, <1>3
       DEF LogLine, JournalInv, UTypeOK, JournalTypeOK, Process, Entry, Line, Written, Run
  <2>3. LogEntry(e)
    BY <2>1 DEF LogLine
  <2> HIDE DEF e
  <2>4. JournalTypeOK(S)'
    BY <1>2, <2>2, <2>3, LogEntryType
  <2>. QED
    BY <1>4, <2>3, <2>4 DEF JournalTypeOK, LogEntry, unitVars
<1>8. CASE LogLineWithoutDelay
  <2>1. [type |-> "without_delay"] \in S
    BY <1>1 DEF Entry, LineWithoutDelay, Written
  <2>2. JournalTypeOK(S)'
    BY <1>2, <1>8, <2>1, LogEntryType DEF LogLineWithoutDelay
  <2>. QED
    BY <1>4, <1>8, <2>2 DEF JournalTypeOK, LogLineWithoutDelay, LogEntry, unitVars
<1>9. CASE Age
  <2>1. JournalTypeOK(S)'
    BY <1>2, <1>9, AgeType DEF Age
  <2>. QED
    BY <1>4, <1>9, <2>1 DEF JournalTypeOK, Age, AgeUnless, unitVars
<1>10. CASE Construct
  <2>1. JournalTypeOK(S)'
    BY <1>2, <1>10, NewMonitorType DEF Construct
  <2>. QED
    BY <1>4, <1>10, <2>1 DEF JournalTypeOK, Construct, NewJournalMonitor, unitVars
<1>11. CASE ReadJournal
  <2>1. JournalTypeOK(S)'
    BY <1>2, <1>11, PollType DEF ReadJournal
  <2>. QED
    BY <1>4, <1>11, <2>1 DEF JournalTypeOK, ReadJournal, PollJournal, unitVars
<1>12. CASE Consume \/ RaiseInParse \/ Crash
  <2>1. NextEntry \/ LoseBatch
    BY <1>12 DEF Consume, RaiseInParse, Crash, Raise
  <2>2. JournalTypeOK(S)'
    BY <1>2, <2>1, NextEntryType
  <2>. QED
    BY <1>4, <2>1, <2>2 DEF JournalTypeOK, NextEntry, LoseBatch, unitVars
<1>13. CASE EndPoll \/ UNCHANGED vars
  BY <1>2, <1>4, <1>13
     DEF EndPoll, vars, journalVars, unitVars, readVars, JournalTypeOK
<1>. QED
  BY <1>5, <1>6, <1>7, <1>8, <1>9, <1>10, <1>11, <1>12, <1>13 DEF Next, UnitStep

\* A monitor that is down has no state, and one that is idle has no batch.
LEMMA WorkerInvStep ==
  ASSUME JournalInv, [Next]_vars
  PROVE  /\ phase' = "down" => state' = Uninitialized
         /\ phase' # "consuming" => batch' = <<>>
<1>1. CASE UnitStep /\ UNCHANGED taskVars
  BY <1>1 DEF UnitStep, Start, Announce, Exit, readVars, taskVars, JournalInv
<1>2. CASE Log \/ LogLineWithoutDelay \/ Age
  BY <1>2 DEF Log, LogLine, LogLineWithoutDelay, LogEntry, Age, AgeUnless, readVars,
              taskVars, JournalInv
<1>3. CASE Construct \/ ReadJournal \/ EndPoll
  BY <1>3 DEF Construct, NewJournalMonitor, ReadJournal, EndPoll, journalVars, readVars
<1>4. CASE Consume
  BY <1>4 DEF Consume
<1>5. CASE RaiseInParse \/ Crash
  BY <1>5 DEF RaiseInParse, Crash, Raise, LoseBatch
<1>6. CASE UNCHANGED vars
  BY <1>6 DEF vars, journalVars, readVars, taskVars, JournalInv
<1>. QED
  BY <1>1, <1>2, <1>3, <1>4, <1>5, <1>6 DEF Next

\* Between the lines of two processes there is always a message.
LEMMA NoticedStep ==
  ASSUME JournalInv, [Next]_vars, stage' \in {"running", "stopping"}
  PROVE  /\ Noticed(log', unit'.run)
         /\ Noticed(batch', unit'.run) \/ Announces(Unread)'
<1>1. JournalTypeOK(Entry) /\ Notice \in Entry
  BY EntryKinds DEF JournalInv, UTypeOK
<1>2. log \in Seq(Entry) /\ batch \in Seq(Entry) /\ read \in 0..Len(log)
  BY <1>1 DEF JournalTypeOK
<1>3. CASE \E c \in Config : Start(c)
  BY <1>3 DEF Start
<1>4. CASE Exit
  BY <1>4 DEF Exit
<1>5. ASSUME NEW f, NEW t, Announce(f, t)
      PROVE  Noticed(log', unit'.run) /\ Announces(Unread)'
  <2>1. Announces(Unread)'
    BY <1>1, <1>5, AnnounceUnread
  <2>2. log' = Append(log, Notice)
    BY <1>5 DEF Announce
  <2>. QED
    BY <1>1, <1>2, <2>1, <2>2, NoticeNoticed
<1>6. ASSUME UNCHANGED unitVars
      PROVE  /\ stage \in {"running", "stopping"} /\ unit' = unit
             /\ Noticed(log, unit.run)
             /\ Noticed(batch, unit.run) \/ Announces(Unread)
  BY <1>6 DEF unitVars, JournalInv
<1>7. ASSUME NEW e \in Entry, e # Notice, LogEntry(e),
             ~(e.type = "offset" /\ e.run # unit.run)
      PROVE  /\ Noticed(log', unit'.run)
             /\ Noticed(batch', unit'.run) \/ Announces(Unread)'
  <2>1. UNCHANGED unitVars /\ log' = Append(log, e) /\ batch' = batch
    BY <1>7 DEF LogEntry, readVars
  <2>2. Announces(Unread)' <=> Announces(Unread)
    BY <1>1, <1>7, LogEntryUnread
  <2>3. Noticed(log', unit.run)
    BY <1>2, <1>6, <1>7, <2>1, AppendNoticed
  <2>. QED
    BY <1>6, <2>1, <2>2, <2>3
<1>8. CASE Log
  <2>1. PICK n \in Name, r \in Reading : LogLine(n, r)
    BY <1>8 DEF Log
  <2> DEFINE e == [type |-> "offset", run |-> unit.run, name |-> n, reading |-> r]
  <2>2. e \in Line /\ e.run = unit.run
    BY <2>1, <1>1 DEF LogLine, JournalTypeOK, Process, Line
  <2>3. LogEntry(e)
    BY <2>1 DEF LogLine
  <2> HIDE DEF e
  <2>. QED
    BY <1>7, <2>2, <2>3, EntryKinds
<1>9. CASE LogLineWithoutDelay
  <2> DEFINE e == [type |-> "without_delay"]
  <2>1. e \in LineWithoutDelay
    BY DEF LineWithoutDelay
  <2>2. LogEntry(e)
    BY <1>9 DEF LogLineWithoutDelay
  <2> HIDE DEF e
  <2>. QED
    BY <1>7, <2>1, <2>2, EntryKinds
<1>10. CASE Age
  <2>1. /\ UNCHANGED unitVars /\ log # <<>> /\ log' = Tail(log) /\ batch' = batch
        /\ phase # "down" => read > 0
    BY <1>10 DEF Age, AgeUnless
  <2>2. Noticed(log', unit.run)
    BY <1>2, <1>6, <2>1, TailNoticed
  <2>3. CASE read > 0
    BY <1>1, <1>6, <1>10, <2>1, <2>2, <2>3, AgeUnread DEF Age
  <2>4. CASE phase = "down"
    BY <1>6, <2>1, <2>2, <2>4, EmptyNoticed DEF JournalInv
  <2>. QED
    BY <2>1, <2>3, <2>4
<1>11. CASE Construct
  BY <1>6, <1>11, EmptyNoticed DEF Construct, NewJournalMonitor
<1>12. CASE ReadJournal
  <2>1. UNCHANGED unitVars /\ log' = log /\ PollJournal
    BY <1>12 DEF ReadJournal, PollJournal
  <2>2. Noticed(SubSeq(log, read + 1, Len(log)), unit.run)
    BY <1>2, <1>6, <2>1, SuffixNoticed
  <2>. QED
    BY <1>6, <2>1, <2>2 DEF PollJournal
<1>13. CASE Consume
  <2>1. UNCHANGED unitVars /\ log' = log /\ batch # <<>> /\ batch' = Tail(batch)
    BY <1>13 DEF Consume, NextEntry
  <2>2. Unread' = Unread
    BY <1>1, <1>13, NextEntryUnread DEF Consume
  <2>3. Noticed(batch, unit.run) => Noticed(batch', unit.run)
    BY <1>2, <2>1, TailNoticed
  <2>. QED
    BY <1>6, <2>1, <2>2, <2>3
<1>14. CASE RaiseInParse \/ Crash
  BY <1>6, <1>14, EmptyNoticed DEF RaiseInParse, Crash, Raise, LoseBatch
<1>15. CASE EndPoll \/ UNCHANGED vars
  BY <1>6, <1>15 DEF EndPoll, vars, journalVars, unitVars, readVars, Unread
<1>. QED
  BY <1>3, <1>4, <1>5, <1>8, <1>9, <1>10, <1>11, <1>12, <1>13, <1>14, <1>15
     DEF Next, UnitStep

LEMMA JournalInvStep == JournalInv /\ [Next]_vars => JournalInv'
<1>. SUFFICES ASSUME JournalInv, [Next]_vars PROVE JournalInv'
  OBVIOUS
<1>1. UTypeOK'
  BY UTypeStep DEF JournalInv
<1>. QED
  BY <1>1, UnitInvStep, WrittenStep, WorkerInvStep, NoticedStep DEF JournalInv

LEMMA JournalInvHolds == Spec => []JournalInv
BY JournalInvInit, JournalInvStep, PTL DEF Spec

------------------------------------------------------------------------------
(* What parsing an entry leads to. *)

\* A line that is parsed while no message is to come is one of the process that
\* runs.
LEMMA HeadIsCurrent ==
  ASSUME JournalInv, Consume, stage \in {"running", "stopping"},
         ~ Announces(batch)', ~ Announces(Unread), Head(batch).type = "offset"
  PROVE  Head(batch).run = unit.run
<1>1. batch \in Seq(Entry) /\ batch # <<>> /\ batch' = Tail(batch)
  BY DEF JournalInv, UTypeOK, JournalTypeOK, Consume, NextEntry
<1>2. Noticed(batch, unit.run)
  BY DEF JournalInv
<1>3. ~ Announces(Tail(batch))
  BY <1>1
<1>. QED
  BY <1>1, <1>2, <1>3, TailNoticed

\* The state that parsing a line leads to.
LEMMA AfterLine ==
  ASSUME UTypeOK, NEW e \in Line
  PROVE  /\ state # Uninitialized =>
              /\ After(state, e) \in Running
              /\ After(state, e).config = state.config
              /\ \A d \in Clock : \/ After(state, e).dst[d] = state.dst[d]
                                  \/ After(state, e).dst[d] =
                                       [reading |-> e.reading, run |-> e.run]
         /\ state = Uninitialized /\ unit = NoProcess =>
              After(state, e) = Uninitialized
         /\ state = Uninitialized /\ unit # NoProcess =>
              /\ After(state, e) \in Running
              /\ After(state, e).config = unit.config
              /\ \A d \in Clock : \/ After(state, e).dst[d] = Unmeasured
                                  \/ After(state, e).dst[d] =
                                       [reading |-> e.reading, run |-> e.run]
<1>1. unit \in Process \cup {NoProcess} /\ state \in Running \cup {Uninitialized}
  BY DEF UTypeOK, JournalTypeOK
<1>2. e.type # "notice"
  BY EntryKinds
<1>3. CASE state # Uninitialized
  <2>1. After(state, e) = Parsed(state, e)
    BY <1>2, <1>3 DEF After
  <2>. QED
    BY <1>1, <1>3, <2>1, ParsedType
<1>4. CASE state = Uninitialized /\ unit = NoProcess
  BY <1>2, <1>4 DEF After, Factory
<1>5. CASE state = Uninitialized /\ unit # NoProcess
  <2>1. /\ Factory \in Running /\ Factory # Uninitialized
        /\ Factory.config = unit.config
        /\ \A d \in Clock : Factory.dst[d] = Unmeasured
    BY <1>1, <1>5, FactoryType
  <2>2. After(state, e) = Parsed(Factory, e)
    BY <1>2, <1>5, <2>1 DEF After
  <2>. QED
    BY <1>5, <2>1, <2>2, ParsedType
<1>. QED
  BY <1>3, <1>4, <1>5

\* One without a delay is only got over if there is no process.
LEMMA AfterLineWithoutDelay ==
  ASSUME NEW e \in LineWithoutDelay, ~ Raises(e)
  PROVE  After(state, e) = Uninitialized /\ state = Uninitialized
BY EntryKinds DEF After, Raises

------------------------------------------------------------------------------
(* The monitor implements UnitFollower. *)

LEMMA PendingBoolean == ChangePending \in BOOLEAN /\ ChangePending' \in BOOLEAN
BY DEF ChangePending

LEMMA SameView ==
  ASSUME state' = state
  PROVE  View' = View /\ HeldRuns' = HeldRuns
BY DEF View, HeldRuns, Measures

\* Steps that only matter below the abstraction.
LEMMA FollowerStutters ==
  ASSUME state' = state, UNCHANGED unitVars, ChangePending' <=> ChangePending
  PROVE  UNCHANGED Follower!vars
<1>1. ChangePending' = ChangePending
  BY PendingBoolean
<1>. QED
  BY <1>1, SameView DEF Follower!vars, unitVars

\* Without a state there is neither a view nor an offset.
LEMMA FollowerStartsOver ==
  ASSUME state' = Uninitialized, UNCHANGED unitVars
  PROVE  Follower!StartOver
BY PendingBoolean DEF Follower!StartOver, View, HeldRuns, unitVars

\* Something to notice has come up.
LEMMA FollowerAnnounces ==
  ASSUME state' = state, UNCHANGED <<unit, runs>>, ChangePending'
  PROVE  Follower!Announce
<1>1. ChangePending' = TRUE
  BY PendingBoolean
<1>. QED
  BY <1>1, SameView DEF Follower!Announce

\* The runs of the state that parsing a line leads to.
LEMMA HeldAfter ==
  ASSUME NEW r, state' # Uninitialized,
         \A d \in Clock : Measures(state, d)' =>
           state'.dst[d].run = r \/ (Measures(state, d) /\ state'.dst[d] = state.dst[d])
  PROVE  HeldRuns' \subseteq HeldRuns \cup {r}
BY DEF HeldRuns, Measures

\* A line is of the running process, or the start of that is yet to be noticed.
LEMMA HeadIsSource ==
  ASSUME JournalInv, Consume, Head(batch) \in Line
  PROVE  /\ ChangePending' <=> ChangePending
         /\ Head(batch).run \in Follower!Sources(ChangePending)
<1> DEFINE e == Head(batch)
<1>1. JournalTypeOK(Entry) /\ batch \in Seq(Written(runs)) /\ batch # <<>>
  BY DEF JournalInv, UTypeOK, Consume
<1>2. e \in Written(runs) /\ e.type = "offset"
  BY <1>1, TailEntries, EntryKinds
<1>3. UNCHANGED unitVars /\ Unread' = Unread
      /\ (Announces(batch) <=> e = Notice \/ Announces(batch'))
  BY <1>1, NextEntryUnread DEF Consume, NextEntry
<1>4. e # Notice
  BY EntryKinds
<1>5. ChangePending' <=> ChangePending
  BY <1>3, <1>4, PendingIs DEF ChangePending, Unread, unitVars
<1>6. e.run \in 1..runs
  BY <1>2 DEF Written
<1>7. ASSUME ~ ChangePending, unit # NoProcess
      PROVE  e.run = unit.run
  <2>1. /\ stage \in {"running", "stopping"}
        /\ ~ Announces(batch)' /\ ~ Announces(Unread)
    BY <1>3, <1>4, <1>7, PendingIs DEF JournalInv
  <2>. QED
    BY <1>2, <2>1, HeadIsCurrent
<1>. QED
  BY <1>5, <1>6, <1>7 DEF Follower!Sources

LEMMA ConsumeFollows ==
  ASSUME JournalInv, Consume
  PROVE  [Follower!Next]_(Follower!vars)
<1> DEFINE e == Head(batch)
           m == [reading |-> e.reading, run |-> e.run]
<1>1. /\ JournalTypeOK(Entry) /\ UTypeOK
      /\ unit \in Process \cup {NoProcess} /\ state \in Running \cup {Uninitialized}
  BY DEF JournalInv, UTypeOK, JournalTypeOK
<1>2. state' = After(state, e) /\ ~ Raises(e) /\ UNCHANGED unitVars
  BY DEF Consume, NextEntry
<1>3. unit' = unit /\ runs' = runs
  BY <1>2 DEF unitVars
<1>4. e = Notice \/ e \in Line \/ e \in LineWithoutDelay
  BY <1>1, NextEntryUnread, EntryKinds DEF Consume
<1>5. m.run = e.run
  OBVIOUS
<1>6. CASE e = Notice \/ e \in LineWithoutDelay
  <2>1. state' = Uninitialized
    BY <1>2, <1>6, EntryKinds, AfterLineWithoutDelay DEF After
  <2>. QED
    BY <1>2, <2>1, FollowerStartsOver DEF Follower!Next
<1>7. CASE e \in Line
  <2>1. /\ ChangePending' = ChangePending
        /\ e.run \in Follower!Sources(ChangePending)
    BY <1>7, HeadIsSource, PendingBoolean
  <2>2. CASE state = Uninitialized /\ unit = NoProcess
    BY <1>1, <1>2, <1>7, <2>1, <2>2, AfterLine, FollowerStutters
  <2>3. CASE state = Uninitialized /\ unit # NoProcess
    <3>1. /\ state' \in Running /\ state'.config = unit.config
          /\ \A d \in Clock : state'.dst[d] = Unmeasured \/ state'.dst[d] = m
      BY <1>1, <1>2, <1>7, <2>3, AfterLine
    <3>2. state' # Uninitialized
      BY <3>1, UnsetAssumption
    <3> HIDE DEF m
    <3>3. HeldRuns' \subseteq {e.run}
      BY <1>5, <3>1 DEF HeldRuns, Measures
    <3>4. View = Uninitialized /\ View' = unit.config
      BY <2>3, <3>1, <3>2 DEF View
    <3>5. HeldRuns' \subseteq Follower!Sources(ChangePending')
      BY <2>1, <3>3
    <3>. QED
      BY <1>3, <2>3, <3>4, <3>5, PendingBoolean DEF Follower!Next, Follower!Observe
  <2>4. CASE state # Uninitialized
    <3>1. /\ state' \in Running /\ state'.config = state.config
          /\ \A d \in Clock : state'.dst[d] = state.dst[d] \/ state'.dst[d] = m
      BY <1>1, <1>2, <1>7, <2>4, AfterLine
    <3>2. state' # Uninitialized /\ state \in Running
      BY <1>1, <2>4, <3>1, UnsetAssumption
    <3> HIDE DEF m, e
    <3>3. HeldRuns' \subseteq HeldRuns \cup {e.run}
      <4>1. ASSUME NEW d \in Clock, Measures(state, d)'
            PROVE  \/ state'.dst[d].run = e.run
                   \/ Measures(state, d) /\ state'.dst[d] = state.dst[d]
        <5>1. CASE state'.dst[d] = m
          BY <1>5, <5>1
        <5>2. CASE state'.dst[d] = state.dst[d]
          BY <2>4, <4>1, <5>2 DEF Measures
        <5>. QED
          BY <3>1, <5>1, <5>2
      <4>. QED
        BY <3>2, <4>1, HeldAfter
    <3>4. View # Uninitialized /\ View' = View
      BY <2>4, <3>1, <3>2, UnsetAssumption DEF View, Running
    <3>5. HeldRuns' \subseteq HeldRuns \cup Follower!Sources(ChangePending)
      BY <2>1, <3>3
    <3>. QED
      BY <1>3, <2>1, <3>4, <3>5 DEF Follower!Next, Follower!Learn
  <2>. QED
    BY <2>2, <2>3, <2>4
<1>. QED
  BY <1>4, <1>6, <1>7

LEMMA FollowerStep ==
  ASSUME JournalInv, [Next]_vars
  PROVE  [Follower!Next]_(Follower!vars)
<1>1. JournalTypeOK(Entry) /\ Notice \in Entry
  BY EntryKinds DEF JournalInv, UTypeOK
<1>2. unit \in Process \cup {NoProcess} /\ state \in Running \cup {Uninitialized}
  BY <1>1 DEF JournalInv, UTypeOK, JournalTypeOK
<1>3. CASE (\E c \in Config : Start(c)) /\ UNCHANGED taskVars
  <2>1. PICK c \in Config : Start(c)
    BY <1>3
  <2>2. ChangePending' = TRUE /\ state' = state
    BY <1>3, <2>1, PendingBoolean DEF Start, ChangePending, taskVars
  <2>3. Follower!Start(c)
    BY <2>1, <2>2, SameView DEF Start, Follower!Start
  <2>. QED
    BY <2>3 DEF Follower!Next
<1>4. CASE Exit /\ UNCHANGED taskVars
  <2>1. ChangePending' <=> ChangePending
    BY <1>4 DEF Exit, ChangePending, readVars
  <2>2. Follower!Exit
    BY <1>4, <2>1, SameView, PendingBoolean DEF Exit, taskVars, Follower!Exit
  <2>. QED
    BY <2>2 DEF Follower!Next
<1>5. ASSUME NEW f, NEW t, Announce(f, t), UNCHANGED taskVars
      PROVE  [Follower!Next]_(Follower!vars)
  <2>1. ChangePending'
    BY <1>1, <1>5, AnnounceUnread DEF ChangePending, Unread
  <2>2. Follower!Announce
    BY <1>5, <2>1, FollowerAnnounces DEF Announce, taskVars
  <2>. QED
    BY <2>2 DEF Follower!Next
<1>6. ASSUME NEW e \in Entry, e # Notice, LogEntry(e), UNCHANGED taskVars
      PROVE  [Follower!Next]_(Follower!vars)
  <2>1. UNCHANGED unitVars /\ batch' = batch
    BY <1>6 DEF LogEntry, readVars
  <2>2. ChangePending' <=> ChangePending
    BY <1>1, <1>6, <2>1, LogEntryUnread, PendingIs DEF ChangePending, Unread, unitVars
  <2>. QED
    BY <1>6, <2>1, <2>2, FollowerStutters DEF taskVars
<1>7. CASE Log
  <2>1. PICK n \in Name, r \in Reading : LogLine(n, r)
    BY <1>7 DEF Log
  <2> DEFINE e == [type |-> "offset", run |-> unit.run, name |-> n, reading |-> r]
  <2>2. e \in Line
    BY <2>1, <1>2 DEF LogLine, Process, Line
  <2>3. LogEntry(e) /\ UNCHANGED taskVars
    BY <2>1 DEF LogLine
  <2> HIDE DEF e
  <2>. QED
    BY <1>6, <2>2, <2>3, EntryKinds
<1>8. CASE LogLineWithoutDelay
  <2> DEFINE e == [type |-> "without_delay"]
  <2>1. e \in LineWithoutDelay
    BY DEF LineWithoutDelay
  <2>2. LogEntry(e) /\ UNCHANGED taskVars
    BY <1>8 DEF LogLineWithoutDelay
  <2> HIDE DEF e
  <2>. QED
    BY <1>6, <2>1, <2>2, EntryKinds
<1>9. CASE Age
  <2>1. UNCHANGED unitVars /\ batch' = batch /\ state' = state
        /\ (phase # "down" => read > 0)
    BY <1>9 DEF Age, AgeUnless, taskVars
  <2>2. CASE read > 0
    <3>1. ChangePending' <=> ChangePending
      BY <1>1, <1>9, <2>1, <2>2, AgeUnread, PendingIs
         DEF Age, ChangePending, Unread, unitVars
    <3>. QED
      BY <2>1, <3>1, FollowerStutters
  <2>3. CASE phase = "down"
    BY <2>1, <2>3, FollowerStartsOver DEF JournalInv, Follower!Next
  <2>. QED
    BY <2>1, <2>2, <2>3
<1>10. CASE Construct
  <2>1. state' = Factory /\ UNCHANGED unitVars /\ state = Uninitialized
    BY <1>10 DEF Construct, NewJournalMonitor, JournalInv
  <2>2. CASE unit = NoProcess
    BY <2>1, <2>2, FollowerStartsOver DEF Factory, Follower!Next
  <2>3. CASE unit # NoProcess
    <3>1. /\ state' # Uninitialized /\ state'.config = unit.config
          /\ \A d \in Clock : state'.dst[d] = Unmeasured
      BY <1>2, <2>1, <2>3, FactoryType
    <3>2. View = Uninitialized /\ View' = unit.config /\ HeldRuns' = {}
      BY <2>1, <3>1 DEF View, HeldRuns, Measures
    <3>. QED
      BY <2>1, <2>3, <3>2, PendingBoolean DEF unitVars, Follower!Next, Follower!Observe
  <2>. QED
    BY <2>2, <2>3
<1>11. CASE ReadJournal
  <2>1. UNCHANGED unitVars /\ state' = state /\ batch = <<>> /\ PollJournal
    BY <1>11 DEF ReadJournal, PollJournal, JournalInv
  <2>2. ChangePending => ChangePending'
    <3>1. ~ Announces(batch)
      BY <2>1 DEF Announces
    <3>. QED
      BY <1>1, <2>1, <3>1, PollUnread, PendingIs DEF ChangePending, unitVars
  <2>3. CASE ChangePending' <=> ChangePending
    BY <2>1, <2>3, FollowerStutters
  <2>4. CASE ChangePending'
    BY <2>1, <2>4, FollowerAnnounces DEF unitVars, Follower!Next
  <2>. QED
    BY <2>2, <2>3, <2>4
<1>12. CASE Consume
  BY <1>12, ConsumeFollows
<1>13. CASE RaiseInParse \/ Crash
  <2>1. state' = Uninitialized /\ UNCHANGED unitVars
    BY <1>13 DEF RaiseInParse, Crash, Raise, LoseBatch
  <2>. QED
    BY <2>1, FollowerStartsOver DEF Follower!Next
<1>14. CASE EndPoll \/ UNCHANGED vars
  <2>1. UNCHANGED <<journalVars, state>>
    BY <1>14 DEF EndPoll, vars, taskVars
  <2>2. UNCHANGED unitVars /\ (ChangePending' <=> ChangePending)
    BY <2>1 DEF journalVars, unitVars, readVars, ChangePending
  <2>. QED
    BY <2>1, <2>2, FollowerStutters
<1>. QED
  BY <1>3, <1>4, <1>5, <1>7, <1>8, <1>9, <1>10, <1>11, <1>12, <1>13, <1>14
     DEF Next, UnitStep, vars, taskVars

LEMMA FollowerInit == Init => Follower!Init
BY DEF Init, JournalInit, Follower!Init, View, HeldRuns, ChangePending, Announces

\* The monitor implements UnitFollower: whatever its journal, polls and restarts
\* do, after it has noticed that its unit was started it takes nothing of an
\* earlier process any more.
THEOREM MonitorImplementsFollower == Spec => ImplementsFollower
BY FollowerInit, FollowerStep, JournalInvHolds, PTL
   DEF Spec, ImplementsFollower, Follower!Spec

LEMMA FollowsIsFollowsUnit ==
  ASSUME UTypeOK, Follower!Follows
  PROVE  FollowsUnit
<1>. SUFFICES ASSUME state # Uninitialized, unit # NoProcess, ~ ChangePending
              PROVE  /\ state.config = unit.config
                     /\ \A d \in Clock : Measures(state, d) => state.dst[d].run = unit.run
  BY DEF FollowsUnit
<1>1. View = state.config /\ View # Uninitialized
  BY UnsetAssumption DEF View, UTypeOK, Running
<1>2. View = unit.config /\ HeldRuns \subseteq {unit.run}
  BY <1>1 DEF Follower!Follows
<1>. QED
  BY <1>1, <1>2 DEF HeldRuns

\* Unless a start or stop of the unit is still to be come to, the monitor's
\* configuration and offsets are those of the process that runs, for any number
\* of restarts of the unit and of the worker, whenever they happen.
THEOREM MonitorFollowsUnit == Spec => []FollowsUnit
<1>1. JournalInv => UTypeOK
  BY DEF JournalInv
<1>. QED
  BY <1>1, MonitorImplementsFollower, Follower!FollowerFollows, JournalInvHolds,
     FollowsIsFollowsUnit, PTL
     DEF ImplementsFollower
------------------------------------------------------------------------------
(* What the receivers were told. *)

\* The receivers were told all that a monitor in state s knows.
Told(s) == \A d \in Clock : Measures(s, d) => told[d] = UpdateFor(s, d)

\* Between polls that is its state.  During one it is the copy of the state that
\* consume made, as nothing is sent before its end.
ToldInv ==
  /\ UTypeOK
  /\ phase = "idle" => Told(state)
  /\ phase = "consuming" => Told(old)

\* The comparison at the end of consume sees everything that is sent: states in
\* which it finds no difference lead to the same updates.
LEMMA SameUpdates ==
  ASSUME NEW s \in Running \cup {Uninitialized},
         NEW t \in Running \cup {Uninitialized},
         ~ Differ(s, t), NEW d \in Clock, Measures(t, d)
  PROVE  Measures(s, d) /\ UpdateFor(s, d) = UpdateFor(t, d)
<1> DEFINE Readings(v) == {<<c, v.dst[c].reading>> :
                             c \in {b \in Clock : v.dst[b] # Unmeasured}}
<1>1. t # Uninitialized /\ t \in Running /\ t.dst[d] # Unmeasured
  BY DEF Measures
<1>2. Visible(t) = [config |-> t.config, dst |-> Readings(t)]
  BY <1>1 DEF Visible
<1>3. s # Uninitialized
  <2>1. t.config \in Config
    BY <1>1 DEF Running
  <2>2. Readings(t) \in SUBSET (Clock \X Reading)
    <3>1. \A c \in Clock : t.dst[c] # Unmeasured => t.dst[c].reading \in Reading
      BY <1>1 DEF Running, Measured
    <3>. QED
      BY <3>1
  <2>3. Visible(t) # Uninitialized
    BY <1>2, <2>1, <2>2, UnsetAssumption
  <2>. QED
    BY <2>3 DEF Differ, Visible
<1>4. Visible(s) = [config |-> s.config, dst |-> Readings(s)]
  BY <1>3 DEF Visible
<1>5. s.config = t.config /\ Readings(s) = Readings(t)
  <2>1. Visible(s) = Visible(t)
    BY DEF Differ
  <2> HIDE DEF Readings
  <2>. QED
    BY <1>2, <1>4, <2>1
<1>6. <<d, t.dst[d].reading>> \in Readings(s)
  BY <1>1, <1>5
<1>7. s.dst[d] # Unmeasured /\ s.dst[d].reading = t.dst[d].reading
  BY <1>6
<1>. QED
  BY <1>3, <1>5, <1>7 DEF Measures, UpdateFor

LEMMA ToldInvStep == ToldInv /\ [Next]_vars => ToldInv'
<1>. SUFFICES ASSUME ToldInv, [Next]_vars PROVE ToldInv'
  OBVIOUS
<1>0. UTypeOK'
  BY UTypeStep DEF ToldInv
<1>1. CASE UNCHANGED taskVars
  <2>1. /\ phase' = phase
        /\ Told(state) => Told(state)'
        /\ Told(old) => Told(old)'
    BY <1>1 DEF taskVars, Told, Measures, UpdateFor
  <2>. QED
    BY <1>0, <2>1 DEF ToldInv
<1>2. CASE Construct
  <2>1. \A d \in Clock : ~ Measures(state, d)'
    BY <1>2 DEF Construct, Factory, Measures
  <2>. QED
    BY <1>0, <1>2, <2>1 DEF Construct, ToldInv, Told
<1>3. CASE ReadJournal
  BY <1>0, <1>3 DEF ReadJournal, ToldInv, Told, Measures, UpdateFor
<1>4. CASE Consume
  BY <1>0, <1>4 DEF Consume, ToldInv, Told, Measures, UpdateFor
<1>5. CASE EndPoll
  <2>1. Told(old) /\ UTypeOK
    BY <1>5 DEF EndPoll, ToldInv
  <2>2. /\ phase' = "idle"
        /\ state' = state
        /\ \A d \in Clock :
             told'[d] = IF Sends(d) THEN UpdateFor(state, d) ELSE told[d]
    BY <1>5 DEF EndPoll
  <2>3. ASSUME NEW d \in Clock, Measures(state, d)
        PROVE  told'[d] = UpdateFor(state, d)
    <3>1. CASE Differ(old, state)
      BY <2>2, <2>3, <3>1 DEF Sends
    <3>2. CASE ~ Differ(old, state)
      <4>1. Measures(old, d) /\ UpdateFor(old, d) = UpdateFor(state, d)
        BY <2>1, <2>3, <3>2, SameUpdates DEF UTypeOK
      <4>. QED
        BY <2>1, <2>2, <3>2, <4>1 DEF Sends, Told
    <3>. QED
      BY <3>1, <3>2
  <2>. QED
    BY <1>0, <2>2, <2>3 DEF ToldInv, Told, Measures, UpdateFor
<1>6. CASE RaiseInParse \/ Crash
  BY <1>0, <1>6 DEF RaiseInParse, Crash, Raise, ToldInv
<1>. QED
  BY <1>1, <1>2, <1>3, <1>4, <1>5, <1>6
     DEF Next, Log, LogLine, LogLineWithoutDelay, Age, vars, taskVars

\* Between two polls the receivers have been told what the monitor knows, for
\* any clocks, configurations and lines, although only changes are sent.
THEOREM ToldIsAlwaysCurrent == Spec => []ToldIsCurrent
<1>1. Init => ToldInv
  BY UTypeInit DEF Init, ToldInv
<1>2. ToldInv => ToldIsCurrent
  BY DEF ToldInv, Told, ToldIsCurrent
<1>. QED
  BY <1>1, <1>2, ToldInvStep, PTL DEF Spec
==============================================================================
