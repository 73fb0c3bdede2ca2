------------------------- MODULE UnitJournalProofs -------------------------
(***************************************************************************)
(* Lemmas about UnitJournal for any entries and bounds: what its actions   *)
(* do to the types, and to the start and stop messages that the monitor    *)
(* has yet to come to.                                                     *)
(***************************************************************************)
EXTENDS UnitJournal, SequenceTheorems, TLAPS

\* The entries that the next poll finds after the cursor.
Unread == SubSeq(log, read + 1, Len(log))

------------------------------------------------------------------------------
(* Sequences of entries. *)

\* The entries after a position of the journal.
LEMMA SuffixEntries ==
  ASSUME NEW S, NEW s \in Seq(S), NEW n \in 0..Len(s)
  PROVE  LET t == SubSeq(s, n + 1, Len(s)) IN
         /\ t \in Seq(S)
         /\ Len(t) = Len(s) - n
         /\ \A i \in 1..Len(t) : t[i] = s[i + n]
<1>1. \A i \in (n + 1)..Len(s) : s[i] \in S
  BY ElementOfSeq
<1>2. Len(s) \in Nat
  BY LenProperties
<1>. QED
  BY <1>1, <1>2, SubSeqProperties

LEMMA SuffixAnnounces ==
  ASSUME NEW S, NEW s \in Seq(S), NEW n \in 0..Len(s)
  PROVE  Announces(SubSeq(s, n + 1, Len(s)))
           <=> \E i \in DOMAIN s : i > n /\ s[i] = Notice
<1> DEFINE t == SubSeq(s, n + 1, Len(s))
<1>1. t \in Seq(S) /\ Len(t) = Len(s) - n /\ \A i \in 1..Len(t) : t[i] = s[i + n]
  BY SuffixEntries
<1>2. DOMAIN t = 1..Len(t) /\ DOMAIN s = 1..Len(s) /\ Len(s) \in Nat
  BY <1>1, LenProperties
<1> HIDE DEF t
<1>3. ASSUME NEW i \in DOMAIN t, t[i] = Notice
      PROVE  \E j \in DOMAIN s : j > n /\ s[j] = Notice
  <2>1. i + n \in DOMAIN s /\ i + n > n /\ s[i + n] = Notice
    BY <1>1, <1>2, <1>3
  <2>. QED
    BY <2>1
<1>4. ASSUME NEW j \in DOMAIN s, j > n, s[j] = Notice
      PROVE  \E i \in DOMAIN t : t[i] = Notice
  <2>1. j - n \in DOMAIN t /\ t[j - n] = s[j - n + n] /\ j - n + n = j
    BY <1>1, <1>2, <1>4
  <2>. QED
    BY <2>1, <1>4
<1>. QED
  BY <1>3, <1>4 DEF Announces, t

\* The entries of a sequence without its first one.
LEMMA TailEntries ==
  ASSUME NEW S, NEW s \in Seq(S), s # <<>>
  PROVE  /\ Tail(s) \in Seq(S)
         /\ Len(s) \in Nat /\ Len(s) > 0
         /\ Len(Tail(s)) = Len(s) - 1
         /\ DOMAIN s = 1..Len(s)
         /\ DOMAIN Tail(s) = 1..(Len(s) - 1)
         /\ \A i \in 1..(Len(s) - 1) : Tail(s)[i] = s[i + 1]
         /\ Head(s) = s[1] /\ Head(s) \in S
<1>1. Len(s) \in Nat /\ Len(s) > 0 /\ DOMAIN s = 1..Len(s)
  BY LenProperties, EmptySeq
<1>2. Tail(s) \in Seq(S) /\ Len(Tail(s)) = Len(s) - 1 /\ Head(s) = s[1]
  BY HeadTailProperties
<1>3. \A i \in 1..(Len(s) - 1) : Tail(s)[i] = s[i + 1]
  BY <1>1, HeadTailProperties
<1>4. DOMAIN Tail(s) = 1..(Len(s) - 1)
  BY <1>2, LenProperties
<1>5. Head(s) \in S
  BY <1>1, <1>2, ElementOfSeq
<1>. QED
  BY <1>1, <1>2, <1>3, <1>4, <1>5

LEMMA TailAnnounces ==
  ASSUME NEW S, NEW s \in Seq(S), s # <<>>
  PROVE  Announces(s) <=> Head(s) = Notice \/ Announces(Tail(s))
<1>1. /\ Len(s) \in Nat /\ Len(s) > 0
      /\ DOMAIN s = 1..Len(s)
      /\ DOMAIN Tail(s) = 1..(Len(s) - 1)
      /\ \A i \in 1..(Len(s) - 1) : Tail(s)[i] = s[i + 1]
      /\ Head(s) = s[1]
  BY TailEntries
<1>2. ASSUME NEW i \in DOMAIN s, s[i] = Notice, Head(s) # Notice
      PROVE  Announces(Tail(s))
  <2>1. i # 1
    BY <1>1, <1>2
  <2>2. i - 1 \in DOMAIN Tail(s) /\ Tail(s)[i - 1] = s[i - 1 + 1] /\ i - 1 + 1 = i
    BY <1>1, <2>1
  <2>. QED
    BY <1>2, <2>2 DEF Announces
<1>3. ASSUME NEW i \in DOMAIN Tail(s), Tail(s)[i] = Notice
      PROVE  Announces(s)
  <2>1. i + 1 \in DOMAIN s /\ s[i + 1] = Notice
    BY <1>1, <1>3
  <2>. QED
    BY <2>1 DEF Announces
<1>4. Head(s) = Notice => Announces(s)
  <2>1. 1 \in DOMAIN s
    BY <1>1
  <2>. QED
    BY <1>1, <2>1 DEF Announces
<1>. QED
  BY <1>2, <1>3, <1>4 DEF Announces

LEMMA AppendEntries ==
  ASSUME NEW S, NEW s \in Seq(S), NEW e \in S
  PROVE  /\ Append(s, e) \in Seq(S)
         /\ Len(s) \in Nat
         /\ Len(Append(s, e)) = Len(s) + 1
         /\ DOMAIN s = 1..Len(s)
         /\ DOMAIN Append(s, e) = 1..(Len(s) + 1)
         /\ \A i \in 1..Len(s) : Append(s, e)[i] = s[i]
         /\ Append(s, e)[Len(s) + 1] = e
<1>1. Len(s) \in Nat /\ DOMAIN s = 1..Len(s)
  BY LenProperties
<1>2. Append(s, e) \in Seq(S) /\ Len(Append(s, e)) = Len(s) + 1
  BY AppendProperties
<1>3. (\A i \in 1..Len(s) : Append(s, e)[i] = s[i]) /\ Append(s, e)[Len(s) + 1] = e
  BY AppendProperties
<1>4. DOMAIN Append(s, e) = 1..(Len(s) + 1)
  BY <1>2, LenProperties
<1>. QED
  BY <1>1, <1>2, <1>3, <1>4

------------------------------------------------------------------------------
(* The types. *)

\* What the unit and systemd do.
LEMMA UnitStepType ==
  ASSUME NEW S, Notice \in S, JournalTypeOK(S), UnitStep
  PROVE  JournalTypeOK(S)'
<1>. USE DEF JournalTypeOK, Stage
<1>1. CASE \E c \in Config : Start(c)
  <2>1. PICK c \in Config : Start(c)
    BY <1>1
  <2>2. runs' \in 0..MaxRuns /\ runs' \in Run
    BY <2>1, BoundsAssumption DEF Start, Run
  <2>3. unit' \in Process
    BY <2>1, <2>2 DEF Start, Process
  <2>. QED
    BY <2>1, <2>2, <2>3 DEF Start, readVars
<1>2. ASSUME NEW f, NEW t \in Stage, Announce(f, t)
      PROVE  JournalTypeOK(S)'
  <2>1. log' \in Seq(S) /\ Len(log') = Len(log) + 1 /\ Len(log) \in Nat
    BY <1>2, AppendEntries DEF Announce
  <2>2. read \in 0..Len(log')
    BY <2>1
  <2>. QED
    BY <1>2, <2>1, <2>2 DEF Announce, readVars
<1>3. CASE Exit
  BY <1>3 DEF Exit, readVars
<1>. QED
  BY <1>1, <1>2, <1>3 DEF UnitStep

LEMMA LogEntryType ==
  ASSUME NEW S, NEW e \in S, JournalTypeOK(S), LogEntry(e)
  PROVE  JournalTypeOK(S)'
<1>1. log' \in Seq(S) /\ Len(log') = Len(log) + 1 /\ Len(log) \in Nat
  BY AppendEntries DEF LogEntry, JournalTypeOK
<1>2. read \in 0..Len(log')
  BY <1>1 DEF JournalTypeOK
<1>. QED
  BY <1>1, <1>2 DEF LogEntry, JournalTypeOK, unitVars, readVars

LEMMA AgeType ==
  ASSUME NEW S, NEW p, JournalTypeOK(S), AgeUnless(p)
  PROVE  JournalTypeOK(S)'
<1>1. log' \in Seq(S) /\ Len(log') = Len(log) - 1 /\ Len(log) \in Nat /\ Len(log) > 0
  BY TailEntries DEF AgeUnless, JournalTypeOK
<1>2. read' \in 0..Len(log')
  BY <1>1 DEF AgeUnless, JournalTypeOK
<1>. QED
  BY <1>1, <1>2 DEF AgeUnless, JournalTypeOK, unitVars

LEMMA NewMonitorType ==
  ASSUME NEW S, JournalTypeOK(S), NewJournalMonitor
  PROVE  JournalTypeOK(S)'
<1>1. Len(log) \in 0..Len(log) /\ <<>> \in Seq(S)
  BY LenProperties, EmptySeq DEF JournalTypeOK
<1>. QED
  BY <1>1 DEF NewJournalMonitor, JournalTypeOK, unitVars

LEMMA PollType ==
  ASSUME NEW S, JournalTypeOK(S), PollJournal
  PROVE  JournalTypeOK(S)'
<1>1. Len(log) \in 0..Len(log) /\ SubSeq(log, read + 1, Len(log)) \in Seq(S)
  BY LenProperties, SuffixEntries DEF JournalTypeOK
<1>2. batch' \in Seq(S) /\ cursor' \in BOOLEAN
  BY <1>1 DEF PollJournal, JournalTypeOK
<1>. QED
  BY <1>1, <1>2 DEF PollJournal, JournalTypeOK, unitVars

LEMMA NextEntryType ==
  ASSUME NEW S, JournalTypeOK(S), NextEntry \/ LoseBatch
  PROVE  JournalTypeOK(S)'
<1>1. CASE NextEntry
  <2>1. Tail(batch) \in Seq(S)
    BY <1>1, TailEntries DEF NextEntry, JournalTypeOK
  <2>. QED
    BY <1>1, <2>1 DEF NextEntry, JournalTypeOK, unitVars
<1>2. CASE LoseBatch
  <2>1. <<>> \in Seq(S)
    BY EmptySeq
  <2>. QED
    BY <1>2, <2>1 DEF LoseBatch, JournalTypeOK, unitVars
<1>. QED
  BY <1>1, <1>2

------------------------------------------------------------------------------
(* The start and stop messages that are still to come. *)

\* A new message is unread.
LEMMA AnnounceUnread ==
  ASSUME NEW S, Notice \in S, JournalTypeOK(S), NEW f, NEW t, Announce(f, t)
  PROVE  Announces(Unread)'
<1>1. /\ log' \in Seq(S)
      /\ Len(log) \in Nat
      /\ DOMAIN log' = 1..(Len(log) + 1)
      /\ Len(log') = Len(log) + 1
      /\ log'[Len(log) + 1] = Notice
  BY AppendEntries DEF Announce, JournalTypeOK
<1>2. read' = read /\ read \in 0..Len(log) /\ read' \in 0..Len(log')
  BY <1>1 DEF Announce, JournalTypeOK, readVars
<1>. QED
  BY <1>1, <1>2, SuffixAnnounces DEF Unread

\* No other entry changes what is still to come.
LEMMA LogEntryUnread ==
  ASSUME NEW S, NEW e \in S, JournalTypeOK(S), LogEntry(e), e # Notice
  PROVE  Announces(Unread)' <=> Announces(Unread)
<1>1. /\ log' \in Seq(S)
      /\ Len(log) \in Nat
      /\ DOMAIN log = 1..Len(log)
      /\ DOMAIN log' = 1..(Len(log) + 1)
      /\ Len(log') = Len(log) + 1
      /\ \A i \in 1..Len(log) : log'[i] = log[i]
      /\ log'[Len(log) + 1] = e
  BY AppendEntries DEF LogEntry, JournalTypeOK
<1>2. read' = read /\ read \in 0..Len(log) /\ read' \in 0..Len(log')
  BY <1>1 DEF LogEntry, JournalTypeOK, readVars
<1>3. Announces(Unread) <=> \E i \in DOMAIN log : i > read /\ log[i] = Notice
  BY <1>2, SuffixAnnounces DEF Unread, JournalTypeOK
<1>4. Announces(Unread)' <=> \E i \in DOMAIN log' : i > read /\ log'[i] = Notice
  BY <1>1, <1>2, SuffixAnnounces DEF Unread
<1>5. ASSUME NEW i \in DOMAIN log', i > read, log'[i] = Notice
      PROVE  i \in DOMAIN log /\ log[i] = Notice
  BY <1>1, <1>5
<1>. QED
  BY <1>1, <1>3, <1>4, <1>5

\* Entries that were read may be forgotten.
LEMMA AgeUnread ==
  ASSUME NEW S, JournalTypeOK(S), NEW p, AgeUnless(p), read > 0
  PROVE  Announces(Unread)' <=> Announces(Unread)
<1>1. /\ log' \in Seq(S)
      /\ Len(log) \in Nat
      /\ Len(log') = Len(log) - 1
      /\ DOMAIN log = 1..Len(log)
      /\ DOMAIN log' = 1..(Len(log) - 1)
      /\ \A i \in 1..(Len(log) - 1) : log'[i] = log[i + 1]
  BY TailEntries DEF AgeUnless, JournalTypeOK
<1>2. read' = read - 1 /\ read \in 1..Len(log) /\ read' \in 0..Len(log')
  BY <1>1 DEF AgeUnless, JournalTypeOK
<1>3. Announces(Unread) <=> \E i \in DOMAIN log : i > read /\ log[i] = Notice
  BY <1>2, SuffixAnnounces DEF Unread, JournalTypeOK
<1>4. Announces(Unread)' <=> \E i \in DOMAIN log' : i > read' /\ log'[i] = Notice
  BY <1>1, <1>2, SuffixAnnounces DEF Unread
<1>5. ASSUME NEW i \in DOMAIN log, i > read, log[i] = Notice
      PROVE  i - 1 \in DOMAIN log' /\ i - 1 > read' /\ log'[i - 1] = Notice
  BY <1>1, <1>2, <1>5
<1>6. ASSUME NEW i \in DOMAIN log', i > read', log'[i] = Notice
      PROVE  i + 1 \in DOMAIN log /\ i + 1 > read /\ log[i + 1] = Notice
  BY <1>1, <1>2, <1>6
<1>. QED
  BY <1>3, <1>4, <1>5, <1>6

\* A poll reads what was unread, and perhaps more.
LEMMA PollUnread ==
  ASSUME NEW S, JournalTypeOK(S), PollJournal
  PROVE  /\ ~ Announces(Unread)'
         /\ Announces(Unread) => Announces(batch')
<1>1. Len(log) \in Nat /\ read \in 0..Len(log) /\ read' = Len(log) /\ log' = log
  BY LenProperties DEF PollJournal, JournalTypeOK, unitVars
<1>2. Announces(Unread) <=> \E i \in DOMAIN log : i > read /\ log[i] = Notice
  BY <1>1, SuffixAnnounces DEF Unread, JournalTypeOK
<1>3. Announces(Unread)' <=> \E i \in DOMAIN log' : i > read' /\ log'[i] = Notice
  BY <1>1, SuffixAnnounces DEF Unread, JournalTypeOK
<1>4. DOMAIN log = 1..Len(log)
  BY LenProperties DEF JournalTypeOK
<1>5. ~ Announces(Unread)'
  BY <1>1, <1>3, <1>4
<1>6. CASE cursor
  BY <1>5, <1>6 DEF PollJournal, Unread
<1>7. CASE ~ cursor
  BY <1>2, <1>5, <1>7 DEF PollJournal, Announces
<1>. QED
  BY <1>6, <1>7

\* The message at the head of the batch has been come to.
LEMMA NextEntryUnread ==
  ASSUME NEW S, JournalTypeOK(S), NextEntry
  PROVE  /\ Announces(batch) <=> Head(batch) = Notice \/ Announces(batch')
         /\ Unread' = Unread
         /\ Head(batch) \in S
<1>1. Unread' = Unread
  BY DEF NextEntry, Unread, unitVars
<1>. QED
  BY <1>1, TailAnnounces, TailEntries DEF NextEntry, JournalTypeOK

\* ChangePending in the terms of these lemmas.
LEMMA PendingIs ==
  ChangePending <=> stage = "starting" \/ Announces(batch) \/ Announces(Unread)
BY DEF ChangePending, Unread
=============================================================================
