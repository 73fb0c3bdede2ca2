---------------------------- MODULE UnitJournal ----------------------------
(***************************************************************************)
(* What every monitor of a systemd unit shares: the unit, the journal that *)
(* it and systemd write to, and the journal monitor with its cursor        *)
(* (ConsolePollingJournalMonitor).  UnitMonitor (phc2sys) and Ptp4lMonitor *)
(* extend it.  Its actions leave the variables of those modules alone.     *)
(*                                                                         *)
(* The unit runs concurrently: it may stop and start, with another         *)
(* configuration, between any two steps of the worker.                     *)
(*                                                                         *)
(* Abstracted: journal entries that are neither a start or stop message of *)
(* systemd nor a line of the unit, which the code ignores, are left out.   *)
(***************************************************************************)
EXTENDS Naturals, Sequences

CONSTANTS
  Config,     \* the configurations that the unit may be started with
  NoProcess,  \* the unit does not run
  MaxLog,     \* bound: a line is only logged if the log is shorter
  MaxRuns     \* bound: how often the unit starts

Run == 1..MaxRuns

ASSUME BoundsAssumption == MaxLog \in Nat /\ MaxRuns \in Nat

Process == [run : Run, config : Config]

ASSUME ProcessAssumption == NoProcess \notin Process

\* A start or stop message of systemd.
Notice == [type |-> "notice"]

VARIABLES
  unit,      \* the main process of the unit
  runs,      \* how many times the unit was started
  stage,     \* what systemd has logged of the unit's last start or stop
  log,       \* the journal's entries that are unread or younger than 5 s
  read,      \* how many of them precede the cursor, or the worker's start
  cursor,    \* whether _previous_cursor is set
  batch      \* the entries of this poll that are still to be parsed

Stage == {"starting", "running", "stopping", "exited", "stopped"}

unitVars == <<unit, runs, stage>>
readVars == <<read, cursor, batch>>
journalVars == <<unitVars, log, readVars>>

------------------------------------------------------------------------------
(* The unit, systemd and the journal. *)

\* The process runs before systemd logs "Started".  After an exit without a
\* stop request, "Stopped" may be missing.
Start(c) ==
  /\ unit = NoProcess
  /\ runs < MaxRuns
  /\ runs' = runs + 1
  /\ unit' = [run |-> runs + 1, config |-> c]
  /\ stage' = "starting"
  /\ UNCHANGED <<log, readVars>>

\* systemd logs "Started", "Stopping" or "Stopped".
Announce(from, to) ==
  /\ stage = from
  /\ stage' = to
  /\ log' = Append(log, Notice)
  /\ UNCHANGED <<unit, runs, readVars>>

Exit ==
  /\ stage \in {"running", "stopping"}
  /\ stage' = "exited"
  /\ unit' = NoProcess
  /\ UNCHANGED <<runs, log, readVars>>

\* The process of the unit logs a line.
LogEntry(e) ==
  /\ unit # NoProcess
  /\ Len(log) < MaxLog
  /\ log' = Append(log, e)
  /\ UNCHANGED <<unitVars, readVars>>

\* An entry that was read, or that no worker will read, gets older than 5 s.
AgeUnless(polling) ==
  /\ log # <<>>
  /\ polling => read > 0
  /\ log' = Tail(log)
  /\ read' = IF read > 0 THEN read - 1 ELSE 0
  /\ UNCHANGED <<unitVars, cursor, batch>>

------------------------------------------------------------------------------
(* The journal monitor. *)

\* A new journal monitor has no cursor.
NewJournalMonitor ==
  /\ cursor' = FALSE
  /\ read' = Len(log)
  /\ batch' = <<>>
  /\ UNCHANGED <<unitVars, log>>

\* poll: the entries after the cursor, or of the last 5 s if there is none yet.
PollJournal ==
  /\ batch' = IF cursor THEN SubSeq(log, read + 1, Len(log)) ELSE log
  /\ cursor' = (cursor \/ batch' # <<>>)
  /\ read' = Len(log)
  /\ UNCHANGED <<unitVars, log>>

\* SystemdUnitStateMachine.consume goes on to the next entry.
NextEntry ==
  /\ batch # <<>>
  /\ batch' = Tail(batch)
  /\ UNCHANGED <<unitVars, log, read, cursor>>

\* An exception leaves the rest of the batch unread.
LoseBatch ==
  /\ batch' = <<>>
  /\ UNCHANGED <<unitVars, log, read, cursor>>

------------------------------------------------------------------------------
JournalInit ==
  /\ unit = NoProcess
  /\ runs = 0
  /\ stage = "stopped"
  /\ log = <<>>
  /\ read = 0
  /\ cursor = FALSE
  /\ batch = <<>>

UnitStep ==
  \/ \E c \in Config : Start(c)
  \/ Announce("starting", "running")
  \/ Announce("running", "stopping")
  \/ Announce("exited", "stopped")
  \/ Exit

\* The type of the variables, for the entries that a monitor's unit writes.
JournalTypeOK(Entry) ==
  /\ unit \in Process \cup {NoProcess}
  /\ runs \in 0..MaxRuns
  /\ stage \in Stage
  /\ log \in Seq(Entry)
  /\ read \in 0..Len(log)
  /\ cursor \in BOOLEAN
  /\ batch \in Seq(Entry)

Announces(entries) == \E i \in DOMAIN entries : entries[i] = Notice

\* A start or stop of the unit that the monitor has not come to yet.
ChangePending ==
  \/ stage = "starting"
  \/ Announces(batch)
  \/ Announces(SubSeq(log, read + 1, Len(log)))
=============================================================================
