---------------------------- MODULE UnitFollower ----------------------------
(***************************************************************************)
(* What a monitor promises about the systemd unit that it follows, without *)
(* its journal, its state machine and its polls.  UnitMonitor (phc2sys)    *)
(* and Ptp4lMonitor implement it.                                          *)
(*                                                                         *)
(* The monitor may take any time to notice that the unit was restarted,    *)
(* and may then go on with the old configuration and the old data.  But    *)
(* once it has noticed it holds nothing of an earlier process, and it      *)
(* learns nothing of one any more, until the unit starts the next time.    *)
(***************************************************************************)
EXTENDS Naturals, TLAPS

CONSTANTS
  Config,     \* the configurations that the unit may be started with
  NoProcess,  \* the unit does not run
  Unknown     \* the monitor has no view of the unit

VARIABLES
  unit,  \* the process of the unit
  runs,  \* how many times it was started
  view,  \* the configuration that the monitor takes it to have
  held,  \* the runs whose data the monitor holds
  due    \* whether it still has to come to a start of the unit

vars == <<unit, runs, view, held, due>>

Init ==
  /\ unit = NoProcess
  /\ runs = 0
  /\ view = Unknown
  /\ held = {}
  /\ due = FALSE

Start(c) ==
  /\ unit = NoProcess
  /\ runs' = runs + 1
  /\ unit' = [run |-> runs + 1, config |-> c]
  /\ due' = TRUE
  /\ UNCHANGED <<view, held>>

Exit ==
  /\ unit' = NoProcess
  /\ UNCHANGED <<runs, view, held, due>>

\* A start or a stop of the unit is announced, or announced again.
Announce ==
  /\ due' = TRUE
  /\ UNCHANGED <<unit, runs, view, held>>

\* The monitor starts over.  Only so does it get done with a start of the unit.
StartOver ==
  /\ view' = Unknown
  /\ held' = {}
  /\ due' \in BOOLEAN
  /\ UNCHANGED <<unit, runs>>

\* The runs that data may come from: only the running process, unless its start
\* is still to be noticed.
Sources(unnoticed) ==
  {r \in 1..runs : unnoticed \/ unit = NoProcess \/ r = unit.run}

\* Without a view it reads the configuration of the process that runs now.
Observe ==
  /\ unit # NoProcess
  /\ view = Unknown
  /\ view' = unit.config
  /\ due' \in BOOLEAN
  /\ held' \subseteq Sources(due')
  /\ UNCHANGED <<unit, runs>>

\* It takes in data, or drops some.
Learn ==
  /\ view # Unknown
  /\ held' \subseteq held \cup Sources(due)
  /\ UNCHANGED <<unit, runs, view, due>>

Next ==
  \/ \E c \in Config : Start(c)
  \/ Exit
  \/ Announce
  \/ StartOver
  \/ Observe
  \/ Learn

Spec == Init /\ [][Next]_vars

\* Without a start that it has yet to notice, the monitor's view and all that it
\* holds are of the process that runs.
Follows ==
  ~ due /\ view # Unknown /\ unit # NoProcess =>
    /\ view = unit.config
    /\ held \subseteq {unit.run}

LEMMA FollowsStep ==
  ASSUME Follows, [Next]_vars
  PROVE  Follows'
<1>. USE DEF Follows
<1>1. CASE (\E c \in Config : Start(c)) \/ Announce
  BY <1>1 DEF Start, Announce
<1>2. CASE Exit
  BY <1>2 DEF Exit
<1>3. CASE StartOver
  BY <1>3 DEF StartOver
<1>4. CASE Observe
  BY <1>4 DEF Observe, Sources
<1>5. CASE Learn
  BY <1>5 DEF Learn, Sources
<1>6. CASE UNCHANGED vars
  BY <1>6 DEF vars
<1>. QED
  BY <1>1, <1>2, <1>3, <1>4, <1>5, <1>6 DEF Next

\* Whatever implements UnitFollower follows its unit.
THEOREM FollowerFollows == Spec => []Follows
<1>1. Init => Follows
  BY DEF Init, Follows
<1>. QED
  BY <1>1, FollowsStep, PTL DEF Spec
=============================================================================
