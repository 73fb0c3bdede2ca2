--------------------------- MODULE SyncGraphProofs ---------------------------
(***************************************************************************)
(* Theorems about SyncGraph for any identifiers, scores, ports, updates    *)
(* and reference graph.                                                    *)
(***************************************************************************)
EXTENDS SyncGraph, TLAPS, WellFoundedInduction

------------------------------------------------------------------------------
(* Induction.  The theorems that take a predicate cannot be cited, so a proof by
   induction takes the least counterexample instead. *)

\* A nonempty set of naturals has a least element.
LEMMA LeastNatural ==
  ASSUME NEW S \in SUBSET Nat, S # {}
  PROVE  \E n \in S : \A m \in S : n <= m
<1> DEFINE R == {ss \in Nat \X Nat : ss[1] < ss[2]}
<1>1. OpToRel(<, Nat) = R
  BY Zenon DEF OpToRel
<1>2. IsWellFoundedOn(R, Nat)
  BY <1>1, NatLessThanWellFounded, Zenon
<1>3. PICK n \in S : \A m \in S : <<m, n>> \notin R
  <2> HIDE DEF R
  <2> QED BY <1>2, WFMin
<1>4. ASSUME NEW m \in S PROVE n <= m
  <2>1. m \in Nat /\ n \in Nat
    OBVIOUS
  <2>2. m < n => <<m, n>> \in R
    BY <2>1
  <2> QED BY <1>3, <2>1, <2>2
<1> QED BY <1>4

------------------------------------------------------------------------------
(* Canonical identifiers. *)

\* The canonical identifier of a class is a member of the class: the scores
\* are bounded, so one of them is the greatest.
LEMMA MostReadableInClass ==
  ASSUME NEW S \in SUBSET ClockId, S # {}
  PROVE  MostReadable(S) \in S
<1> DEFINE Best(n) == \E a \in S : Score[a] = n
<1>1. \E n \in -1..4 : Best(n) /\ \A m \in -1..4 : Best(m) => m <= n
  <2>1. \A a \in S : Score[a] \in {-1, 0, 1, 2, 3, 4}
    BY ScoreAssumption DEF NoScore
  <2>2. Best(-1) \/ Best(0) \/ Best(1) \/ Best(2) \/ Best(3) \/ Best(4)
    BY <2>1
  <2>3. -1..4 = {-1, 0, 1, 2, 3, 4}
    OBVIOUS
  <2> HIDE DEF Best
  <2>4. CASE Best(4)
    BY <2>3, <2>4
  <2>5. CASE ~Best(4) /\ Best(3)
    BY <2>3, <2>5
  <2>6. CASE ~Best(4) /\ ~Best(3) /\ Best(2)
    BY <2>3, <2>6
  <2>7. CASE ~Best(4) /\ ~Best(3) /\ ~Best(2) /\ Best(1)
    BY <2>3, <2>7
  <2>8. CASE ~Best(4) /\ ~Best(3) /\ ~Best(2) /\ ~Best(1) /\ Best(0)
    BY <2>3, <2>8
  <2>9. CASE ~Best(4) /\ ~Best(3) /\ ~Best(2) /\ ~Best(1) /\ ~Best(0) /\ Best(-1)
    BY <2>3, <2>9
  <2> QED BY <2>2, <2>4, <2>5, <2>6, <2>7, <2>8, <2>9
<1>2. PICK n \in -1..4 : Best(n) /\ \A m \in -1..4 : Best(m) => m <= n
  BY <1>1
<1>3. PICK a \in S : Score[a] = n
  BY <1>2
<1>4. \A b \in S : Score[b] \in -1..4 /\ Best(Score[b])
  BY ScoreAssumption DEF NoScore
<1>5. \A b \in S : Score[b] <= Score[a]
  BY <1>2, <1>3, <1>4
<1> QED BY <1>5 DEF MostReadable

\* Canonical identifiers are identifiers.
LEMMA CanonType ==
  ASSUME NEW known \in [ClockId -> SUBSET ClockId], NEW c \in ClockId
  PROVE  CanonIn(known, c) \in ClockId
BY MostReadableInClass DEF CanonIn

\* The canonical name of a port keeps its number and takes the canonical clock.
LEMMA CanonPortType ==
  ASSUME NEW known \in [ClockId -> SUBSET ClockId], NEW p \in Port
  PROVE  /\ CanonPortIn(known, p) \in Port
         /\ CanonPortIn(known, p).clock = CanonIn(known, p.clock)
         /\ CanonPortIn(known, p).port = p.port
BY CanonType DEF CanonPortIn, Port

\* An update is a record of the kind that its type says.
LEMMA UpdateKinds ==
  ASSUME NEW u \in Updates
  PROVE  /\ u.type = "clock_master" => u \in MasterUpdate
         /\ u.type = "ptp_parent" => u \in ParentUpdate
         /\ u.type = "phc2sys" => u \in Phc2SysUpdate
         /\ u.type = "clock_diff" => u \in Measurement
         /\ u.type = "clock_alias" => u \in AliasUpdate
         /\ u.type = "port_state" => u \in PortUpdate
         /\ u.type = "self_reported" => u \in SelfUpdate
<1>1. u \in GraphUpdate
  BY UpdatesAssumption
<1> QED BY <1>1 DEF GraphUpdate, MasterUpdate, ParentUpdate, Phc2SysUpdate,
          Measurement, AliasUpdate, PortUpdate, SelfUpdate, IgnoredUpdate

------------------------------------------------------------------------------
(* Type correctness. *)

\* A port added to the graph leaves portIds a function to sets of ports.
LEMMA WithPortType ==
  ASSUME TypeOK, NEW q \in Port
  PROVE  WithPort(q) \in [ClockId -> SUBSET Port]
<1>1. \A r \in Port : CanonPort(r) \in Port
  BY CanonPortType DEF CanonPort, TypeOK
<1>2. Canon(q.clock) \in ClockId
  BY CanonType DEF Canon, TypeOK, Port
<1>3. portIds[Canon(q.clock)] \subseteq Port
  BY <1>2 DEF TypeOK
<1>4. {CanonPort(r) : r \in portIds[Canon(q.clock)]} \cup {CanonPort(q)}
        \in SUBSET Port
  BY <1>1, <1>3
<1> QED BY <1>2, <1>4 DEF WithPort, TypeOK

\* The two ways in which a handler changes the links keep their type.
LEMMA LinkChangesType ==
  ASSUME TypeOK
  PROVE  /\ \A d, k : RemoveIncoming(d, k) => links' \subseteq Link
         /\ \A a, b \in ClockId : \A k \in Kinds : \A m \in Offset \cup Port :
              AddLink(a, b, k, m) => links' \subseteq Link
<1>1. \A d, k : RemoveIncoming(d, k) => links' \subseteq Link
  BY DEF RemoveIncoming, TypeOK
<1>2. ASSUME NEW a \in ClockId, NEW b \in ClockId, NEW k \in Kinds,
             NEW m \in Offset \cup Port, AddLink(a, b, k, m)
      PROVE  links' \subseteq Link
  <2>1. [src |-> a, dst |-> b, kind |-> k, key |-> k, meta |-> m] \in Link
    BY DEF Link
  <2> QED BY <1>2, <2>1 DEF AddLink, TypeOK
<1> QED BY <1>1, <1>2

\* The handlers of a master and of a phc2sys update keep the types.
LEMMA SetSourceType ==
  ASSUME TypeOK, NEW d \in ClockId \cup {NoClock},
         NEW c \in ClockId \cup {NoClock}, NEW k \in Kinds, NEW m \in Offset,
         SetSource(d, c, k, m)
  PROVE  nodes' \subseteq ClockId /\ links' \subseteq Link
<1>1. d \in ClockId /\ Canon(d) \in ClockId
  BY CanonType DEF SetSource, Canon, TypeOK
<1>2. CASE c = NoClock
  <2>1. nodes' \subseteq ClockId
    BY <1>1, <1>2 DEF SetSource, TypeOK
  <2>2. RemoveIncoming(Canon(d), k)
    BY <1>2 DEF SetSource
  <2> QED BY <2>1, <2>2, LinkChangesType
<1>3. CASE c # NoClock
  <2>1. c \in ClockId /\ Canon(c) \in ClockId
    BY <1>3, CanonType DEF Canon, TypeOK
  <2>2. nodes' \subseteq ClockId
    BY <1>1, <1>3, <2>1 DEF SetSource, TypeOK
  <2>3. AddLink(Canon(c), Canon(d), k, m)
    BY <1>3 DEF SetSource
  <2> QED BY <1>1, <2>1, <2>2, <2>3, LinkChangesType
<1> QED BY <1>2, <1>3

\* What a merge of a nonempty class starts from: the canonical identifier and
\* the alias map after the merge have their types.
LEMMA MergeTypes ==
  ASSUME TypeOK, NEW all \in SUBSET ClockId, all # {}
  PROVE  /\ MostReadable(all) \in all
         /\ [c \in ClockId |-> IF c \in all THEN all ELSE aliases[c]]
              \in [ClockId -> SUBSET ClockId]
         /\ \A c \in ClockId : Relabel(all, MostReadable(all), c) \in ClockId
BY MostReadableInClass DEF Relabel, TypeOK

\* A merge keeps the types.
LEMMA MergeType ==
  ASSUME TypeOK, NEW all \in SUBSET ClockId, all # {}, Merge(all)
  PROVE  TypeOK'
<1> DEFINE canon == MostReadable(all)
           known == [c \in ClockId |-> IF c \in all THEN all ELSE aliases[c]]
<1>1. /\ canon \in all
      /\ canon \in ClockId
      /\ known \in [ClockId -> SUBSET ClockId]
      /\ \A c \in ClockId : Relabel(all, canon, c) \in ClockId
  BY MergeTypes
<1>2. /\ aliases' = known
      /\ nodes' = {Relabel(all, canon, n) : n \in nodes} \cup {canon}
      /\ \E kept \in SUBSET links : links' = RelabelledLinks(all, canon, kept)
      /\ portIds' = MergedPortIds(all, canon, known)
      /\ portState' = [q \in Port |-> NoState]
      /\ \E s \in MergedSelfStates(all, canon) :
           selfState' = [c \in ClockId |->
                           IF c = canon THEN s
                           ELSE IF c \in all THEN NoState ELSE selfState[c]]
      /\ refNodes' = {Relabel(all, canon, n) : n \in refNodes}
      /\ refLinks' = {<<Relabel(all, canon, e[1]), Relabel(all, canon, e[2])>>
                      : e \in refLinks}
  BY DEF Merge
<1> HIDE DEF canon, known
<1>3. nodes' \subseteq ClockId /\ refNodes' \subseteq ClockId
  BY <1>1, <1>2 DEF TypeOK
<1>4. links' \subseteq Link
  <2>1. PICK kept \in SUBSET links :
               links' = RelabelledLinks(all, canon, kept)
    BY <1>2
  <2>2. \A l \in links :
          /\ RelabelLink(all, canon, l) \in Link
          /\ [RelabelLink(all, canon, l) EXCEPT !.key = Renumbered] \in Link
    <3> TAKE l \in links
    <3>1. l \in Link
      BY DEF TypeOK
    <3>2. RelabelLink(all, canon, l) \in Link
      BY <1>1, <3>1 DEF RelabelLink, Link
    <3> QED BY <3>2 DEF Link
  <2> QED BY <2>1, <2>2 DEF RelabelledLinks
<1>5. portIds' \in [ClockId -> SUBSET Port]
  <2>1. \A q \in Port : CanonPortIn(known, q) \in Port
    BY <1>1, CanonPortType
  <2>2. \A c \in ClockId : portIds[c] \subseteq Port
    BY DEF TypeOK
  <2>3. UNION {portIds[n] : n \in all} \subseteq Port
    BY <2>2
  <2> QED BY <1>2, <2>1, <2>2, <2>3 DEF MergedPortIds
<1>6. portState' \in [Port -> State \cup {NoState}]
  BY <1>2
<1>7. selfState' \in [ClockId -> State \cup {NoState}]
  <2>1. MergedSelfStates(all, canon) \subseteq State \cup {NoState}
    BY DEF MergedSelfStates, TypeOK
  <2> QED BY <1>2, <2>1 DEF TypeOK
<1>8. refLinks' \subseteq ClockId \X ClockId
  BY <1>1, <1>2 DEF TypeOK
<1> QED BY <1>1, <1>2, <1>3, <1>4, <1>5, <1>6, <1>7, <1>8 DEF TypeOK

\* The class that an effective alias update merges.
LEMMA MergedClass ==
  ASSUME TypeOK, NEW u \in Updates, UpdateClockAliases(u)
  PROVE  /\ u.aliases \in SUBSET ClockId
         /\ KnownClasses(u.aliases) \cup u.aliases \in SUBSET ClockId
         /\ KnownClasses(u.aliases) \cup u.aliases # {}
         /\ Merge(KnownClasses(u.aliases) \cup u.aliases)
<1>1. u \in AliasUpdate
  BY UpdateKinds DEF UpdateClockAliases
<1>2. u.aliases \in SUBSET ClockId
  BY <1>1 DEF AliasUpdate
<1>3. KnownClasses(u.aliases) \in SUBSET ClockId
  BY <1>2 DEF KnownClasses, TypeOK
<1>4. u.aliases # {}
  BY DEF UpdateClockAliases, NothingNew
<1> QED BY <1>2, <1>3, <1>4 DEF UpdateClockAliases

\* Every update keeps the types.
LEMMA UpdateKeepsType ==
  ASSUME TypeOK, NEW u \in Updates, Update(u)
  PROVE  TypeOK'
<1>1. CASE UpdateClockAliases(u)
  BY <1>1, MergedClass, MergeType
<1>2. CASE UpdateClockMaster(u)
  <2>1. u \in MasterUpdate
    BY <1>2, UpdateKinds DEF UpdateClockMaster
  <2>2. nodes' \subseteq ClockId /\ links' \subseteq Link
    BY <1>2, <2>1, SetSourceType
       DEF UpdateClockMaster, MasterUpdate, Kinds, Offset
  <2> QED BY <1>2, <2>2 DEF UpdateClockMaster, TypeOK
<1>3. CASE UpdatePhc2SysLinkState(u)
  <2>1. u \in Phc2SysUpdate
    BY <1>3, UpdateKinds DEF UpdatePhc2SysLinkState
  <2>2. nodes' \subseteq ClockId /\ links' \subseteq Link
    BY <1>3, <2>1, SetSourceType
       DEF UpdatePhc2SysLinkState, Phc2SysUpdate, Kinds, Offset
  <2> QED BY <1>3, <2>2 DEF UpdatePhc2SysLinkState, TypeOK
<1>4. CASE HandleClockDiffMeasurement(u)
  <2>1. u \in Measurement
    BY <1>4, UpdateKinds DEF HandleClockDiffMeasurement
  <2>2. /\ u.src \in ClockId /\ u.dst \in ClockId /\ u.meta \in Reading
        /\ Canon(u.src) \in ClockId /\ Canon(u.dst) \in ClockId
    BY <1>4, <2>1, CanonType
       DEF HandleClockDiffMeasurement, Measurement, Canon, TypeOK
  <2>3. links' \subseteq Link
    BY <1>4, <2>2, LinkChangesType
       DEF HandleClockDiffMeasurement, Kinds, Offset
  <2> QED BY <1>4, <2>2, <2>3 DEF HandleClockDiffMeasurement, TypeOK
<1>5. CASE RemovePtpLink(u)
  <2>1. u \in ParentUpdate
    BY <1>5, UpdateKinds DEF RemovePtpLink
  <2>2. Canon(u.clock) \in ClockId
    BY <1>5, <2>1, CanonType DEF RemovePtpLink, ParentUpdate, Canon, TypeOK
  <2>3. links' \subseteq Link
    BY <1>5, LinkChangesType DEF RemovePtpLink, TypeOK
  <2> QED BY <1>5, <2>2, <2>3 DEF RemovePtpLink, TypeOK
<1>6. CASE CreatePtpLink(u)
  <2>1. u \in ParentUpdate
    BY <1>6, UpdateKinds DEF CreatePtpLink
  <2>2. /\ u.clock \in ClockId /\ u.parent \in Port
        /\ u.parent.clock \in ClockId
    BY <1>6, <2>1 DEF CreatePtpLink, ParentUpdate, Port
  <2>3. /\ Canon(u.clock) \in ClockId /\ Canon(u.parent.clock) \in ClockId
        /\ CanonPort(u.parent) \in Port
    BY <2>2, CanonType, CanonPortType DEF Canon, CanonPort, TypeOK
  <2>4. links' \subseteq Link
    BY <1>6, <2>3, LinkChangesType DEF CreatePtpLink, Kinds
  <2>5. portIds' \in [ClockId -> SUBSET Port]
    BY <1>6, <2>2, WithPortType DEF CreatePtpLink
  <2> QED BY <1>6, <2>3, <2>4, <2>5 DEF CreatePtpLink, TypeOK
<1>7. CASE UpdatePtpPortState(u)
  <2>1. u \in PortUpdate
    BY <1>7, UpdateKinds DEF UpdatePtpPortState
  <2>2. u.port \in Port /\ u.port.clock \in ClockId /\ u.state \in State
    BY <2>1 DEF PortUpdate, Port
  <2>3. Canon(u.port.clock) \in ClockId
    BY <2>2, CanonType DEF Canon, TypeOK
  <2>4. portIds' \in [ClockId -> SUBSET Port]
    BY <1>7, <2>2, WithPortType DEF UpdatePtpPortState
  <2> QED BY <1>7, <2>2, <2>3, <2>4 DEF UpdatePtpPortState, TypeOK
<1>8. CASE UpdateSelfReportedClockState(u)
  <2>1. u \in SelfUpdate
    BY <1>8, UpdateKinds DEF UpdateSelfReportedClockState
  <2>2. u.clock \in ClockId /\ u.state \in State
    BY <1>8, <2>1 DEF UpdateSelfReportedClockState, SelfUpdate
  <2>3. Canon(u.clock) \in ClockId
    BY <2>2, CanonType DEF Canon, TypeOK
  <2> QED BY <1>8, <2>2, <2>3 DEF UpdateSelfReportedClockState, TypeOK
<1>9. CASE Ignore(u)
  BY <1>9 DEF Ignore, vars, TypeOK
<1> QED BY <1>1, <1>2, <1>3, <1>4, <1>5, <1>6, <1>7, <1>8, <1>9
        DEF Update

\* Every reachable state of the graph has its type.
THEOREM TypeCorrect == Spec => []TypeOK
<1>1. Init => TypeOK
  BY ReferenceAssumption DEF Init, TypeOK
<1>2. TypeOK /\ UNCHANGED vars => TypeOK'
  BY DEF vars, TypeOK
<1>3. TypeOK /\ [Next]_vars => TypeOK'
  BY <1>2, UpdateKeepsType DEF Next
<1> QED BY <1>1, <1>3, PTL DEF Spec

------------------------------------------------------------------------------
(* The alias classes. *)

\* No class outside the merged one shares a member with it.
LEMMA MergedClassApart ==
  ASSUME TypeOK, AliasClasses, NEW A \in SUBSET ClockId,
         NEW a \in ClockId, a \notin KnownClasses(A) \cup A, NEW b \in aliases[a]
  PROVE  b \notin KnownClasses(A) \cup A
<1>1. /\ b \in ClockId
      /\ a \in aliases[a]
      /\ aliases[b] = aliases[a]
  BY DEF TypeOK, AliasClasses
<1>2. b \notin A
  BY <1>1 DEF KnownClasses
<1>3. ASSUME NEW c \in A, b \in aliases[c] PROVE FALSE
  <2>1. aliases[b] = aliases[c]
    BY <1>3 DEF AliasClasses
  <2> QED BY <1>1, <2>1 DEF KnownClasses
<1> QED BY <1>2, <1>3 DEF KnownClasses

\* An effective alias update keeps the classes a partition.
LEMMA MergeKeepsClasses ==
  ASSUME TypeOK, AliasClasses, NEW A \in SUBSET ClockId,
         Merge(KnownClasses(A) \cup A)
  PROVE  AliasClasses'
<1> DEFINE all == KnownClasses(A) \cup A
<1>1. /\ all \in SUBSET ClockId
      /\ aliases' = [c \in ClockId |-> IF c \in all THEN all ELSE aliases[c]]
  BY DEF Merge, KnownClasses, TypeOK
<1>2. \A a \in ClockId : a \notin all => \A b \in aliases[a] : b \notin all
  BY MergedClassApart
<1> HIDE DEF all
<1> SUFFICES ASSUME NEW a \in ClockId
             PROVE  /\ aliases'[a] # {} => a \in aliases'[a]
                    /\ \A b \in aliases'[a] : aliases'[b] = aliases'[a]
  BY DEF AliasClasses
<1>3. CASE a \in all
  BY <1>1, <1>3
<1>4. CASE a \notin all
  <2>1. aliases'[a] = aliases[a]
    BY <1>1, <1>4
  <2>2. \A b \in aliases[a] : b \in ClockId /\ aliases'[b] = aliases[b]
    BY <1>1, <1>2, <1>4 DEF TypeOK
  <2> QED BY <2>1, <2>2 DEF AliasClasses
<1> QED BY <1>3, <1>4

\* Only an effective alias update changes the classes.
LEMMA OnlyMergesRename ==
  ASSUME NEW u \in Updates, Update(u), ~ UpdateClockAliases(u)
  PROVE  aliases' = aliases /\ refNodes' = refNodes /\ refLinks' = refLinks
BY DEF Update, UpdateClockMaster, RemovePtpLink, CreatePtpLink,
       UpdatePtpPortState, HandleClockDiffMeasurement, UpdatePhc2SysLinkState,
       UpdateSelfReportedClockState, Ignore, vars

\* Every update keeps the classes a partition.
LEMMA UpdateKeepsClasses ==
  ASSUME TypeOK, AliasClasses, NEW u \in Updates, Update(u)
  PROVE  AliasClasses'
<1>1. CASE UpdateClockAliases(u)
  BY <1>1, MergedClass, MergeKeepsClasses
<1>2. CASE ~ UpdateClockAliases(u)
  BY <1>2, OnlyMergesRename DEF AliasClasses
<1> QED BY <1>1, <1>2

\* update_clock_aliases keeps every identifier in exactly one class, whatever
\* updates came before: overlapping, repeated or single aliases.
THEOREM AliasClassesPartition == Spec => []AliasClasses
<1>1. Init => AliasClasses
  BY DEF Init, AliasClasses
<1>2. AliasClasses /\ UNCHANGED vars => AliasClasses'
  BY DEF vars, AliasClasses
<1>3. TypeOK /\ AliasClasses /\ [Next]_vars => AliasClasses'
  BY <1>2, UpdateKeepsClasses DEF Next
<1> QED BY <1>1, <1>3, TypeCorrect, PTL DEF Spec

------------------------------------------------------------------------------
(* Self-loops. *)

\* A merge removes exactly the loops it makes: only members of the merged class
\* get equal names.
LEMMA MergeMakesNoLoop ==
  ASSUME TypeOK, NoSelfLoops, NEW all \in SUBSET ClockId, all # {}, Merge(all)
  PROVE  NoSelfLoops'
<1> DEFINE canon == MostReadable(all)
<1>1. canon \in all
  BY MostReadableInClass
<1>2. PICK kept \in SUBSET links : links' = RelabelledLinks(all, canon, kept)
  BY DEF Merge
<1> HIDE DEF canon
<1>3. ASSUME NEW l \in links'
      PROVE  l.src # l.dst
  <2>1. /\ ~(l.src = canon /\ l.dst = canon)
        /\ \E k \in links : \/ l = RelabelLink(all, canon, k)
                            \/ l = [RelabelLink(all, canon, k)
                                      EXCEPT !.key = Renumbered]
    BY <1>2 DEF RelabelledLinks
  <2>2. PICK k \in links : \/ l = RelabelLink(all, canon, k)
                           \/ l = [RelabelLink(all, canon, k)
                                     EXCEPT !.key = Renumbered]
    BY <2>1
  <2>3. k \in Link /\ k.src # k.dst
    BY DEF TypeOK, NoSelfLoops
  <2>4. RelabelLink(all, canon, k)
          = [k EXCEPT !.src = Relabel(all, canon, k.src),
                      !.dst = Relabel(all, canon, k.dst)]
    BY DEF RelabelLink
  <2>5. /\ l.src = Relabel(all, canon, k.src)
        /\ l.dst = Relabel(all, canon, k.dst)
    BY <2>2, <2>3, <2>4 DEF Link
  <2> QED BY <1>1, <2>1, <2>3, <2>5 DEF Relabel
<1> QED BY <1>3 DEF NoSelfLoops

\* The handlers add no loop.
LEMMA AddedLinks ==
  ASSUME NEW a, NEW b, NEW k, NEW m, AddLink(a, b, k, m)
  PROVE  \A l \in links' : \/ l \in links
                           \/ a # b /\ l = [src |-> a, dst |-> b, kind |-> k,
                                            key |-> k, meta |-> m]
BY DEF AddLink

\* Which links a step that merges nothing may leave: old ones, and a new one
\* between two different canonical identifiers that are in the graph.
LEMMA LinksOfUpdate ==
  ASSUME TypeOK, NEW u \in Updates, Update(u), ~ UpdateClockAliases(u)
  PROVE  \A l \in links' :
           \/ l \in links
           \/ \E a, b \in ClockId :
                /\ l.src = Canon(a) /\ l.dst = Canon(b) /\ l.src # l.dst
                /\ Canon(a) \in nodes' /\ Canon(b) \in nodes'
                /\ l.kind = "ptp_parent" =>
                     CreatePtpLink(u) /\ l.meta = CanonPort(u.parent)
<1> SUFFICES ASSUME NEW l \in links', l \notin links
             PROVE  \E a, b \in ClockId :
                      /\ l.src = Canon(a) /\ l.dst = Canon(b) /\ l.src # l.dst
                      /\ Canon(a) \in nodes' /\ Canon(b) \in nodes'
                      /\ l.kind = "ptp_parent" =>
                           CreatePtpLink(u) /\ l.meta = CanonPort(u.parent)
  OBVIOUS
<1>1. ASSUME NEW d \in ClockId \cup {NoClock}, NEW c \in ClockId \cup {NoClock},
             NEW k \in Kinds, k # "ptp_parent", NEW m, SetSource(d, c, k, m)
      PROVE  \E a, b \in ClockId :
               /\ l.src = Canon(a) /\ l.dst = Canon(b) /\ l.src # l.dst
               /\ Canon(a) \in nodes' /\ Canon(b) \in nodes'
               /\ l.kind # "ptp_parent"
  <2>1. c # NoClock
    BY <1>1 DEF SetSource, RemoveIncoming
  <2>2. /\ c \in ClockId /\ d \in ClockId
        /\ AddLink(Canon(c), Canon(d), k, m)
        /\ Canon(c) \in nodes' /\ Canon(d) \in nodes'
    BY <1>1, <2>1 DEF SetSource
  <2>3. /\ Canon(c) # Canon(d)
        /\ l = [src |-> Canon(c), dst |-> Canon(d), kind |-> k,
                key |-> k, meta |-> m]
    BY <2>2, AddedLinks
  <2> QED BY <1>1, <2>2, <2>3
<1>2. CASE UpdateClockMaster(u)
  <2>1. u \in MasterUpdate
    BY <1>2, UpdateKinds DEF UpdateClockMaster
  <2> QED BY <1>1, <1>2, <2>1 DEF UpdateClockMaster, MasterUpdate, Kinds
<1>3. CASE UpdatePhc2SysLinkState(u)
  <2>1. u \in Phc2SysUpdate
    BY <1>3, UpdateKinds DEF UpdatePhc2SysLinkState
  <2> QED BY <1>1, <1>3, <2>1 DEF UpdatePhc2SysLinkState, Phc2SysUpdate, Kinds
<1>4. CASE HandleClockDiffMeasurement(u)
  <2>1. u \in Measurement
    BY <1>4, UpdateKinds DEF HandleClockDiffMeasurement
  <2>2. /\ u.src \in ClockId /\ u.dst \in ClockId
        /\ Canon(u.src) \in nodes' /\ Canon(u.dst) \in nodes'
    BY <1>4, <2>1 DEF HandleClockDiffMeasurement, Measurement
  <2>3. /\ Canon(u.src) # Canon(u.dst)
        /\ l = [src |-> Canon(u.src), dst |-> Canon(u.dst),
                kind |-> "measurement", key |-> "measurement",
                meta |-> [offset |-> u.meta]]
    BY <1>4, AddedLinks DEF HandleClockDiffMeasurement
  <2> QED BY <2>2, <2>3
<1>5. CASE CreatePtpLink(u)
  <2>1. u \in ParentUpdate
    BY <1>5, UpdateKinds DEF CreatePtpLink
  <2>2. /\ u.clock \in ClockId /\ u.parent.clock \in ClockId
        /\ Canon(u.clock) \in nodes' /\ Canon(u.parent.clock) \in nodes'
    BY <1>5, <2>1 DEF CreatePtpLink, ParentUpdate, Port
  <2>3. /\ Canon(u.parent.clock) # Canon(u.clock)
        /\ l = [src |-> Canon(u.parent.clock), dst |-> Canon(u.clock),
                kind |-> "ptp_parent", key |-> "ptp_parent",
                meta |-> CanonPort(u.parent)]
    BY <1>5, AddedLinks DEF CreatePtpLink
  <2> QED BY <1>5, <2>2, <2>3
<1>6. CASE RemovePtpLink(u) \/ UpdatePtpPortState(u)
             \/ UpdateSelfReportedClockState(u) \/ Ignore(u)
  BY <1>6 DEF RemovePtpLink, RemoveIncoming, UpdatePtpPortState,
              UpdateSelfReportedClockState, Ignore, vars
<1> QED BY <1>2, <1>3, <1>4, <1>5, <1>6 DEF Update

\* No update makes a loop.
LEMMA UpdateMakesNoLoop ==
  ASSUME TypeOK, NoSelfLoops, NEW u \in Updates, Update(u)
  PROVE  NoSelfLoops'
<1>1. CASE UpdateClockAliases(u)
  BY <1>1, MergedClass, MergeMakesNoLoop
<1>2. CASE ~ UpdateClockAliases(u)
  BY <1>2, LinksOfUpdate DEF NoSelfLoops
<1> QED BY <1>1, <1>2

\* No clock is linked to itself, whatever aliases become known and when.
THEOREM NoClockSyncsToItself == Spec => []NoSelfLoops
<1>1. Init => NoSelfLoops
  BY DEF Init, NoSelfLoops
<1>2. NoSelfLoops /\ UNCHANGED vars => NoSelfLoops'
  BY DEF vars, NoSelfLoops
<1>3. TypeOK /\ NoSelfLoops /\ [Next]_vars => NoSelfLoops'
  BY <1>2, UpdateMakesNoLoop DEF Next
<1> QED BY <1>1, <1>3, TypeCorrect, PTL DEF Spec

------------------------------------------------------------------------------
(* Canonical names. *)

\* Names are resolved once: the canonical identifier of a canonical identifier
\* is itself.
LEMMA CanonIdempotent ==
  ASSUME TypeOK, AliasClasses, NEW c \in ClockId
  PROVE  Canon(c) \in ClockId /\ Canon(Canon(c)) = Canon(c)
<1>1. CASE aliases[c] = {}
  BY <1>1 DEF Canon, CanonIn
<1>2. CASE aliases[c] # {}
  <2>1. Canon(c) \in aliases[c]
    BY <1>2, MostReadableInClass DEF Canon, CanonIn, TypeOK
  <2>2. aliases[Canon(c)] = aliases[c]
    BY <2>1 DEF AliasClasses
  <2> QED BY <1>2, <2>1, <2>2 DEF Canon, CanonIn, TypeOK
<1> QED BY <1>1, <1>2

\* A port of a canonical clock is canonical.
LEMMA CanonPortFixed ==
  ASSUME TypeOK, NEW q \in Port, Canon(q.clock) = q.clock
  PROVE  CanonPort(q) = q
BY DEF CanonPort, CanonPortIn, Canon, Port

\* The nodes, the links' ends, the ports and the states have current names.
\* This is OnlyCanonicalNames and ParentPortResolves with what they rest on.
NameInv == /\ TypeOK
           /\ AliasClasses
           /\ OnlyCanonicalNames
           /\ ParentPortResolves

\* Adding a port changes no other, as all are canonical already.
LEMMA WithPortAdds ==
  ASSUME NameInv, NEW q \in Port
  PROVE  /\ Canon(q.clock) \in ClockId
         /\ WithPort(q)
              = [portIds EXCEPT ![Canon(q.clock)] = @ \cup {CanonPort(q)}]
<1>1. /\ Canon(q.clock) \in ClockId
      /\ Canon(Canon(q.clock)) = Canon(q.clock)
  BY CanonIdempotent DEF NameInv, Port
<1>2. \A c \in ClockId : \A r \in portIds[c] : CanonPort(r) = r
  <2>1. \A c \in ClockId : \A r \in portIds[c] :
          r \in Port /\ r.clock = c /\ Canon(c) = c
    BY DEF NameInv, OnlyCanonicalNames, TypeOK
  <2> QED BY <2>1, CanonPortFixed DEF NameInv
<1>3. {CanonPort(r) : r \in portIds[Canon(q.clock)]} = portIds[Canon(q.clock)]
  BY <1>1, <1>2
<1> QED BY <1>1, <1>3 DEF WithPort

\* It is filed under its clock.
LEMMA WithPortKeeps ==
  ASSUME NameInv, NEW q \in Port
  PROVE  /\ \A c \in ClockId : portIds[c] \subseteq WithPort(q)[c]
         /\ CanonPort(q) \in WithPort(q)[CanonPort(q).clock]
         /\ CanonPort(q).clock = Canon(q.clock)
         /\ \A c \in ClockId : \A r \in WithPort(q)[c] :
              /\ r.clock = c
              /\ r \in portIds[c] \/ c = Canon(q.clock)
<1>1. CanonPort(q) \in Port /\ CanonPort(q).clock = Canon(q.clock)
  BY CanonPortType DEF CanonPort, Canon, NameInv, TypeOK
<1>2. \A c \in ClockId : \A r \in portIds[c] : r.clock = c
  BY DEF NameInv, OnlyCanonicalNames
<1>3. /\ Canon(q.clock) \in ClockId
      /\ WithPort(q)
           = [portIds EXCEPT ![Canon(q.clock)] = @ \cup {CanonPort(q)}]
      /\ portIds \in [ClockId -> SUBSET Port]
  BY WithPortAdds DEF NameInv, TypeOK
<1> QED BY <1>1, <1>2, <1>3

\* A step that merges nothing only adds clocks and ports.
LEMMA UpdateOnlyAdds ==
  ASSUME NameInv, NEW u \in Updates, Update(u), ~ UpdateClockAliases(u)
  PROVE  /\ nodes \subseteq nodes'
         /\ \A n \in nodes' : n \in nodes \/ \E c \in ClockId : n = Canon(c)
         /\ \A c \in ClockId : /\ portIds[c] \subseteq portIds'[c]
                               /\ \A r \in portIds'[c] :
                                    c \in nodes' /\ r.clock = c
<1>1. /\ nodes \subseteq nodes'
      /\ \A n \in nodes' : n \in nodes \/ \E c \in ClockId : n = Canon(c)
  <2>1. CASE UpdateClockMaster(u)
    <3>1. u \in MasterUpdate
      BY <2>1, UpdateKinds DEF UpdateClockMaster
    <3> QED BY <2>1, <3>1 DEF UpdateClockMaster, SetSource, MasterUpdate
  <2>2. CASE UpdatePhc2SysLinkState(u)
    <3>1. u \in Phc2SysUpdate
      BY <2>2, UpdateKinds DEF UpdatePhc2SysLinkState
    <3> QED BY <2>2, <3>1 DEF UpdatePhc2SysLinkState, SetSource, Phc2SysUpdate
  <2>3. CASE HandleClockDiffMeasurement(u)
    <3>1. u \in Measurement
      BY <2>3, UpdateKinds DEF HandleClockDiffMeasurement
    <3> QED BY <2>3, <3>1 DEF HandleClockDiffMeasurement, Measurement
  <2>4. CASE RemovePtpLink(u)
    <3>1. u \in ParentUpdate
      BY <2>4, UpdateKinds DEF RemovePtpLink
    <3> QED BY <2>4, <3>1 DEF RemovePtpLink, ParentUpdate
  <2>5. CASE CreatePtpLink(u)
    <3>1. u \in ParentUpdate
      BY <2>5, UpdateKinds DEF CreatePtpLink
    <3> QED BY <2>5, <3>1 DEF CreatePtpLink, ParentUpdate, Port
  <2>6. CASE UpdatePtpPortState(u)
    <3>1. u \in PortUpdate
      BY <2>6, UpdateKinds DEF UpdatePtpPortState
    <3> QED BY <2>6, <3>1 DEF UpdatePtpPortState, PortUpdate, Port
  <2>7. CASE UpdateSelfReportedClockState(u)
    <3>1. u \in SelfUpdate
      BY <2>7, UpdateKinds DEF UpdateSelfReportedClockState
    <3> QED BY <2>7, <3>1 DEF UpdateSelfReportedClockState, SelfUpdate
  <2>8. CASE Ignore(u)
    BY <2>8 DEF Ignore, vars
  <2> QED BY <2>1, <2>2, <2>3, <2>4, <2>5, <2>6, <2>7, <2>8 DEF Update
<1>2. \/ portIds' = portIds
      \/ \E q \in Port : portIds' = WithPort(q) /\ Canon(q.clock) \in nodes'
  <2>1. CASE CreatePtpLink(u)
    <3>1. u \in ParentUpdate
      BY <2>1, UpdateKinds DEF CreatePtpLink
    <3> QED BY <2>1, <3>1 DEF CreatePtpLink, ParentUpdate
  <2>2. CASE UpdatePtpPortState(u)
    <3>1. u \in PortUpdate
      BY <2>2, UpdateKinds DEF UpdatePtpPortState
    <3> QED BY <2>2, <3>1 DEF UpdatePtpPortState, PortUpdate
  <2>3. CASE ~ CreatePtpLink(u) /\ ~ UpdatePtpPortState(u)
    BY <2>3 DEF Update, UpdateClockMaster, UpdatePhc2SysLinkState,
         HandleClockDiffMeasurement, RemovePtpLink,
         UpdateSelfReportedClockState, Ignore, vars
  <2> QED BY <2>1, <2>2, <2>3
<1>3. \A c \in ClockId : /\ portIds[c] \subseteq portIds'[c]
                         /\ \A r \in portIds'[c] : c \in nodes' /\ r.clock = c
  <2>1. CASE portIds' = portIds
    BY <1>1, <2>1 DEF NameInv, OnlyCanonicalNames
  <2>2. CASE \E q \in Port :
               portIds' = WithPort(q) /\ Canon(q.clock) \in nodes'
    BY <1>1, <2>2, WithPortKeeps DEF NameInv, OnlyCanonicalNames
  <2> QED BY <1>2, <2>1, <2>2
<1> QED BY <1>1, <1>3

\* A step that merges nothing keeps all names current.
LEMMA UpdateKeepsNames ==
  ASSUME NameInv, NEW u \in Updates, Update(u), ~ UpdateClockAliases(u)
  PROVE  OnlyCanonicalNames' /\ ParentPortResolves'
<1>1. aliases' = aliases /\ refNodes' = refNodes /\ refLinks' = refLinks
  BY OnlyMergesRename
<1>2. /\ nodes \subseteq nodes'
      /\ \A n \in nodes' : n \in nodes \/ \E c \in ClockId : n = Canon(c)
  BY UpdateOnlyAdds
<1>3. \A c \in ClockId : /\ portIds[c] \subseteq portIds'[c]
                         /\ \A r \in portIds'[c] : c \in nodes' /\ r.clock = c
  BY UpdateOnlyAdds
<1>4. \A c \in nodes' \cup refNodes' : Canon(c)' = c
  <2>1. \A c \in nodes \cup refNodes : Canon(c) = c
    BY DEF NameInv, OnlyCanonicalNames
  <2>2. \A c \in ClockId : Canon(Canon(c)) = Canon(c)
    BY CanonIdempotent DEF NameInv
  <2>3. \A c \in nodes' \cup refNodes' : Canon(c) = c
    BY <1>1, <1>2, <2>1, <2>2
  <2> QED BY <1>1, <2>3 DEF Canon
<1>5. \A l \in links' : l.src \in nodes' /\ l.dst \in nodes'
  BY <1>2, LinksOfUpdate DEF NameInv, OnlyCanonicalNames
<1>6. \A q \in Port : portState'[q] # NoState => q \in portIds'[q.clock]
  <2>1. CASE portState' = portState
    BY <1>3, <2>1 DEF NameInv, OnlyCanonicalNames, Port
  <2>2. CASE UpdatePtpPortState(u)
    <3>1. u \in PortUpdate
      BY <2>2, UpdateKinds DEF UpdatePtpPortState
    <3>2. u.port \in Port
      BY <3>1 DEF PortUpdate
    <3>3. CanonPort(u.port) \in portIds'[CanonPort(u.port).clock]
      BY <2>2, <3>2, WithPortKeeps DEF UpdatePtpPortState
    <3>4. \A q \in Port : portState'[q] # NoState =>
            q = CanonPort(u.port) \/ portState[q] # NoState
      BY <2>2 DEF UpdatePtpPortState, NameInv, TypeOK
    <3> QED BY <1>3, <3>3, <3>4 DEF NameInv, OnlyCanonicalNames, Port
  <2>3. portState' = portState \/ UpdatePtpPortState(u)
    BY DEF Update, UpdateClockMaster, UpdatePhc2SysLinkState, CreatePtpLink,
           HandleClockDiffMeasurement, RemovePtpLink,
           UpdateSelfReportedClockState, Ignore, vars
  <2> QED BY <2>1, <2>2, <2>3
<1>7. \A c \in ClockId : selfState'[c] # NoState => c \in nodes'
  <2>1. CASE selfState' = selfState
    BY <1>2, <2>1 DEF NameInv, OnlyCanonicalNames
  <2>2. CASE UpdateSelfReportedClockState(u)
    BY <1>2, <2>2 DEF UpdateSelfReportedClockState, NameInv,
                      OnlyCanonicalNames, TypeOK
  <2>3. selfState' = selfState \/ UpdateSelfReportedClockState(u)
    BY DEF Update, UpdateClockMaster, UpdatePhc2SysLinkState, CreatePtpLink,
           HandleClockDiffMeasurement, RemovePtpLink, UpdatePtpPortState,
           Ignore, vars
  <2> QED BY <2>1, <2>2, <2>3
<1>8. OnlyCanonicalNames'
  BY <1>1, <1>3, <1>4, <1>5, <1>6, <1>7 DEF OnlyCanonicalNames, NameInv
<1>9. ASSUME NEW l \in links', l.kind = "ptp_parent"
       PROVE  l.meta \in Port /\ CanonPort(l.meta)' \in portIds'[l.src]
  <2>1. CASE l \in links
    <3>1. l.meta \in Port /\ CanonPort(l.meta) \in portIds[l.src]
      BY <1>9, <2>1 DEF NameInv, ParentPortResolves
    <3>2. l.src \in ClockId
      BY <2>1 DEF NameInv, TypeOK, Link
    <3> QED BY <1>1, <1>3, <3>1, <3>2 DEF CanonPort
  <2>2. CASE l \notin links
    <3>1. /\ CreatePtpLink(u)
          /\ l.meta = CanonPort(u.parent)
      BY <1>9, <2>2, LinksOfUpdate DEF NameInv
    <3>2. u.parent \in Port
      <4>1. u \in ParentUpdate
        BY <3>1, UpdateKinds DEF CreatePtpLink
      <4> QED BY <3>1, <4>1 DEF CreatePtpLink, ParentUpdate
    <3>3. /\ l.meta \in Port
          /\ l.meta.clock = Canon(u.parent.clock)
          /\ l.meta \in portIds'[l.meta.clock]
      BY <3>1, <3>2, WithPortKeeps, CanonPortType
         DEF CreatePtpLink, CanonPort, Canon, NameInv, TypeOK
    <3>4. l.src = Canon(u.parent.clock)
      BY <2>2, <3>1, AddedLinks DEF CreatePtpLink
    <3>5. CanonPort(l.meta) = l.meta
      BY <3>2, <3>3, CanonIdempotent, CanonPortFixed DEF NameInv, Port
    <3> QED BY <1>1, <3>3, <3>4, <3>5 DEF CanonPort
  <2> QED BY <2>1, <2>2
<1> QED BY <1>8, <1>9 DEF ParentPortResolves

\* How a merge renames: the new name of an identifier is the relabelled old one,
\* and renaming an old name gives the same.
LEMMA MergedNames ==
  ASSUME NameInv, NEW A \in SUBSET ClockId, A # {},
         Merge(KnownClasses(A) \cup A)
  PROVE  LET all == KnownClasses(A) \cup A
         IN  /\ MostReadable(all) \in all
             /\ all \in SUBSET ClockId
             /\ \A c \in ClockId :
                  /\ CanonIn(aliases', c)
                       = Relabel(all, MostReadable(all), Canon(c))
                  /\ CanonIn(aliases', Canon(c)) = CanonIn(aliases', c)
<1> DEFINE all == KnownClasses(A) \cup A
<1>0. aliases' = [c \in ClockId |-> IF c \in all THEN all ELSE aliases[c]]
  BY DEF Merge
<1>1. all \in SUBSET ClockId /\ all # {} /\ MostReadable(all) \in all
  <2>1. all \in SUBSET ClockId /\ all # {}
    BY DEF KnownClasses, NameInv, TypeOK
  <2> QED BY <2>1, MostReadableInClass
<1>2. \A c \in all : aliases[c] \subseteq all
  <2> SUFFICES ASSUME NEW c \in all PROVE aliases[c] \subseteq KnownClasses(A)
    OBVIOUS
  <2>1. CASE c \in A
    BY <2>1 DEF KnownClasses
  <2>2. CASE c \in KnownClasses(A)
    <3>1. PICK a \in A : c \in aliases[a]
      BY <2>2 DEF KnownClasses
    <3>2. aliases[c] = aliases[a]
      BY <3>1 DEF NameInv, AliasClasses
    <3> QED BY <3>2 DEF KnownClasses
  <2> QED BY <2>1, <2>2
<1>3. \A c \in ClockId : c \notin all => \A b \in aliases[c] : b \notin all
  BY MergedClassApart DEF NameInv
<1>4. ASSUME NEW c \in ClockId
      PROVE  /\ Canon(c) \in ClockId
             /\ Canon(c) \in all <=> c \in all
             /\ Canon(Canon(c)) = Canon(c)
  <2>1. Canon(c) = c \/ Canon(c) \in aliases[c]
    BY MostReadableInClass DEF Canon, CanonIn, NameInv, TypeOK
  <2>2. Canon(c) \in ClockId /\ Canon(Canon(c)) = Canon(c)
    BY CanonIdempotent DEF NameInv
  <2> QED BY <1>2, <1>3, <2>1, <2>2
<1> HIDE DEF all
<1>5. \A c \in ClockId : CanonIn(aliases', c)
                           = IF c \in all THEN MostReadable(all) ELSE Canon(c)
  BY <1>0, <1>1 DEF CanonIn, Canon
<1>6. \A c \in ClockId :
        /\ CanonIn(aliases', c) = Relabel(all, MostReadable(all), Canon(c))
        /\ CanonIn(aliases', Canon(c)) = CanonIn(aliases', c)
  BY <1>1, <1>4, <1>5 DEF Relabel
<1> QED BY <1>1, <1>6 DEF all

\* A merge renames everything that had a name of the merged class.
LEMMA MergeKeepsNames ==
  ASSUME NameInv, NEW A \in SUBSET ClockId, A # {},
         Merge(KnownClasses(A) \cup A)
  PROVE  OnlyCanonicalNames' /\ ParentPortResolves'
<1> DEFINE all == KnownClasses(A) \cup A
           canon == MostReadable(all)
           known == [c \in ClockId |-> IF c \in all THEN all ELSE aliases[c]]
<1>1. /\ aliases' = known
      /\ nodes' = {Relabel(all, canon, n) : n \in nodes} \cup {canon}
      /\ \E kept \in SUBSET links : links' = RelabelledLinks(all, canon, kept)
      /\ portIds' = MergedPortIds(all, canon, known)
      /\ portState' = [q \in Port |-> NoState]
      /\ \E s \in MergedSelfStates(all, canon) :
           selfState' = [c \in ClockId |->
                           IF c = canon THEN s
                           ELSE IF c \in all THEN NoState ELSE selfState[c]]
      /\ refNodes' = {Relabel(all, canon, n) : n \in refNodes}
      /\ refLinks' = {<<Relabel(all, canon, e[1]), Relabel(all, canon, e[2])>>
                      : e \in refLinks}
  BY DEF Merge
<1>2. /\ all = KnownClasses(A) \cup A
      /\ canon = MostReadable(all)
      /\ known = [c \in ClockId |-> IF c \in all THEN all ELSE aliases[c]]
  OBVIOUS
<1> HIDE DEF all, canon, known
<1>3. /\ canon \in all
      /\ all \in SUBSET ClockId
      /\ known \in [ClockId -> SUBSET ClockId]
      /\ \A c \in ClockId :
           /\ CanonIn(known, c) = Relabel(all, canon, Canon(c))
           /\ CanonIn(known, Canon(c)) = CanonIn(known, c)
  <2>1. /\ canon \in all
        /\ all \in SUBSET ClockId
        /\ \A c \in ClockId :
             /\ CanonIn(known, c) = Relabel(all, canon, Canon(c))
             /\ CanonIn(known, Canon(c)) = CanonIn(known, c)
    BY <1>1, <1>2, MergedNames
  <2> QED BY <1>2, <2>1 DEF NameInv, TypeOK
<1>4. /\ \A c \in nodes \cup refNodes : c \in ClockId /\ Canon(c) = c
      /\ \A c \in ClockId : \A q \in portIds[c] :
           q \in Port /\ q.clock = c /\ c \in nodes
      /\ \A l \in links : /\ l \in Link
                          /\ l.src \in nodes /\ l.dst \in nodes
  BY DEF NameInv, OnlyCanonicalNames, TypeOK
<1>5. /\ CanonIn(known, canon) = canon
      /\ \A c \in nodes \cup refNodes :
           /\ CanonIn(known, c) = Relabel(all, canon, c)
           /\ CanonIn(known, Relabel(all, canon, c)) = Relabel(all, canon, c)
  <2>1. CanonIn(known, canon) = canon
    BY <1>2, <1>3 DEF CanonIn
  <2>2. \A c \in nodes \cup refNodes :
          CanonIn(known, c) = Relabel(all, canon, c)
    BY <1>3, <1>4
  <2> QED BY <2>1, <2>2 DEF Relabel
<1>6. \A c \in nodes' \cup refNodes' : Canon(c)' = c
  BY <1>1, <1>5 DEF Canon
<1>7. \A l \in links' : \E k \in links :
        /\ l.src = Relabel(all, canon, k.src)
        /\ l.dst = Relabel(all, canon, k.dst)
        /\ l.kind = k.kind
        /\ l.meta = k.meta
  <2>1. PICK kept \in SUBSET links :
               links' = RelabelledLinks(all, canon, kept)
    BY <1>1
  <2> SUFFICES ASSUME NEW l \in links'
               PROVE  \E k \in links :
                        /\ l.src = Relabel(all, canon, k.src)
                        /\ l.dst = Relabel(all, canon, k.dst)
                        /\ l.kind = k.kind
                        /\ l.meta = k.meta
    OBVIOUS
  <2>2. PICK k \in links : \/ l = RelabelLink(all, canon, k)
                           \/ l = [RelabelLink(all, canon, k)
                                     EXCEPT !.key = Renumbered]
    BY <2>1 DEF RelabelledLinks
  <2>3. k \in Link
    BY <1>4
  <2>4. RelabelLink(all, canon, k)
          = [k EXCEPT !.src = Relabel(all, canon, k.src),
                      !.dst = Relabel(all, canon, k.dst)]
    BY DEF RelabelLink
  <2>5. /\ l.src = Relabel(all, canon, k.src)
        /\ l.dst = Relabel(all, canon, k.dst)
        /\ l.kind = k.kind
        /\ l.meta = k.meta
    BY <2>2, <2>3, <2>4 DEF Link
  <2> QED BY <2>5
<1>8. \A l \in links' : l.src \in nodes' /\ l.dst \in nodes'
  BY <1>1, <1>4, <1>7
<1>9. \A c \in ClockId : \A q \in portIds'[c] : c \in nodes' /\ q.clock = c
  <2> SUFFICES ASSUME NEW c \in ClockId, NEW q \in portIds'[c]
               PROVE  c \in nodes' /\ q.clock = c
    OBVIOUS
  <2>1. CASE c = canon
    <3>1. PICK n \in all : \E r \in portIds[n] : q = CanonPortIn(known, r)
      BY <1>1, <2>1 DEF MergedPortIds
    <3>2. PICK r \in portIds[n] : q = CanonPortIn(known, r)
      BY <3>1
    <3>3. r \in Port /\ r.clock = n /\ n \in nodes
      BY <1>3, <1>4, <3>2
    <3>4. q.clock = CanonIn(known, n)
      BY <1>3, <3>2, <3>3, CanonPortType
    <3> QED BY <1>1, <1>5, <2>1, <3>3, <3>4 DEF Relabel
  <2>2. CASE c \notin all
    <3>1. PICK r \in portIds[c] : q = CanonPortIn(known, r)
      BY <1>1, <1>3, <2>2 DEF MergedPortIds
    <3>2. r \in Port /\ r.clock = c /\ c \in nodes
      BY <1>4, <3>1
    <3>3. q.clock = CanonIn(known, c)
      BY <1>3, <3>1, <3>2, CanonPortType
    <3>4. Relabel(all, canon, c) = c
      BY <2>2 DEF Relabel
    <3> QED BY <1>1, <1>5, <3>2, <3>3, <3>4
  <2>3. CASE c \in all /\ c # canon
    BY <1>1, <2>3 DEF MergedPortIds
  <2> QED BY <2>1, <2>2, <2>3
<1>10. \A c \in ClockId : selfState'[c] # NoState => c \in nodes'
  <2>1. \A c \in ClockId : c \notin all /\ selfState[c] # NoState => c \in nodes'
    BY <1>1 DEF Relabel, NameInv, OnlyCanonicalNames
  <2> QED BY <1>1, <2>1
<1>11. refLinks' \subseteq refNodes' \X refNodes'
  BY <1>1 DEF NameInv, OnlyCanonicalNames
<1>12. OnlyCanonicalNames'
  <2>1. \A q \in Port : portState'[q] # NoState => q \in portIds'[q.clock]
    BY <1>1
  <2> QED BY <1>6, <1>8, <1>9, <1>10, <1>11, <2>1 DEF OnlyCanonicalNames
<1>13. ASSUME NEW l \in links', l.kind = "ptp_parent"
       PROVE  l.meta \in Port /\ CanonPort(l.meta)' \in portIds'[l.src]
  <2>1. PICK k \in links : /\ l.src = Relabel(all, canon, k.src)
                           /\ l.kind = k.kind
                           /\ l.meta = k.meta
    BY <1>7
  <2>2. l.meta \in Port /\ CanonPort(l.meta) \in portIds[k.src]
    BY <1>13, <2>1 DEF NameInv, ParentPortResolves
  <2>3. l.meta.clock \in ClockId /\ Canon(l.meta.clock) = k.src
        /\ CanonPort(l.meta) \in Port
        /\ CanonPort(l.meta).clock = k.src
        /\ k.src \in ClockId
    BY <1>4, <2>2, CanonPortType DEF CanonPort, Canon, NameInv, TypeOK, Port,
                                     Link
  <2>4. CanonPortIn(known, CanonPort(l.meta)) = CanonPortIn(known, l.meta)
    <3>1. CanonIn(known, k.src) = CanonIn(known, l.meta.clock)
      BY <1>3, <2>3
    <3>2. CanonPort(l.meta) = [l.meta EXCEPT !.clock = k.src]
      BY <2>3 DEF CanonPort, CanonPortIn, Canon
    <3>3. /\ CanonPortIn(known, CanonPort(l.meta))
               = [CanonPort(l.meta) EXCEPT !.clock = CanonIn(known, k.src)]
          /\ CanonPortIn(known, l.meta)
               = [l.meta EXCEPT !.clock = CanonIn(known, k.src)]
      BY <2>3, <3>1 DEF CanonPortIn
    <3> QED BY <2>2, <3>2, <3>3 DEF Port
  <2>5. CanonPortIn(known, CanonPort(l.meta))
          \in portIds'[Relabel(all, canon, k.src)]
    BY <1>1, <1>3, <2>2, <2>3 DEF MergedPortIds, Relabel
  <2> QED BY <1>1, <2>1, <2>2, <2>4, <2>5 DEF CanonPort
<1> QED BY <1>12, <1>13 DEF ParentPortResolves

\* The graph starts with current names, and every update keeps them.
LEMMA InitialNames == Init => NameInv
BY ReferenceAssumption
   DEF Init, NameInv, TypeOK, AliasClasses, OnlyCanonicalNames,
       ParentPortResolves, Canon, CanonIn

\* Applying an update keeps the invariant on names.
LEMMA UpdateKeepsNameInv ==
  ASSUME NameInv, NEW u \in Updates, Update(u)
  PROVE  NameInv'
<1>1. TypeOK' /\ AliasClasses'
  BY UpdateKeepsType, UpdateKeepsClasses DEF NameInv
<1>2. CASE UpdateClockAliases(u)
  <2>1. u.aliases # {}
    BY <1>2 DEF UpdateClockAliases, NothingNew
  <2> QED BY <1>1, <1>2, <2>1, MergedClass, MergeKeepsNames DEF NameInv
<1>3. CASE ~ UpdateClockAliases(u)
  BY <1>1, <1>3, UpdateKeepsNames DEF NameInv
<1> QED BY <1>2, <1>3

\* The invariant that the theorems below rest on.
LEMMA NamesStayCurrent == Spec => []NameInv
<1>1. NameInv /\ UNCHANGED vars => NameInv'
  BY DEF vars, NameInv, TypeOK, AliasClasses, OnlyCanonicalNames,
         ParentPortResolves, Canon, CanonPort
<1>2. NameInv /\ [Next]_vars => NameInv'
  BY <1>1, UpdateKeepsNameInv DEF Next
<1> QED BY <1>2, InitialNames, PTL DEF Spec

\* After any sequence of updates the graph uses current names only: nothing
\* refers to an identifier that a merge has retired.
THEOREM GraphUsesCanonicalNames == Spec => []OnlyCanonicalNames
BY NamesStayCurrent, PTL DEF NameInv

\* The parent port of every PTP link is a port of the link's source, although
\* merges do not rename it.
THEOREM ParentPortsResolve == Spec => []ParentPortResolves
BY NamesStayCurrent, PTL DEF NameInv

------------------------------------------------------------------------------
(* What updates may not lose. *)

\* A name that leads to a clock of the graph always will, and every port of the
\* clock stays with it, through every update and every merge.
THEOREM ClocksAndPortsAreKept == Spec => ClocksAndPortsStay
<1>1. NameInv /\ [Next]_vars =>
        [\A c \in ClockId : Canon(c) \in nodes =>
           /\ Canon(c)' \in nodes'
           /\ \A p \in portIds[Canon(c)] :
                CanonPortIn(aliases', p) \in portIds'[Canon(c)']]_vars
  <2> SUFFICES ASSUME NameInv, NEW u \in Updates, Update(u),
                      NEW c \in ClockId, Canon(c) \in nodes
               PROVE  /\ Canon(c)' \in nodes'
                      /\ \A p \in portIds[Canon(c)] :
                           CanonPortIn(aliases', p) \in portIds'[Canon(c)']
    BY DEF Next
  <2>1. CASE UpdateClockAliases(u)
    <3> DEFINE all == KnownClasses(u.aliases) \cup u.aliases
               canon == MostReadable(all)
    <3>1. u.aliases \in SUBSET ClockId /\ u.aliases # {} /\ Merge(all)
      BY <2>1, MergedClass DEF UpdateClockAliases, NothingNew, NameInv
    <3>2. Canon(c)' = Relabel(all, canon, Canon(c))
      BY <3>1, MergedNames DEF Canon
    <3>3. /\ nodes' = {Relabel(all, canon, n) : n \in nodes} \cup {canon}
          /\ portIds' = MergedPortIds(all, canon, aliases')
      BY <3>1 DEF Merge
    <3>4. canon \in ClockId /\ Canon(c) \in ClockId
      BY <3>1, MergedNames, CanonIdempotent DEF NameInv
    <3> HIDE DEF all, canon
    <3>5. Canon(c)' \in nodes'
      BY <3>2, <3>3
    <3>6. ASSUME NEW p \in portIds[Canon(c)]
          PROVE  CanonPortIn(aliases', p) \in portIds'[Canon(c)']
      <4>1. CASE Canon(c) \in all
        <5>1. p \in UNION {portIds[n] : n \in all}
          BY <3>6, <4>1
        <5>2. portIds'[canon] = {CanonPortIn(aliases', q) :
                                   q \in UNION {portIds[n] : n \in all}}
          BY <3>3, <3>4 DEF MergedPortIds
        <5>3. Canon(c)' = canon
          BY <3>2, <4>1 DEF Relabel
        <5> QED BY <5>1, <5>2, <5>3
      <4>2. CASE Canon(c) \notin all
        <5>1. canon \in all
          BY <3>1, MergedNames DEF all, canon
        <5>2. portIds'[Canon(c)] = {CanonPortIn(aliases', q) :
                                      q \in portIds[Canon(c)]}
          BY <3>3, <3>4, <4>2, <5>1 DEF MergedPortIds
        <5>3. Canon(c)' = Canon(c)
          BY <3>2, <4>2 DEF Relabel
        <5> QED BY <5>2, <5>3
      <4> QED BY <4>1, <4>2
    <3> QED BY <3>5, <3>6
  <2>2. CASE ~ UpdateClockAliases(u)
    <3>1. aliases' = aliases
      BY <2>2, OnlyMergesRename
    <3>2. Canon(c)' = Canon(c)
      BY <3>1 DEF Canon
    <3>3. /\ nodes \subseteq nodes'
          /\ Canon(c) \in ClockId
          /\ Canon(Canon(c)) = Canon(c)
          /\ portIds[Canon(c)] \subseteq portIds'[Canon(c)]
      BY <2>2, UpdateOnlyAdds, CanonIdempotent DEF NameInv
    <3>4. ASSUME NEW p \in portIds[Canon(c)]
          PROVE  CanonPortIn(aliases', p) = p
      <4>1. p \in Port /\ p.clock = Canon(c)
        BY <3>3 DEF NameInv, OnlyCanonicalNames, TypeOK
      <4>2. CanonPort(p) = p
        BY <3>3, <4>1, CanonPortFixed DEF NameInv
      <4> QED BY <3>1, <4>2 DEF CanonPort
    <3> QED BY <3>2, <3>3, <3>4
  <2> QED BY <2>1, <2>2
<1> QED BY <1>1, NamesStayCurrent, PTL DEF Spec, ClocksAndPortsStay

\* A link has the key of its kind, unless a merge renumbered it: that a link
\* which is overwritten had the kind of the new one rests on this.
KeysOfKinds == \A l \in links : l.key \in {l.kind, Renumbered}

\* A merge renames the ends of links and renumbers some, and changes no more.
LEMMA MergedLinks ==
  ASSUME TypeOK, NEW all \in SUBSET ClockId, NEW canon \in ClockId,
         NEW kept \in SUBSET links, links' = RelabelledLinks(all, canon, kept)
  PROVE  /\ \A l \in links' : \E k \in links :
              /\ l.kind = k.kind /\ l.meta = k.meta
              /\ l.key \in {k.key, Renumbered}
         /\ \A k \in links :
              \/ /\ Relabel(all, canon, k.src) = canon
                 /\ Relabel(all, canon, k.dst) = canon
              \/ \E l \in links' : /\ l.src = Relabel(all, canon, k.src)
                                   /\ l.dst = Relabel(all, canon, k.dst)
                                   /\ l.kind = k.kind
                                   /\ l.meta = k.meta
<1> DEFINE Fate(k) == IF k \in kept THEN RelabelLink(all, canon, k)
                      ELSE [RelabelLink(all, canon, k) EXCEPT !.key = Renumbered]
<1>1. links' = {l \in {Fate(k) : k \in links} :
                  ~(l.src = canon /\ l.dst = canon)}
  BY DEF RelabelledLinks
<1>2. ASSUME NEW k \in links
      PROVE  /\ Fate(k).src = Relabel(all, canon, k.src)
             /\ Fate(k).dst = Relabel(all, canon, k.dst)
             /\ Fate(k).kind = k.kind
             /\ Fate(k).meta = k.meta
             /\ Fate(k).key \in {k.key, Renumbered}
  <2>1. k \in Link
    BY DEF TypeOK
  <2>2. RelabelLink(all, canon, k)
          = [k EXCEPT !.src = Relabel(all, canon, k.src),
                      !.dst = Relabel(all, canon, k.dst)]
    BY DEF RelabelLink
  <2> QED BY <2>1, <2>2 DEF Link
<1> HIDE DEF Fate
<1> QED BY <1>1, <1>2

\* Every update keeps the keys those of the kinds.
LEMMA UpdateKeepsKeys ==
  ASSUME TypeOK, KeysOfKinds, NEW u \in Updates, Update(u)
  PROVE  KeysOfKinds'
<1>1. CASE UpdateClockAliases(u)
  <2> DEFINE all == KnownClasses(u.aliases) \cup u.aliases
  <2>1. all \in SUBSET ClockId /\ all # {} /\ Merge(all)
    BY <1>1, MergedClass
  <2>2. MostReadable(all) \in ClockId
    BY <2>1, MostReadableInClass
  <2>3. PICK kept \in SUBSET links :
               links' = RelabelledLinks(all, MostReadable(all), kept)
    BY <2>1 DEF Merge
  <2> HIDE DEF all
  <2> QED BY <2>1, <2>2, <2>3, MergedLinks DEF KeysOfKinds
<1>2. ASSUME NEW d, NEW c, NEW k, NEW m, SetSource(d, c, k, m)
      PROVE  KeysOfKinds'
  <2>1. CASE c = NoClock
    BY <1>2, <2>1 DEF SetSource, RemoveIncoming, KeysOfKinds
  <2>2. CASE c # NoClock
    BY <1>2, <2>2, AddedLinks DEF SetSource, KeysOfKinds
  <2> QED BY <2>1, <2>2
<1>3. CASE UpdateClockMaster(u) \/ UpdatePhc2SysLinkState(u)
  BY <1>2, <1>3 DEF UpdateClockMaster, UpdatePhc2SysLinkState
<1>4. CASE HandleClockDiffMeasurement(u) \/ CreatePtpLink(u)
  BY <1>4, AddedLinks
     DEF HandleClockDiffMeasurement, CreatePtpLink, KeysOfKinds
<1>5. CASE RemovePtpLink(u) \/ UpdatePtpPortState(u)
             \/ UpdateSelfReportedClockState(u) \/ Ignore(u)
  BY <1>5 DEF RemovePtpLink, RemoveIncoming, UpdatePtpPortState,
              UpdateSelfReportedClockState, Ignore, vars, KeysOfKinds
<1> QED BY <1>1, <1>3, <1>4, <1>5 DEF Update

\* The keys stay those of the kinds.
LEMMA KeysStayKinds == Spec => []KeysOfKinds
<1>1. Init => KeysOfKinds
  BY DEF Init, KeysOfKinds
<1>2. KeysOfKinds /\ UNCHANGED vars => KeysOfKinds'
  BY DEF vars, KeysOfKinds
<1>3. TypeOK /\ KeysOfKinds /\ [Next]_vars => KeysOfKinds'
  BY <1>2, UpdateKeepsKeys DEF Next
<1> QED BY <1>1, <1>3, TypeCorrect, PTL DEF Spec

\* What LinksSurvive says of the links into d of kind k.
OnlyLost(d, k) ==
  \A l \in links :
    \/ Survives(l)
    \/ IF aliases' = aliases
         THEN /\ l.key = k
              /\ l.dst = d
              /\ \A m \in links' : ~(m.dst = d /\ m.key = k)
         ELSE CanonIn(aliases', l.src) = CanonIn(aliases', l.dst)

\* A merge loses only the links between names that it joins.
LEMMA MergeLosesLoops ==
  ASSUME NameInv, NEW u \in Updates, UpdateClockAliases(u)
  PROVE  \E k \in Kinds, d \in ClockId : OnlyLost(d, k)
<1> DEFINE A == u.aliases
           all == KnownClasses(A) \cup A
           canon == MostReadable(all)
<1>1. A \in SUBSET ClockId /\ A # {} /\ Merge(all) /\ ~ NothingNew(A)
  BY MergedClass DEF UpdateClockAliases, NothingNew, NameInv
<1>2. /\ canon \in all
      /\ all \in SUBSET ClockId
      /\ \A c \in ClockId : CanonIn(aliases', c) = Relabel(all, canon, Canon(c))
  BY <1>1, MergedNames
<1>3. aliases' # aliases
  <2>1. PICK a \in A : a \notin KnownClasses(A)
    BY <1>1 DEF NothingNew
  <2>2. a \in ClockId /\ a \notin aliases[a]
    BY <1>1, <2>1 DEF KnownClasses
  <2>3. a \in aliases'[a]
    BY <1>1, <2>2 DEF Merge
  <2> QED BY <2>2, <2>3
<1>4. PICK kept \in SUBSET links : links' = RelabelledLinks(all, canon, kept)
  BY <1>1 DEF Merge
<1> HIDE DEF all, canon, A
<1>5. ASSUME NEW l \in links
      PROVE  \/ Survives(l)
             \/ CanonIn(aliases', l.src) = CanonIn(aliases', l.dst)
  <2>1. /\ l.src \in ClockId /\ l.dst \in ClockId
        /\ Canon(l.src) = l.src /\ Canon(l.dst) = l.dst
    BY DEF NameInv, OnlyCanonicalNames, TypeOK, Link
  <2>2. /\ CanonIn(aliases', l.src) = Relabel(all, canon, l.src)
        /\ CanonIn(aliases', l.dst) = Relabel(all, canon, l.dst)
    BY <1>2, <2>1
  <2>3. \/ /\ Relabel(all, canon, l.src) = canon
           /\ Relabel(all, canon, l.dst) = canon
        \/ \E m \in links' : /\ m.src = Relabel(all, canon, l.src)
                             /\ m.dst = Relabel(all, canon, l.dst)
                             /\ m.kind = l.kind
                             /\ m.meta = l.meta
    BY <1>2, <1>4, MergedLinks DEF NameInv
  <2> QED BY <2>2, <2>3 DEF Survives
<1>6. OnlyLost(canon, "master")
  BY <1>3, <1>5 DEF OnlyLost
<1> QED BY <1>2, <1>6 DEF Kinds

\* The handlers overwrite a link by one of its kind, and remove links only
\* together with all others of the kind.
LEMMA UpdateLosesAKind ==
  ASSUME NameInv, KeysOfKinds, NEW u \in Updates, Update(u),
         ~ UpdateClockAliases(u)
  PROVE  \/ UNCHANGED vars
         \/ \E k \in Kinds, d \in ClockId : OnlyLost(d, k)
<1>1. aliases' = aliases
  BY OnlyMergesRename
<1>2. \A l \in links : l \in Link /\ CanonIn(aliases', l.src) = l.src
                                  /\ CanonIn(aliases', l.dst) = l.dst
  <2>1. \A l \in links : l \in Link /\ Canon(l.src) = l.src
                                    /\ Canon(l.dst) = l.dst
    BY DEF NameInv, OnlyCanonicalNames, TypeOK
  <2> QED BY <1>1, <2>1 DEF Canon
<1>3. ASSUME NEW k \in Kinds, NEW d \in ClockId, RemoveIncoming(d, k)
      PROVE  OnlyLost(d, k)
  <2>1. \A l \in links : l \in links' => Survives(l)
    BY <1>1, <1>2 DEF Survives
  <2> QED BY <1>1, <1>3, <2>1 DEF RemoveIncoming, OnlyLost
<1>4. ASSUME NEW a, NEW d, NEW k \in Kinds, NEW m, AddLink(a, d, k, m)
      PROVE  \A l \in links : Survives(l)
  <2> SUFFICES ASSUME NEW l \in links PROVE Survives(l)
    OBVIOUS
  <2>1. CASE l \in links'
    BY <1>1, <1>2, <2>1 DEF Survives
  <2>2. CASE l \notin links'
    <3> DEFINE new == [src |-> a, dst |-> d, kind |-> k, key |-> k, meta |-> m]
    <3>1. /\ new \in links'
          /\ l.src = a /\ l.dst = d /\ l.key = k
      BY <1>4, <2>2 DEF AddLink
    <3>2. l.kind = k
      BY <3>1 DEF KeysOfKinds, Kinds, Renumbered
    <3>3. /\ new.src = CanonIn(aliases', l.src)
          /\ new.dst = CanonIn(aliases', l.dst)
          /\ new.kind = l.kind
      BY <1>2, <3>1, <3>2
    <3> QED BY <1>1, <3>1, <3>3 DEF Survives
  <2> QED BY <2>1, <2>2
<1>5. ASSUME NEW d \in ClockId, \A l \in links : Survives(l)
      PROVE  \E k \in Kinds, e \in ClockId : OnlyLost(e, k)
  <2>1. OnlyLost(d, "master")
    BY <1>5 DEF OnlyLost
  <2> QED BY <2>1 DEF Kinds
<1>6. ASSUME links' = links PROVE \A l \in links : Survives(l)
  BY <1>1, <1>2, <1>6 DEF Survives
<1>7. ASSUME NEW d \in ClockId \cup {NoClock}, NEW c, NEW k \in Kinds, NEW m,
             SetSource(d, c, k, m)
      PROVE  \E j \in Kinds, e \in ClockId : OnlyLost(e, j)
  <2>1. d \in ClockId /\ Canon(d) \in ClockId
    BY <1>7, CanonIdempotent DEF SetSource, NameInv
  <2>2. CASE c = NoClock
    BY <1>3, <1>7, <2>1, <2>2 DEF SetSource
  <2>3. CASE c # NoClock
    <3>1. AddLink(Canon(c), Canon(d), k, m)
      BY <1>7, <2>3 DEF SetSource
    <3> QED BY <1>4, <1>5, <2>1, <3>1
  <2> QED BY <2>2, <2>3
<1>8. CASE UpdateClockMaster(u)
  <2>1. u.clock \in ClockId \cup {NoClock}
    BY <1>8, UpdateKinds DEF UpdateClockMaster, MasterUpdate
  <2> QED BY <1>7, <1>8, <2>1 DEF UpdateClockMaster, Kinds
<1>9. CASE UpdatePhc2SysLinkState(u)
  <2>1. u.dst \in ClockId \cup {NoClock}
    BY <1>9, UpdateKinds DEF UpdatePhc2SysLinkState, Phc2SysUpdate
  <2> QED BY <1>7, <1>9, <2>1 DEF UpdatePhc2SysLinkState, Kinds
<1>10. CASE HandleClockDiffMeasurement(u)
  <2>1. u.dst \in ClockId
    BY <1>10, UpdateKinds DEF HandleClockDiffMeasurement, Measurement
  <2>2. "measurement" \in Kinds
    BY DEF Kinds
  <2> QED BY <1>4, <1>5, <1>10, <2>1, <2>2 DEF HandleClockDiffMeasurement
<1>11. CASE CreatePtpLink(u)
  <2>1. u.clock \in ClockId
    BY <1>11, UpdateKinds DEF CreatePtpLink, ParentUpdate
  <2>2. "ptp_parent" \in Kinds
    BY DEF Kinds
  <2> QED BY <1>4, <1>5, <1>11, <2>1, <2>2 DEF CreatePtpLink
<1>12. CASE RemovePtpLink(u)
  <2>1. u.clock \in ClockId /\ Canon(u.clock) \in ClockId
    <3>1. u.clock \in ClockId
      BY <1>12, UpdateKinds DEF RemovePtpLink, ParentUpdate
    <3> QED BY <3>1, CanonIdempotent DEF NameInv
  <2>2. "ptp_parent" \in Kinds
    BY DEF Kinds
  <2>3. CASE u.parent = NoPort
    BY <1>3, <1>12, <2>1, <2>2, <2>3 DEF RemovePtpLink
  <2>4. CASE u.parent # NoPort
    BY <1>5, <1>6, <1>12, <2>1, <2>4 DEF RemovePtpLink
  <2> QED BY <2>3, <2>4
<1>13. CASE UpdatePtpPortState(u)
  <2>1. u.port.clock \in ClockId
    BY <1>13, UpdateKinds DEF UpdatePtpPortState, PortUpdate, Port
  <2> QED BY <1>5, <1>6, <1>13, <2>1 DEF UpdatePtpPortState
<1>14. CASE UpdateSelfReportedClockState(u)
  <2>1. u.clock \in ClockId
    BY <1>14, UpdateKinds DEF UpdateSelfReportedClockState, SelfUpdate
  <2> QED BY <1>5, <1>6, <1>14, <2>1 DEF UpdateSelfReportedClockState
<1>15. CASE Ignore(u)
  BY <1>15 DEF Ignore
<1> QED BY <1>8, <1>9, <1>10, <1>11, <1>12, <1>13, <1>14, <1>15 DEF Update

\* No update loses a link, except those that a merge turns into loops and those
\* that are removed together with all others of one kind into one clock.
THEOREM LinksAreKept == Spec => LinksSurvive
<1>1. NameInv /\ KeysOfKinds /\ [Next]_vars =>
        [\E k \in Kinds, d \in ClockId : OnlyLost(d, k)]_vars
  <2> SUFFICES ASSUME NameInv, KeysOfKinds, NEW u \in Updates, Update(u)
               PROVE  \/ UNCHANGED vars
                      \/ \E k \in Kinds, d \in ClockId : OnlyLost(d, k)
    BY DEF Next
  <2> QED BY MergeLosesLoops, UpdateLosesAKind
<1> QED BY <1>1, NamesStayCurrent, KeysStayKinds, PTL
        DEF Spec, LinksSurvive, OnlyLost
==============================================================================
