-------------------------- MODULE AuthedConnsProofs --------------------------
(***************************************************************************)
(* What the connections leave to the wake lock and to the screen, for any  *)
(* finite number of them, in whatever order they count, change and drop.   *)
(***************************************************************************)
EXTENDS AuthedConns, FiniteSetTheorems, TLAPS

Truth == [conns |-> Cardinality(authed), remotes |-> RemoteCount]

(* Nobody is between a change of the list and the send that follows it.    *)
Quiet == \A c \in Conns : pc[c] \notin {"count", "countRemotes", "send", "remotes", "restore", "clear"}

(* A connection is on the list from its beginning to its end, and only a   *)
(* remote one changes resolutions.                                         *)
Listed ==
  \A c \in Conns :
    /\ pc[c] \in {"open", "displays", "record"} => c \in authed
    /\ pc[c] \in {"displays", "record"} => c \in Remote
    /\ c \in authed => pc[c] \notin {"none", "gone", "remotes", "restore", "clear"}

(* The counts sent last are those of the list when nobody is to send more, *)
(* unless they had been overtaken.                                         *)
LastIsTruth == Quiet /\ ~overtaken /\ queue # <<>> => queue[Len(queue)] = Truth

(* And so is the lock when the thread has handled them all, with the       *)
(* option as it was then.                                                  *)
LockIsTruth ==
  Quiet /\ ~overtaken /\ queue = <<>> /\ cached # "unset" =>
    /\ wakelock # "none" <=> (authed # {} /\ cached = "on")
    /\ ~Linux => (wakelock = "display" <=> (authed \cap Remote # {} /\ cached = "on"))

(* last_display says what the wake lock keeps on.                          *)
LastDisplayIsLock == ~Linux /\ wakelock # "none" => (wakelock = "display" <=> lastDisplay)

(* Resolutions are put back while no remote connection is on the list.     *)
RestoredAlone == (\E c \in Conns : pc[c] \in {"restore", "clear"}) => authed \cap Remote = {}

(* The record is of the screen's own resolution, which it has when there   *)
(* is no record, or when it has just been restored.                        *)
RecordIsNative ==
  /\ recorded \in {"none", "native"}
  /\ recorded = "none" => screen = "native"
  /\ \A c \in Conns :
       /\ pc[c] = "displays" => recorded # "none" \/ original[c] = "native"
       /\ pc[c] = "record" => recorded # "none"
       /\ pc[c] = "clear" => screen = "native"

(* While there is a record there is somebody who will see it restored.     *)
RecordHasOwner ==
  recorded # "none" => \E c \in Remote : c \in authed \/ pc[c] \in {"remotes", "restore", "clear"}

IInv ==
  /\ TypeOK
  /\ Listed
  /\ LastIsTruth
  /\ LockIsTruth
  /\ LastDisplayIsLock
  /\ ~intruded /\ ~refused => RestoredAlone /\ RecordIsNative /\ RecordHasOwner
-----------------------------------------------------------------------------
(* The sets that are counted are finite.                                   *)
LEMMA CountFacts ==
  ASSUME TypeOK
  PROVE  /\ Cardinality(authed) \in 0..Cardinality(Conns)
         /\ RemoteCount \in 0..Cardinality(Conns)
         /\ Cardinality(authed) = 0 <=> authed = {}
         /\ RemoteCount = 0 <=> authed \cap Remote = {}
  <1>1. \A S \in SUBSET Conns : /\ IsFiniteSet(S) /\ Cardinality(S) \in Nat
                                /\ Cardinality(S) <= Cardinality(Conns)
                                /\ Cardinality(S) = 0 <=> S = {}
    BY AuthedAssumption, FS_Subset, FS_CardinalityType, FS_EmptySet
  <1>2. Cardinality(Conns) \in Nat
    BY <1>1
  <1>3. authed \in SUBSET Conns /\ authed \cap Remote \in SUBSET Conns
    BY DEF TypeOK
  <1> QED BY <1>1, <1>2, <1>3 DEF RemoteCount

(* The invariant holds at the beginning.                                   *)
LEMMA InitIInv == Init => IInv
  <1> SUFFICES ASSUME Init PROVE IInv
    OBVIOUS
  <1>1. Cardinality(Conns) \in Nat
    BY AuthedAssumption, FS_CardinalityType
  <1>2. [conns |-> 0, remotes |-> 0] \in Counts
    BY <1>1 DEF Counts
  <1>3. TypeOK
    <2>1. <<>> \in Seq(Counts)
      OBVIOUS
    <2>2. counts \in [Conns -> Counts]
      BY <1>2 DEF Init
    <2> QED BY <2>1, <2>2 DEF Init, TypeOK, PCs, Resolutions
  <1>4. Listed /\ LastIsTruth /\ LockIsTruth /\ LastDisplayIsLock
    BY DEF Init, Listed, LastIsTruth, LockIsTruth, LastDisplayIsLock
  <1>5. RestoredAlone /\ RecordIsNative /\ RecordHasOwner
    BY DEF Init, RestoredAlone, RecordIsNative, RecordHasOwner
  <1> QED BY <1>3, <1>4, <1>5 DEF IInv
-----------------------------------------------------------------------------
(* Every action keeps the types.                                           *)
LEMMA TypeStep ==
  ASSUME TypeOK, [Next]_vars
  PROVE  TypeOK'
  <1> USE DEF TypeOK, Goto, PCs, Resolutions, lockThread, resolution, history
  <1>1. ASSUME NEW c \in Conns, New(c) \/ SecondTick(c) \/ LookUpDisplay(c) \/ Drop(c) PROVE TypeOK'
    <2>1. intruded' \in BOOLEAN
      BY <1>1 DEF New, SecondTick, LookUpDisplay, Drop
    <2> QED BY <1>1, <2>1 DEF New, SecondTick, LookUpDisplay, Drop
  <1>2. ASSUME NEW c \in Conns, CountConns(c) \/ CountRemotes(c) PROVE TypeOK'
    <2>1. PICK m \in Counts : counts' = [counts EXCEPT ![c] = m]
      <3>1. CASE CountConns(c)
        <4>1. 0 \in 0..Cardinality(Conns)
          BY AuthedAssumption, FS_CardinalityType
        <4> QED BY <3>1, <4>1, CountFacts DEF CountConns, Counts
      <3>2. CASE CountRemotes(c)
        <4>1. counts[c].conns \in 0..Cardinality(Conns)
          BY DEF Counts
        <4> QED BY <3>2, <4>1, CountFacts DEF CountRemotes, Counts
      <3> QED BY <1>2, <3>1, <3>2
    <2> QED BY <1>2, <2>1 DEF CountConns, CountRemotes
  <1>3. ASSUME NEW c \in Conns, SendCounts(c) PROVE TypeOK'
    <2>1. queue' \in Seq(Counts)
      BY <1>3 DEF SendCounts
    <2> QED BY <1>3, <2>1 DEF SendCounts
  <1>4. ASSUME NEW c \in Conns,
               \/ SetLastChangedResolution(c) \/ ChangeResolution(c)
               \/ CheckRemotes(c) \/ RestoreScreen(c) \/ RestoreFails(c) \/ ClearRecords(c)
        PROVE  TypeOK'
    <2>1. CASE RestoreFails(c)
      <3>1. refused' \in BOOLEAN
        BY <2>1 DEF RestoreFails
      <3> QED BY <2>1, <3>1 DEF RestoreFails
    <2>2. CASE ~RestoreFails(c)
      BY <1>4, <2>2 DEF SetLastChangedResolution, ChangeResolution, CheckRemotes, RestoreScreen, ClearRecords
    <2> QED BY <2>1, <2>2
  <1>5. CASE HandleCounts
    <2>1. queue' \in Seq(Counts)
      BY <1>5 DEF HandleCounts
    <2>2. wakelock' \in {"none", "system", "display"}
      BY <1>5 DEF HandleCounts
    <2>3. lastDisplay' \in BOOLEAN
      <3> DEFINE display == Head(queue).remotes > 0
      <3>1. /\ display \in BOOLEAN /\ (Linux \/ display) \in BOOLEAN
        OBVIOUS
      <3>2. lastDisplay' \in {lastDisplay, display, Linux \/ display}
        <4> HIDE DEF display
        <4> QED BY <1>5 DEF HandleCounts, display
      <3> HIDE DEF display
      <3> QED BY <3>1, <3>2
    <2> QED BY <1>5, <2>1, <2>2, <2>3 DEF HandleCounts
  <1>6. CASE SetOption \/ UNCHANGED vars
    BY <1>6 DEF SetOption, vars
  <1> QED BY <1>1, <1>2, <1>3, <1>4, <1>5, <1>6 DEF Next, Conn

(* No step takes a connection off the list but its own end.                *)
LEMMA ListedStep ==
  ASSUME IInv, [Next]_vars
  PROVE  Listed'
  <1> USE DEF IInv, TypeOK, Listed, Goto, Remote
  <1>1. ASSUME NEW c \in Conns, New(c) \/ SecondTick(c) \/ LookUpDisplay(c) \/ Drop(c) PROVE Listed'
    BY <1>1 DEF New, SecondTick, LookUpDisplay, Drop
  <1>2. ASSUME NEW c \in Conns, Conn(c) PROVE Listed'
    BY <1>2 DEF Conn, CountConns, CountRemotes, SendCounts, SetLastChangedResolution, ChangeResolution,
       CheckRemotes, RestoreScreen, RestoreFails, ClearRecords
  <1>3. CASE HandleCounts \/ SetOption \/ UNCHANGED vars
    BY <1>3 DEF HandleCounts, SetOption, vars
  <1> QED BY <1>1, <1>2, <1>3 DEF Next
-----------------------------------------------------------------------------
(* The wake lock: counting, sending and handling.                          *)
LEMMA WakeLockStep ==
  ASSUME IInv, TypeOK', [Next]_vars
  PROVE  LastIsTruth' /\ LockIsTruth' /\ LastDisplayIsLock'
  <1> DEFINE Wake == LastIsTruth' /\ LockIsTruth' /\ LastDisplayIsLock'
  <1>1. ASSUME NEW c \in Conns,
               pc'[c] \in {"count", "countRemotes", "send", "remotes", "restore", "clear"},
               UNCHANGED lockThread
        PROVE  Wake
    BY <1>1 DEF IInv, Quiet, LastIsTruth, LockIsTruth, LastDisplayIsLock, lockThread
  <1>2. ASSUME NEW c \in Conns,
               \/ New(c) \/ SecondTick(c) \/ Drop(c) \/ CountConns(c) \/ CountRemotes(c)
               \/ CheckRemotes(c) \/ RestoreScreen(c) \/ RestoreFails(c) \/ ClearRecords(c)
        PROVE  Wake
    <2>1. pc'[c] \in {"count", "countRemotes", "send", "remotes", "restore", "clear"} /\ UNCHANGED lockThread
      BY <1>2 DEF IInv, TypeOK, Goto, New, SecondTick, Drop, CountConns, CountRemotes, CheckRemotes,
         RestoreScreen, RestoreFails, ClearRecords
    <2> QED BY <1>1, <2>1
  <1>3. ASSUME NEW c \in Conns, SendCounts(c) PROVE Wake
    <2>1. queue' # <<>> /\ queue'[Len(queue')] = counts[c]
      BY <1>3 DEF IInv, TypeOK, SendCounts
    <2>2. (~overtaken' => counts[c] = Truth) /\ Truth' = Truth
      BY <1>3 DEF SendCounts, Truth, Remote, RemoteCount
    <2> QED BY <1>3, <2>1, <2>2 DEF IInv, SendCounts, lockThread, LastIsTruth, LockIsTruth, LastDisplayIsLock
  <1>4. ASSUME NEW c \in Conns, LookUpDisplay(c) \/ SetLastChangedResolution(c) \/ ChangeResolution(c)
        PROVE  Wake
    <2>1. /\ UNCHANGED <<kind, authed, queue, lockThread, overtaken>>
          /\ Quiet' => Quiet
      BY <1>4 DEF IInv, TypeOK, Quiet, Goto, history, LookUpDisplay, SetLastChangedResolution, ChangeResolution
    <2> QED BY <2>1 DEF IInv, Truth, Remote, RemoteCount, lockThread, LastIsTruth, LockIsTruth, LastDisplayIsLock
  <1>5. CASE HandleCounts
    <2> DEFINE m == Head(queue)
    <2>1. /\ UNCHANGED <<kind, pc, authed, overtaken>> /\ queue # <<>> /\ queue' = Tail(queue)
          /\ cached' = keepAwake /\ keepAwake \in {"on", "off"} /\ m \in Counts
          /\ queue \in Seq(Counts)
      BY <1>5 DEF IInv, TypeOK, HandleCounts, history
    <2>2. LastIsTruth'
      <3>1. queue' # <<>> => queue'[Len(queue')] = queue[Len(queue)]
        BY <2>1
      <3> QED BY <2>1, <3>1 DEF IInv, LastIsTruth, Quiet, Truth, Remote, RemoteCount
    <2>3. LastDisplayIsLock'
      BY <1>5, AuthedAssumption DEF IInv, TypeOK, HandleCounts, LastDisplayIsLock
    <2>4. /\ wakelock' # "none" <=> (m.conns # 0 /\ keepAwake = "on")
          /\ ~Linux /\ m.conns # 0 /\ keepAwake = "on" => (wakelock' = "display" <=> m.remotes > 0)
      BY <1>5, <2>1, AuthedAssumption DEF IInv, TypeOK, HandleCounts, LastDisplayIsLock
    <2>5. queue' = <<>> => m = queue[Len(queue)]
      <3>1. queue # <<>> /\ queue \in Seq(Counts) => Len(queue) \in Nat \ {0} /\ Len(Tail(queue)) = Len(queue) - 1
        OBVIOUS
      <3>2. queue' = <<>> => Len(queue) = 1
        <4>1. Len(<<>>) = 0
          OBVIOUS
        <4>2. queue' = <<>> => Len(Tail(queue)) = 0
          BY <2>1, <4>1
        <4>3. Len(queue) \in Nat \ {0} /\ Len(Tail(queue)) = Len(queue) - 1
          BY <2>1, <3>1
        <4> QED BY <4>2, <4>3
      <3>3. m = queue[1]
        BY <2>1
      <3> QED BY <3>2, <3>3
    <2>6. LockIsTruth'
      <3> SUFFICES ASSUME Quiet, ~overtaken, queue' = <<>>
                   PROVE  /\ wakelock' # "none" <=> (authed # {} /\ keepAwake = "on")
                          /\ ~Linux => (wakelock' = "display" <=> (authed \cap Remote # {} /\ keepAwake = "on"))
        BY <2>1 DEF LockIsTruth, Quiet, Remote
      <3>1. m = Truth
        BY <2>1, <2>5 DEF IInv, LastIsTruth
      <3>2. m.conns = Cardinality(authed) /\ m.remotes = RemoteCount
        BY <3>1 DEF Truth
      <3>3. m.conns # 0 <=> authed # {}
        BY <3>2, CountFacts DEF IInv
      <3>4. m.remotes > 0 <=> authed \cap Remote # {}
        BY <3>2, CountFacts DEF IInv
      <3> QED BY <2>1, <2>4, <3>3, <3>4
    <2> QED BY <2>2, <2>3, <2>6
  <1>6. CASE SetOption \/ UNCHANGED vars
    <2>1. UNCHANGED <<kind, pc, authed, queue, lockThread, overtaken>>
      BY <1>6 DEF SetOption, vars, lockThread, history
    <2> QED BY <2>1 DEF IInv, lockThread, Quiet, Truth, Remote, RemoteCount, LastIsTruth, LockIsTruth, LastDisplayIsLock
  <1> QED BY <1>2, <1>3, <1>4, <1>5, <1>6 DEF Next, Conn
-----------------------------------------------------------------------------
(* The resolutions: recorded, changed and restored.                        *)
LEMMA ResolutionStep ==
  ASSUME IInv, [Next]_vars, ~intruded', ~refused'
  PROVE  RestoredAlone' /\ RecordIsNative' /\ RecordHasOwner'
  <1> DEFINE Res == RestoredAlone' /\ RecordIsNative' /\ RecordHasOwner'
  <1>1. ~intruded /\ ~refused
    <2>1. ASSUME NEW c \in Conns, New(c) \/ RestoreFails(c) PROVE ~intruded /\ ~refused
      <3>1. CASE New(c)
        <4>1. intruded => intruded'
          BY <3>1, Zenon DEF New
        <4>2. refused' = refused
          BY <3>1 DEF New
        <4> QED BY <4>1, <4>2
      <3>2. CASE RestoreFails(c)
        <4>1. refused => refused'
          BY <3>2, Zenon DEF RestoreFails
        <4>2. intruded' = intruded
          BY <3>2 DEF RestoreFails
        <4> QED BY <4>1, <4>2
      <3> QED BY <2>1, <3>1, <3>2
    <2>2. ASSUME NEW c \in Conns, \/ CountConns(c) \/ CountRemotes(c) \/ SecondTick(c) \/ LookUpDisplay(c)
                                  \/ SetLastChangedResolution(c) \/ ChangeResolution(c) \/ Drop(c)
                                  \/ CheckRemotes(c) \/ RestoreScreen(c) \/ ClearRecords(c)
          PROVE  ~intruded /\ ~refused
      BY <2>2 DEF CountConns, CountRemotes, SecondTick, LookUpDisplay, SetLastChangedResolution,
         ChangeResolution, Drop, CheckRemotes, RestoreScreen, ClearRecords, history
    <2>3. ASSUME NEW c \in Conns, SendCounts(c) PROVE ~intruded /\ ~refused
      BY <2>3 DEF SendCounts
    <2>4. CASE HandleCounts \/ SetOption \/ UNCHANGED vars
      BY <2>4 DEF HandleCounts, SetOption, history, vars
    <2> QED BY <2>1, <2>2, <2>3, <2>4 DEF Next, Conn
  <1>2. Listed /\ RestoredAlone /\ RecordIsNative /\ RecordHasOwner
    BY <1>1 DEF IInv
  <1> USE <1>2 DEF IInv, TypeOK, Listed, RestoredAlone, RecordIsNative, RecordHasOwner, Goto, resolution, Remote
  <1>3. ASSUME NEW c \in Conns, New(c) PROVE Res
    BY <1>3, AuthedAssumption DEF New
  <1>4. ASSUME NEW c \in Conns, SecondTick(c) \/ CountConns(c) \/ CountRemotes(c) \/ SendCounts(c) PROVE Res
    BY <1>4, AuthedAssumption DEF SecondTick, CountConns, CountRemotes, SendCounts
  <1>5. ASSUME NEW c \in Conns, LookUpDisplay(c) PROVE Res
    BY <1>5, AuthedAssumption DEF LookUpDisplay
  <1>6. ASSUME NEW c \in Conns, SetLastChangedResolution(c) PROVE Res
    BY <1>6, AuthedAssumption DEF SetLastChangedResolution, Resolutions
  <1>7. ASSUME NEW c \in Conns, ChangeResolution(c) PROVE Res
    BY <1>7, AuthedAssumption DEF ChangeResolution
  <1>8. ASSUME NEW c \in Conns, Drop(c) PROVE Res
    BY <1>8, AuthedAssumption DEF Drop
  <1>9. ASSUME NEW c \in Conns, CheckRemotes(c) PROVE Res
    <2>1. RemoteCount = 0 <=> authed \cap Remote = {}
      BY CountFacts
    <2> QED BY <1>9, <2>1, AuthedAssumption DEF CheckRemotes
  <1>10. ASSUME NEW c \in Conns, RestoreScreen(c) PROVE Res
    BY <1>10, AuthedAssumption DEF RestoreScreen
  <1>13. ASSUME NEW c \in Conns, RestoreFails(c) PROVE Res
    BY <1>13, AuthedAssumption DEF RestoreFails
  <1>11. ASSUME NEW c \in Conns, ClearRecords(c) PROVE Res
    BY <1>11, AuthedAssumption DEF ClearRecords
  <1>12. CASE HandleCounts \/ SetOption \/ UNCHANGED vars
    BY <1>12 DEF HandleCounts, SetOption, vars
  <1> QED BY <1>3, <1>4, <1>5, <1>6, <1>7, <1>8, <1>9, <1>10, <1>11, <1>12, <1>13 DEF Next, Conn
-----------------------------------------------------------------------------
(* Every step keeps it.                                                    *)
LEMMA NextIInv == IInv /\ [Next]_vars => IInv'
  <1> SUFFICES ASSUME IInv, [Next]_vars PROVE IInv'
    OBVIOUS
  <1>1. TypeOK'
    BY TypeStep DEF IInv
  <1> QED BY <1>1, ListedStep, WakeLockStep, ResolutionStep DEF IInv

(* The invariant the theorems below are read off.                          *)
THEOREM Invariance == Spec => []IInv
  BY InitIInv, NextIInv, PTL DEF Spec

(* Every variable keeps its type, the counts on their way included.        *)
THEOREM TypeCorrect == Spec => []TypeOK
  <1>1. IInv => TypeOK
    BY DEF IInv
  <1> QED BY <1>1, Invariance, PTL

(* When nothing is on its way to the wake lock it keeps awake what the     *)
(* list of connections asks for, unless the counts sent last had been      *)
(* overtaken by a change of the list.                                      *)
THEOREM WakeLockRight == Spec => []WakeLockUnlessOvertaken
  <1>1. IInv => WakeLockUnlessOvertaken
    <2> SUFFICES ASSUME IInv, Settled, cached = keepAwake, ~overtaken PROVE WakeLockMatches
      BY DEF WakeLockUnlessOvertaken
    <2>1. Quiet /\ queue = <<>> /\ cached # "unset"
      BY DEF Settled, Busy, Quiet, IInv, TypeOK
    <2> QED BY <2>1 DEF IInv, LockIsTruth, WakeLockMatches
  <1> QED BY <1>1, Invariance, PTL

(* When the last remote connection is gone the screen has its own          *)
(* resolution and no record is left, unless another one came while they    *)
(* were being restored or one could not be restored.                       *)
THEOREM ScreenRestored == Spec => []RestoredUnlessIntruded
  <1>1. IInv => RestoredUnlessIntruded
    BY AuthedAssumption DEF IInv, Listed, Remote, RecordIsNative, RecordHasOwner, RestoredUnlessIntruded
  <1> QED BY <1>1, Invariance, PTL
=============================================================================
