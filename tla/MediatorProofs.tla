---------------------------- MODULE MediatorProofs ----------------------------
(***************************************************************************)
(* What a restart of the mediator guarantees, for any number of servers,   *)
(* of threads that restart it and of connections; and, in the second part, *)
(* what the tasks it runs guarantee, which is the module Registration.     *)
(***************************************************************************)
EXTENDS Mediator, Registration, TLAPS

(* Tasks live only while start_all joins them, and for the servers it read. *)
TasksAreJoined == \A s \in Servers : task[s] # "none" => pc = "join" /\ s \in using

(* A flag set in this round is up, or this round cleared it.               *)
FlagsUp ==
  /\ "exit" \in since => shouldExit \/ "exit" \in swallowed
  /\ "manual" \in since => manual \/ "manual" \in swallowed

(* Somebody who changed an option will find that it differs from what he   *)
(* saw, or has found that one does.                                        *)
WillRestart ==
  \/ \E r \in Callers : caller[r] = "changed"
  \/ \E s \in Servers : task[s] = "changed"

NoticesStop == WillRestart \/ \E r \in Callers : caller[r] = "set" /\ saw[r].stopped # stopped

NoticesServers ==
  \/ WillRestart
  \/ \E r \in Callers : caller[r] \in {"set", "compare"} /\ saw[r].servers # configured
  \/ \E s \in Servers : task[s] = "updated" /\ v0[s] # configured

(* When what this round has read is out of date, a restart has set its     *)
(* first flag, or somebody will notice; option by option.                  *)
Excused == "exit" \in since \/ reverted

StopIsNoticed ==
  pc \in {"read", "clearExit", "clearManual", "join"} /\ stopped => NoticesStop \/ Excused

ServersAreNoticed ==
  pc \in {"clearExit", "clearManual", "join"} /\ using # configured => NoticesServers \/ Excused

StaleIsNoticed == StopIsNoticed /\ ServersAreNoticed

(* Whoever has set the first flag sets the second.                         *)
SecondFlag ==
  "exit" \in since =>
    \/ "manual" \in since
    \/ \E r \in Callers : caller[r] = "flagged"
    \/ \E s \in Servers : task[s] = "flagged"

IInv ==
  /\ TypeOK
  /\ TasksAreJoined
  /\ FlagsUp
  /\ StaleIsNoticed
  /\ SecondFlag
-----------------------------------------------------------------------------
(* start_all goes on.                                                      *)
LEMMA StartAllStep ==
  ASSUME IInv, StartAll
  PROVE  IInv'
  <1> USE DEF config, scopes, history
  <1>1. TypeOK'
    BY DEF IInv, TypeOK, PCs, TaskPCs, Flags, Lists, StartAll, Head, CloseConnections, ReadServers,
       ClearShouldExit, ClearManualRestarted, JoinAll, LoadManualRestarted, Sleep
  <1>2. CASE \E installing \in BOOLEAN : Head(installing)
    BY <1>1, <1>2 DEF Head, IInv, TasksAreJoined, FlagsUp, StaleIsNoticed, StopIsNoticed,
         ServersAreNoticed, Excused, WillRestart, NoticesStop, NoticesServers,
       SecondFlag
  <1>3. CASE ReadServers
    BY <1>1, <1>3 DEF ReadServers, IInv, TasksAreJoined, FlagsUp, StaleIsNoticed, StopIsNoticed,
         ServersAreNoticed, Excused, WillRestart, NoticesStop, NoticesServers, SecondFlag
  <1>4. CASE ClearShouldExit
    BY <1>1, <1>4 DEF ClearShouldExit, IInv, TasksAreJoined, FlagsUp, StaleIsNoticed,
         StopIsNoticed, ServersAreNoticed, Excused, WillRestart, NoticesStop, NoticesServers,
         SecondFlag
  <1>5. CASE ClearManualRestarted
    <2> USE <1>5 DEF ClearManualRestarted
    <2>1. \A s \in Servers : task[s] = "none"
      BY DEF IInv, TasksAreJoined
    <2>2. TasksAreJoined' /\ FlagsUp'
      BY DEF IInv, TasksAreJoined, FlagsUp
    <2>3. StaleIsNoticed' /\ SecondFlag'
      BY <2>1 DEF IInv, StaleIsNoticed, StopIsNoticed, ServersAreNoticed, Excused, WillRestart,
         NoticesStop, NoticesServers, SecondFlag
    <2> QED BY <1>1, <2>2, <2>3 DEF IInv
  <1>6. CASE JoinAll
    <2> USE <1>6 DEF JoinAll
    <2>1. \A s \in Servers : task[s] # "flagged"
      BY DEF IInv, TasksAreJoined
    <2>2. SecondFlag'
      BY <2>1 DEF IInv, SecondFlag
    <2> QED BY <1>1, <2>2 DEF IInv, TasksAreJoined, FlagsUp, StaleIsNoticed, StopIsNoticed,
         ServersAreNoticed
  <1>7. CASE LoadManualRestarted \/ Sleep
    BY <1>1, <1>7 DEF LoadManualRestarted, Sleep, IInv, TasksAreJoined, FlagsUp, StaleIsNoticed,
         StopIsNoticed, ServersAreNoticed, Excused, WillRestart, NoticesStop, NoticesServers,
       SecondFlag
  <1> QED BY <1>2, <1>3, <1>4, <1>5, <1>6, <1>7 DEF StartAll

(* A step of a task that is not one of restart leaves what is noticed.     *)
LEMMA QuietTask ==
  ASSUME IInv, TypeOK', NEW s \in Servers, NEW at \in TaskPCs \ {"none", "changed", "flagged"},
         task[s] \notin {"none", "updated", "changed", "flagged"}, task' = [task EXCEPT ![s] = at],
         \A x \in Servers \ {s} : v0'[x] = v0[x],
         shouldExit => shouldExit',
         UNCHANGED <<pc, manual, config, using, caller, saw, history>>
  PROVE  IInv'
  <1> USE DEF config, history
  <1>1. task \in [Servers -> TaskPCs]
    BY DEF IInv, TypeOK
  <1>2. TasksAreJoined' /\ FlagsUp'
    BY <1>1 DEF IInv, TasksAreJoined, FlagsUp
  <1>3. WillRestart => WillRestart'
    BY <1>1 DEF WillRestart
  <1>4. (NoticesStop => NoticesStop') /\ (NoticesServers => NoticesServers')
    BY <1>1, <1>3 DEF NoticesStop, NoticesServers
  <1>5. StaleIsNoticed'
    BY <1>4 DEF IInv, StaleIsNoticed, StopIsNoticed, ServersAreNoticed, Excused
  <1>6. SecondFlag'
    BY <1>1 DEF IInv, SecondFlag
  <1> QED BY <1>2, <1>5, <1>6 DEF IInv

(* The first flag of a restart, which excuses everything.                  *)
LEMMA FirstFlag ==
  ASSUME IInv, TypeOK', TasksAreJoined', SetFlagExit, UNCHANGED <<manual, swallowed>>,
         \/ \E r \in Callers : caller'[r] = "flagged"
         \/ \E s \in Servers : task'[s] = "flagged"
  PROVE  IInv'
  BY DEF SetFlagExit, IInv, FlagsUp, StaleIsNoticed, StopIsNoticed, ServersAreNoticed, Excused,
     SecondFlag

(* A task goes on, fails or changes the configuration.                     *)
LEMMA TaskStepLemma ==
  ASSUME IInv, NEW s \in Servers, TaskStep(s) \/ Fails(s) \/ ConfigureUpdate(s)
  PROVE  IInv'
  <1> USE DEF config, scopes, history, Goto
  <1>1. TypeOK'
    <2> USE DEF IInv, TypeOK
    <2>1. CASE Connected(s) \/ Tick(s) \/ Exit(s) \/ Fails(s)
      BY <2>1 DEF TaskPCs, Connected, Tick, Exit, Fails
    <2>2. CASE ConfigureUpdate(s)
      BY <2>2 DEF TaskPCs, Lists, ConfigureUpdate
    <2>3. CASE SetServers(s)
      BY <2>3 DEF TaskPCs, SetServers
    <2>4. CASE CompareServers(s)
      BY <2>4 DEF TaskPCs, Lists, CompareServers
    <2>5. CASE TaskRestarts(s)
      BY <2>5 DEF TaskPCs, Flags, TaskRestarts, SetFlagExit, SetFlagManual
    <2> QED BY <2>1, <2>2, <2>3, <2>4, <2>5 DEF TaskStep
  <1>2. task \in [Servers -> TaskPCs] /\ v0 \in [Servers -> Lists]
    BY DEF IInv, TypeOK
  <1>3. CASE Connected(s) \/ Tick(s) \/ Exit(s) \/ Fails(s) \/ ConfigureUpdate(s)
    <2>1. /\ task[s] \in {"connecting", "running", "leaving"}
          /\ \E at \in {"running", "leaving", "ended", "updating"} : task' = [task EXCEPT ![s] = at]
          /\ shouldExit => shouldExit'
          /\ \A x \in Servers \ {s} : v0'[x] = v0[x]
          /\ UNCHANGED <<pc, manual, config, using, caller, saw, history>>
      BY <1>2, <1>3 DEF Connected, Tick, Exit, Fails, ConfigureUpdate
    <2> QED BY <1>1, <2>1, QuietTask DEF TaskPCs
  <1>4. CASE SetServers(s)
    <2> USE <1>4 DEF SetServers
    <2>1. TasksAreJoined' /\ FlagsUp' /\ SecondFlag'
      BY <1>2 DEF IInv, TasksAreJoined, FlagsUp, SecondFlag
    <2>2. (WillRestart => WillRestart') /\ (NoticesStop => NoticesStop')
      BY <1>2 DEF WillRestart, NoticesStop
    <2>3. StopIsNoticed'
      BY <2>2 DEF IInv, StaleIsNoticed, StopIsNoticed, Excused
    <2>4. CASE configured' = configured
      <3>1. NoticesServers => NoticesServers'
        BY <1>2, <2>2, <2>4 DEF NoticesServers
      <3> QED BY <1>1, <2>1, <2>3, <2>4, <3>1 DEF IInv, StaleIsNoticed, ServersAreNoticed, Excused
    <2>5. CASE configured' # configured
      <3>1. reverted' \/ v0'[s] # configured'
        BY <2>5
      <3>2. task'[s] = "updated"
        BY <1>2
      <3>3. reverted' \/ NoticesServers'
        BY <3>1, <3>2 DEF NoticesServers
      <3> QED BY <1>1, <2>1, <2>3, <3>3 DEF IInv, StaleIsNoticed, ServersAreNoticed, Excused
    <2> QED BY <2>4, <2>5
  <1>5. CASE CompareServers(s)
    <2> USE <1>5 DEF CompareServers
    <2>1. TasksAreJoined' /\ FlagsUp' /\ SecondFlag'
      BY <1>2 DEF IInv, TasksAreJoined, FlagsUp, SecondFlag
    <2>2. v0[s] # configured => WillRestart'
      BY <1>2 DEF WillRestart
    <2>3. (WillRestart => WillRestart') /\ (NoticesStop => NoticesStop')
      BY <1>2 DEF WillRestart, NoticesStop
    <2>4. NoticesServers => NoticesServers'
      BY <1>2, <2>2, <2>3 DEF NoticesServers
    <2> QED BY <1>1, <2>1, <2>3, <2>4 DEF IInv, StaleIsNoticed, StopIsNoticed, ServersAreNoticed, Excused
  <1>6. CASE TaskRestarts(s)
    <2>1. TasksAreJoined'
      BY <1>2, <1>6 DEF TaskRestarts, IInv, TasksAreJoined
    <2>2. CASE task[s] = "changed"
      <3>1. SetFlagExit /\ UNCHANGED <<manual, swallowed>> /\ task'[s] = "flagged"
        BY <1>2, <1>6, <2>2 DEF TaskRestarts
      <3> QED BY <1>1, <2>1, <3>1, FirstFlag
    <2>3. CASE task[s] = "flagged"
      <3> USE <1>6, <2>3 DEF TaskRestarts, SetFlagManual
      <3>1. "manual" \in since' /\ ("exit" \in since <=> "exit" \in since')
        OBVIOUS
      <3>2. FlagsUp' /\ SecondFlag'
        BY <1>2, <3>1 DEF IInv, FlagsUp, SecondFlag
      <3>3. WillRestart => WillRestart'
        BY <1>2 DEF WillRestart
      <3>4. (NoticesStop => NoticesStop') /\ (NoticesServers => NoticesServers')
        BY <1>2, <3>3 DEF NoticesStop, NoticesServers
      <3> QED BY <1>1, <2>1, <3>1, <3>2, <3>4
              DEF IInv, StaleIsNoticed, StopIsNoticed, ServersAreNoticed, Excused
    <2> QED BY <1>6, <2>2, <2>3 DEF TaskRestarts
  <1> QED BY <1>3, <1>4, <1>5, <1>6 DEF TaskStep

(* A thread changes the configuration and restarts the mediator.           *)
LEMMA CallerStepLemma ==
  ASSUME IInv, NEW r \in Callers, NewCheck(r) \/ CallerStep(r)
  PROVE  IInv'
  <1> USE DEF config, scopes, history
  <1>1. TypeOK'
    <2> USE DEF IInv, TypeOK
    <2>1. CASE NewCheck(r)
      <3>1. \E o \in Options : saw' = [saw EXCEPT ![r] = o]
        <4>1. /\ [stopped |-> stopped, servers |-> {}] \in Options
              /\ [stopped |-> saw[r].stopped, servers |-> configured] \in Options
          BY DEF Options, Lists
        <4> QED BY <2>1, <4>1 DEF NewCheck
      <3>2. saw' \in [Callers -> Options]
        BY <3>1
      <3> QED BY <2>1, <3>2 DEF NewCheck, CallerPCs
    <2>2. CASE SetOptions(r)
      BY <2>2 DEF SetOptions, CallerPCs
    <2>3. CASE DropCheck(r)
      BY <2>3 DEF DropCheck, Options, NoOptions, Lists, CallerPCs
    <2>4. CASE CallerRestarts(r)
      BY <2>4 DEF CallerRestarts, SetFlagExit, SetFlagManual, CallerPCs, Flags
    <2> QED BY <2>1, <2>2, <2>3, <2>4 DEF CallerStep
  <1>2. caller \in [Callers -> CallerPCs] /\ saw \in [Callers -> Options]
    BY DEF IInv, TypeOK
  <1>3. CASE NewCheck(r)
    <2>1. /\ UNCHANGED <<pc, shouldExit, manual, config, using, task, v0, history>>
          /\ caller[r] \in {"idle", "checking"}
          /\ \E at \in {"checking", "checked"} : caller' = [caller EXCEPT ![r] = at]
          /\ \A q \in Callers \ {r} : saw'[q] = saw[q]
      BY <1>2, <1>3 DEF NewCheck, Options
    <2>2. TasksAreJoined' /\ FlagsUp' /\ SecondFlag'
      BY <1>2, <2>1 DEF IInv, TasksAreJoined, FlagsUp, SecondFlag
    <2>3. (NoticesStop => NoticesStop') /\ (NoticesServers => NoticesServers')
      BY <1>2, <2>1 DEF WillRestart, NoticesStop, NoticesServers
    <2> QED BY <1>1, <2>1, <2>2, <2>3
            DEF IInv, StaleIsNoticed, StopIsNoticed, ServersAreNoticed, Excused
  <1>4. CASE SetOptions(r)
    <2> USE <1>4 DEF SetOptions
    <2>1. TasksAreJoined' /\ FlagsUp' /\ SecondFlag'
      BY <1>2 DEF IInv, TasksAreJoined, FlagsUp, SecondFlag
    <2>2. caller'[r] = "set" /\ saw' = saw /\ (WillRestart => WillRestart') /\ (Excused => Excused')
      BY <1>2 DEF WillRestart, Excused
    <2>3. StopIsNoticed'
      <3>1. CASE stopped' = stopped
        <4>1. NoticesStop => NoticesStop'
          BY <1>2, <2>2, <3>1 DEF NoticesStop
        <4> QED BY <2>2, <3>1, <4>1 DEF IInv, StaleIsNoticed, StopIsNoticed
      <3>2. CASE stopped' # stopped
        <4>1. reverted' \/ saw'[r].stopped # stopped'
          BY <3>2
        <4> QED BY <2>2, <4>1 DEF StopIsNoticed, NoticesStop, Excused
      <3> QED BY <3>1, <3>2
    <2>4. ServersAreNoticed'
      <3>1. CASE configured' = configured
        <4>1. NoticesServers => NoticesServers'
          BY <1>2, <2>2, <3>1 DEF NoticesServers
        <4> QED BY <2>2, <3>1, <4>1 DEF IInv, StaleIsNoticed, ServersAreNoticed
      <3>2. CASE configured' # configured
        <4>1. reverted' \/ saw'[r].servers # configured'
          BY <3>2
        <4> QED BY <2>2, <4>1 DEF ServersAreNoticed, NoticesServers, Excused
      <3> QED BY <3>1, <3>2
    <2> QED BY <1>1, <2>1, <2>3, <2>4 DEF IInv, StaleIsNoticed
  <1>5. CASE DropCheck(r)
    <2>1. /\ UNCHANGED <<pc, shouldExit, manual, config, using, task, v0, history>>
          /\ caller[r] \in {"set", "compare"}
          /\ \A q \in Callers \ {r} : saw'[q] = saw[q] /\ caller'[q] = caller[q]
      BY <1>2, <1>5 DEF DropCheck
    <2>2. /\ caller[r] = "set" /\ saw[r].stopped # stopped => caller'[r] = "changed"
          /\ caller[r] = "set" /\ saw[r].stopped = stopped => caller'[r] = "compare" /\ saw'[r] = saw[r]
          /\ caller[r] = "compare" /\ saw[r].servers # configured => caller'[r] = "changed"
      BY <1>2, <1>5 DEF DropCheck
    <2>3. TasksAreJoined' /\ FlagsUp' /\ SecondFlag'
      BY <1>2, <2>1 DEF IInv, TasksAreJoined, FlagsUp, SecondFlag
    <2>4. WillRestart => WillRestart'
      BY <2>1 DEF WillRestart
    <2>5. NoticesStop => NoticesStop'
      BY <2>1, <2>2, <2>4 DEF NoticesStop, WillRestart
    <2>6. NoticesServers => NoticesServers'
      BY <2>1, <2>2, <2>4 DEF NoticesServers, WillRestart
    <2> QED BY <1>1, <2>1, <2>3, <2>5, <2>6
            DEF IInv, StaleIsNoticed, StopIsNoticed, ServersAreNoticed, Excused
  <1>6. CASE CallerRestarts(r) /\ caller[r] = "changed"
    <2>1. SetFlagExit /\ UNCHANGED <<manual, swallowed>> /\ caller'[r] = "flagged"
      BY <1>2, <1>6 DEF CallerRestarts
    <2>2. TasksAreJoined'
      BY <1>6 DEF CallerRestarts, IInv, TasksAreJoined
    <2> QED BY <1>1, <2>1, <2>2, FirstFlag
  <1>7. CASE CallerRestarts(r) /\ caller[r] = "flagged"
    <2> USE <1>7 DEF CallerRestarts, SetFlagManual
    <2>1. "manual" \in since' /\ ("exit" \in since <=> "exit" \in since')
      OBVIOUS
    <2>2. TasksAreJoined' /\ FlagsUp' /\ SecondFlag'
      BY <2>1 DEF IInv, TasksAreJoined, FlagsUp, SecondFlag
    <2>3. (NoticesStop => NoticesStop') /\ (NoticesServers => NoticesServers')
      BY <1>2 DEF WillRestart, NoticesStop, NoticesServers
    <2> QED BY <1>1, <2>1, <2>2, <2>3
            DEF IInv, StaleIsNoticed, StopIsNoticed, ServersAreNoticed, Excused
  <1> QED BY <1>3, <1>4, <1>5, <1>6, <1>7 DEF CallerStep, CallerRestarts

(* The connections come and go without touching the rest.                  *)
LEMMA ConnStep ==
  ASSUME IInv, NEW c \in Conns,
         (\E s \in Servers : LetIn(s, c)) \/ Login(c) \/ ChooseSession(c) \/ Leave(c)
  PROVE  IInv'
  <1>1. TypeOK'
    BY DEF IInv, TypeOK, config, scopes, history, LetIn, Login, ChooseSession, Leave
  <1>2. UNCHANGED <<pc, shouldExit, manual, config, using, task, v0, caller, saw, history>>
    BY DEF LetIn, Login, ChooseSession, Leave, scopes
  <1> QED
    BY <1>1, <1>2 DEF IInv, TasksAreJoined, FlagsUp, StaleIsNoticed, StopIsNoticed,
         ServersAreNoticed, Excused, WillRestart, NoticesStop, NoticesServers,
       SecondFlag, config, history
-----------------------------------------------------------------------------
(* The invariant holds at the beginning.                                   *)
LEMMA InitIInv == Init => IInv
  <1> SUFFICES ASSUME Init PROVE IInv
    OBVIOUS
  <1> USE DEF Init
  <1>1. TypeOK
    BY DEF TypeOK, PCs, TaskPCs, Flags, Lists, Options, NoOptions, CallerPCs
  <1> QED BY <1>1 DEF IInv, TasksAreJoined, FlagsUp, StaleIsNoticed, StopIsNoticed,
       ServersAreNoticed, SecondFlag

(* Every step keeps it.                                                    *)
LEMMA NextIInv == IInv /\ [Next]_vars => IInv'
  <1> SUFFICES ASSUME IInv, [Next]_vars PROVE IInv'
    OBVIOUS
  <1>1. CASE StartAll
    BY <1>1, StartAllStep
  <1>2. CASE \E s \in Servers : TaskStep(s) \/ Fails(s) \/ ConfigureUpdate(s)
    BY <1>2, TaskStepLemma
  <1>3. CASE \E r \in Callers : NewCheck(r) \/ CallerStep(r)
    BY <1>3, CallerStepLemma
  <1>4. CASE \/ \E s \in Servers, c \in Conns : LetIn(s, c)
             \/ \E c \in Conns : Login(c) \/ ChooseSession(c) \/ Leave(c)
    BY <1>4, ConnStep
  <1>5. CASE UNCHANGED vars
    BY <1>5 DEF vars, config, scopes, history, IInv, TypeOK, TasksAreJoined, FlagsUp,
       StaleIsNoticed, StopIsNoticed, ServersAreNoticed, Excused, WillRestart, NoticesStop,
         NoticesServers, SecondFlag
  <1> QED BY <1>1, <1>2, <1>3, <1>4, <1>5 DEF Next

(* The invariant the theorems below are read off.                          *)
THEOREM Invariance == Spec => []IInv
  BY InitIInv, NextIInv, PTL DEF Spec

(* Every variable keeps its type.                                          *)
THEOREM TypeCorrect == Spec => []TypeOK
  <1>1. IInv => TypeOK
    BY DEF IInv
  <1> QED BY <1>1, Invariance, PTL

(* A generation of tasks that nobody tells to end serves the configured    *)
(* servers, unless start_all cleared a SHOULD_EXIT set in its own round or *)
(* one of two overlapping changes set back what it had seen.               *)
THEOREM Fresh == Spec => []FreshUnlessSwallowed
  <1>1. IInv => FreshUnlessSwallowed
    BY DEF IInv, FreshUnlessSwallowed, Restarting, FlagsUp, StaleIsNoticed, StopIsNoticed,
         ServersAreNoticed, Excused, WillRestart, NoticesStop, NoticesServers
  <1> QED BY <1>1, Invariance, PTL

(* A round that was restarted does not end with the long pause, unless     *)
(* the second flag is still to come or was cleared in the same round.      *)
THEOREM ShortPause == Spec => LongPauseUnlessRestarted
  <1> DEFINE A == (pc = "online" /\ pc' = "pause") =>
       \/ since = {}
       \/ "manual" \in swallowed
       \/ \E r \in Callers : caller[r] = "flagged"
  <1>1. IInv /\ [Next]_vars => [A]_vars
    <2> SUFFICES ASSUME IInv, Next, pc = "online", pc' = "pause", since # {},
                        "manual" \notin swallowed
                 PROVE  \E r \in Callers : caller[r] = "flagged"
      BY DEF vars
    <2>1. ~manual
      BY DEF Next, StartAll, Head, ReadServers, ClearShouldExit, ClearManualRestarted, JoinAll,
         LoadManualRestarted, Sleep, TaskStep, Connected, Tick, Exit, TaskRestarts, Fails,
         SetServers, CompareServers, ConfigureUpdate, LetIn, NewCheck, CallerStep, SetOptions, DropCheck,
         CallerRestarts, Login, ChooseSession, Leave
    <2>2. "manual" \notin since /\ "exit" \in since
      BY <2>1 DEF IInv, FlagsUp, TypeOK, Flags
    <2>3. \A s \in Servers : task[s] = "none"
      BY DEF IInv, TasksAreJoined
    <2> QED BY <2>2, <2>3 DEF IInv, SecondFlag
  <1>2. Spec => [][A]_vars
    BY <1>1, Invariance, PTL DEF Spec
  <1> QED BY <1>2 DEF LongPauseUnlessRestarted
-----------------------------------------------------------------------------
(***************************************************************************)
(* What the tasks of a generation do: Registration, with its own state     *)
(* beside the Mediator's.                                                  *)
(***************************************************************************)
(* A registration with the local key pair may be on its way, or done.      *)
Sent == sentPk \/ \E h \in Hosts : rtask[h] \in {"send", "sent"}

(* The pair register_pk reads never goes back to the local one.            *)
Pairs ==
  /\ sync \in {"new", "set"} => stored = "local" /\ cache # "root"
  /\ sync \in {"invalidate", "drop"} => stored = "root"
  /\ sync = "drop" => cache # "local"
  /\ \A h \in Hosts :
       /\ reg[h].pk = "root" => Pk = "root"
       /\ \A m \in net[h] : m.type \in {"RegisterPk", "OK"} /\ m.reg.pk = "root" => Pk = "root"

(* No host is left confirmed when the key is not, and nothing is confirmed *)
(* while the id is being changed.                                          *)
NoneLeft ==
  /\ hostConfirmed # {} => keyConfirmed
  /\ Changing => ~keyConfirmed

(* What is on its way, or accepted, was sent; and what was accepted is     *)
(* known, but for an old key pair.                                         *)
Accepted(h) == {r \in Reg : known[h][r.id] = r.pk \/ (r.pk = "local" /\ Pk = "root")}
AcceptedIsKnown ==
  \A h \in Hosts :
    /\ \A m \in net[h] : /\ m.type \in {"RegisterPk", "OK"} => Sent
                         /\ m.type = "OK" => m.reg \in Accepted(h)
    /\ rtask[h] \in {"confirm", "confirmHost"} => Sent /\ reg[h] \in Accepted(h)

(* While the configuration of the root process is taken over its           *)
(* registration stands, unless this process has sent its own.              *)
RootIsKnown ==
  ~Sent => \A h \in Hosts :
    /\ sync \in {"new", "set"} => known[h][RootId] = "root"
    /\ sync \in {"invalidate", "drop"} => (Confirmed(h) => known[h][id] = "root")

(* Who is confirmed knows the id and the key.                              *)
ConfirmedIsKnown == sync = "done" => \A h \in Hosts : Confirmed(h) => known[h][id] = Pk

RInv ==
  /\ RegTypeOK /\ Pairs
  /\ ~crossed => NoneLeft /\ AcceptedIsKnown /\ RootIsKnown /\ ConfirmedIsKnown
-----------------------------------------------------------------------------
(* What a message carries, by its type.                                    *)
LEMMA MessageTypes ==
  /\ \A m \in Msg : m.type \in {"RegisterPk", "OK"} => m.reg \in Reg /\ m.reg.id \in Ids /\ m.reg.pk \in Keys
  /\ \A m \in Msg : m.type = "RegisterPeer" => m.id \in Ids
  /\ \A r \in Reg : [type |-> "RegisterPk", reg |-> r] \in Msg /\ [type |-> "OK", reg |-> r] \in Msg
  /\ \A i \in Ids : [type |-> "RegisterPeer", id |-> i] \in Msg
  /\ \A t \in {"UUID_MISMATCH", "Registered", "RequestPk"} : [type |-> t] \in Msg
  BY DEF Msg, Reg

(* Every step keeps the types.                                             *)
LEMMA RegistrationTypes ==
  ASSUME RegTypeOK, [RegNext]_regVars
  PROVE  RegTypeOK'
  <1> USE RegistrationAssumption DEF RegTypeOK, RegGoto, Send,
       SetKeyConfirmed, Forget, Crossed, confirmed, keys, others, Pk
  <1>1. 0 \in Ids /\ "local" \in Keys /\ [id |-> 0, pk |-> "local"] \in Reg
    BY DEF Ids, Keys, Reg
  <1>2. ASSUME NEW h \in Hosts, CheckSolving(h) PROVE RegTypeOK'
    BY <1>2 DEF CheckSolving
  <1>3. ASSUME NEW h \in Hosts, StoreSent(h) PROVE RegTypeOK'
    BY <1>1, <1>3 DEF StoreSent
  <1>4. ASSUME NEW h \in Hosts, ConfirmKey(h) PROVE RegTypeOK'
    BY <1>4 DEF ConfirmKey
  <1>5. ASSUME NEW h \in Hosts, ConfirmHost(h) PROVE RegTypeOK'
    BY <1>5 DEF ConfirmHost
  <1>6. ASSUME NEW h \in Hosts, Solved(h) PROVE RegTypeOK'
    BY <1>1, <1>6 DEF Solved
  <1>7. ASSUME NEW h \in Hosts, UuidMismatch(h) PROVE RegTypeOK'
    BY <1>7 DEF UuidMismatch
  <1>8. ASSUME NEW h \in Hosts, RegisterPeer(h) PROVE RegTypeOK'
    <2>1. [type |-> "RegisterPeer", id |-> id] \in Msg
      BY MessageTypes
    <2>2. net' \in [Hosts -> SUBSET Msg]
      BY <1>8, <2>1 DEF RegisterPeer
    <2> QED BY <1>8, <2>2 DEF RegisterPeer
  <1>9. ASSUME NEW h \in Hosts, GetKeyPair(h) PROVE RegTypeOK'
    BY <1>9 DEF GetKeyPair, Reg, Keys
  <1>10. ASSUME NEW h \in Hosts, SendRegisterPk(h) PROVE RegTypeOK'
    <2>1. reg' \in [Hosts -> Reg]
      BY <1>10 DEF SendRegisterPk, Reg
    <2>3. [type |-> "RegisterPk", reg |-> reg'[h]] \in Msg
      BY <2>1, MessageTypes
    <2>2. net' \in [Hosts -> SUBSET Msg]
      <3>1. net' = [net EXCEPT ![h] = @ \cup {[type |-> "RegisterPk", reg |-> reg'[h]]}]
        BY <1>10 DEF SendRegisterPk
      <3> QED BY <2>3, <3>1
    <2> QED BY <1>10, <2>1, <2>2 DEF SendRegisterPk
  <1>11. ASSUME NEW h \in Hosts, UpdateId(h) PROVE RegTypeOK'
    BY <1>11 DEF UpdateId, Ids
  <1>12. ASSUME NEW h \in Hosts, NEW m \in net[h], Receive(h, m) \/ Lose(h, m) PROVE RegTypeOK'
    <2>1. m.type = "OK" => m.reg \in Reg
      BY MessageTypes
    <2>2. CASE Receive(h, m)
      <3>1. reg' \in [Hosts -> Reg] /\ net' \in [Hosts -> SUBSET Msg]
        BY <2>1, <2>2 DEF Receive
      <3>2. rtask' \in [Hosts -> {"off", "idle", "checked", "keyPair", "send", "sent",
                                 "confirm", "confirmHost", "solved", "mismatch", "newId"}]
        BY <2>2 DEF Receive
      <3> QED BY <2>2, <3>1, <3>2 DEF Receive
    <2>3. CASE Lose(h, m)
      BY <2>3 DEF Lose
    <2> QED BY <1>12, <2>2, <2>3
  <1>13. ASSUME NEW h \in Hosts, NEW m \in net[h], ServeRegisterPk(h, m) PROVE RegTypeOK'
    <2>1. m.type = "RegisterPk" /\ m \in Msg
      BY <1>13 DEF ServeRegisterPk
    <2>2. m.reg \in Reg /\ m.reg.id \in Ids /\ m.reg.pk \in Keys
      BY <2>1, MessageTypes
    <2>3. net' \in [Hosts -> SUBSET Msg]
      <3>1. [type |-> "OK", reg |-> m.reg] \in Msg /\ [type |-> "UUID_MISMATCH"] \in Msg
        BY <2>2, MessageTypes
      <3> QED BY <1>13, <3>1 DEF ServeRegisterPk, Reply
    <2>4. known' \in [Hosts -> [Ids -> Keys \cup {"none"}]]
      <3>1. known' = known \/ known' = [known EXCEPT ![h][m.reg.id] = m.reg.pk]
        BY <1>13 DEF ServeRegisterPk
      <3>2. known \in [Hosts -> [Ids -> Keys \cup {"none"}]]
        OBVIOUS
      <3> QED BY ONLY <2>2, <3>1, <3>2
    <2> QED BY <1>13, <2>3, <2>4 DEF ServeRegisterPk
  <1>14. ASSUME NEW h \in Hosts, NEW m \in net[h], ServeRegisterPeer(h, m) PROVE RegTypeOK'
    BY <1>14, MessageTypes DEF ServeRegisterPeer, Reply
  <1>15. CASE SetIdUnconfirm \/ SetId \/ ForceUpdatePk
    <2>1. CASE SetIdUnconfirm
      <3>1. changes' \in 0..MaxChanges
        <4>1. changes \in 0..MaxChanges /\ changes < MaxChanges /\ changes' = changes + 1 /\ MaxChanges \in Nat
          BY <2>1 DEF SetIdUnconfirm
        <4> QED BY ONLY <4>1
      <3>2. keyConfirmed' = FALSE /\ hostConfirmed' \subseteq Hosts
        BY <2>1 DEF SetIdUnconfirm
      <3> QED BY <2>1, <3>1, <3>2 DEF SetIdUnconfirm
    <2>2. CASE SetId
      BY <2>2 DEF SetId
    <2>3. CASE ForceUpdatePk
      <3>1. changes' \in 0..MaxChanges
        <4>1. changes \in 0..MaxChanges /\ changes < MaxChanges /\ changes' = changes + 1 /\ MaxChanges \in Nat
          BY <2>3 DEF ForceUpdatePk
        <4> QED BY ONLY <4>1
      <3>2. keyConfirmed' = FALSE /\ hostConfirmed' \subseteq Hosts
        BY <2>3 DEF ForceUpdatePk
      <3> QED BY <2>3, <3>1, <3>2 DEF ForceUpdatePk
    <2> QED BY <1>15, <2>1, <2>2, <2>3
  <1>16. CASE Sync
    <2>1. CASE SyncNew
      BY <2>1 DEF SyncNew
    <2>2. CASE SyncSet
      <3>1. RootId \in Ids /\ "root" \in Keys
        BY DEF Keys
      <3> QED BY <2>2, <3>1 DEF SyncSet
    <2>3. CASE SyncInvalidate
      BY <2>3 DEF SyncInvalidate, Keys
    <2>4. CASE SyncDrop
      BY <2>4 DEF SyncDrop
    <2> QED BY <1>16, <2>1, <2>2, <2>3, <2>4 DEF Sync
  <1>17. CASE UNCHANGED regVars
    BY <1>17 DEF regVars
  <1> QED BY <1>2, <1>3, <1>4, <1>5, <1>6, <1>7, <1>8, <1>9, <1>10, <1>11, <1>12, <1>13, <1>14,
       <1>15, <1>16, <1>17
          DEF RegNext, Task, ServeRegistrations, ServePeers

(* What a step does to the registrations made, sent and accepted.          *)
LEMMA MessageSteps ==
  ASSUME RegTypeOK, NEW h \in Hosts, Task(h) \/ (\E m \in net[h] : Receive(h, m) \/ Lose(h, m))
                                  \/ ServeRegistrations(h) \/ ServePeers(h)
  PROVE  /\ \A g \in Hosts : g # h => reg'[g] = reg[g] /\ net'[g] = net[g] /\ rtask'[g] = rtask[g]
         /\ \/ reg'[h] = [id |-> 0, pk |-> "local"]
            \/ reg'[h].pk \in {Pk, reg[h].pk}
            \/ \E m \in net[h] : m.type = "OK" /\ reg'[h] = m.reg
         /\ \A m \in net'[h] : m.type \in {"RegisterPk", "OK"} =>
              \/ m \in net[h]
              \/ m = [type |-> "RegisterPk", reg |-> reg'[h]] /\ reg'[h].pk = reg[h].pk /\ rtask'[h] = "sent"
              \/ /\ m.type = "OK"
                 /\ \E n \in net[h] : n.type = "RegisterPk" /\ n.reg = m.reg /\ ServeRegisterPk(h, n)
  <1> USE DEF RegTypeOK, RegGoto, Send, Forget
  <1>1. CASE Task(h) 
    <2>1. \A g \in Hosts : g # h => reg'[g] = reg[g] /\ net'[g] = net[g] /\ rtask'[g] = rtask[g]
      BY <1>1 DEF Task, CheckSolving, RegisterPeer, GetKeyPair, SendRegisterPk,
           StoreSent, ConfirmKey,
         ConfirmHost, Solved, UuidMismatch, UpdateId
    <2>2. CASE CheckSolving(h) \/ ConfirmKey(h) \/ ConfirmHost(h) \/ UuidMismatch(h) \/ UpdateId(h)
      <3>1. reg' = reg /\ net' = net
        BY <2>2 DEF CheckSolving, ConfirmKey, ConfirmHost, UuidMismatch, UpdateId
      <3> QED BY <2>1, <3>1
    <2>6. CASE RegisterPeer(h)
      <3>1. reg' = reg /\ (net' = net \/ net' = [net EXCEPT ![h] = @ \cup {[type |-> "RegisterPeer", id |-> id]}])
        BY <2>6 DEF RegisterPeer
      <3> QED BY <2>1, <3>1
    <2>3. CASE StoreSent(h) \/ Solved(h)
      BY <2>1, <2>3 DEF StoreSent, Solved
    <2>4. CASE GetKeyPair(h)
      BY <2>1, <2>4 DEF GetKeyPair, Reg
    <2>5. CASE SendRegisterPk(h)
      <3>1. reg'[h].pk = reg[h].pk
        BY <2>5 DEF SendRegisterPk, Reg
      <3> QED BY <2>1, <2>5, <3>1 DEF SendRegisterPk
    <2> QED BY <1>1, <2>2, <2>3, <2>4, <2>5, <2>6 DEF Task
  <1>2. ASSUME NEW m \in net[h], Receive(h, m) \/ Lose(h, m)
        PROVE  /\ \A g \in Hosts : g # h => reg'[g] = reg[g] /\ net'[g] = net[g] /\ rtask'[g] = rtask[g]
               /\ reg'[h] = reg[h] \/ (m.type = "OK" /\ reg'[h] = m.reg)
               /\ net'[h] \subseteq net[h]
    BY <1>2 DEF Receive, Lose
  <1>3. CASE ServeRegistrations(h)
    <2>1. PICK n \in net[h] : ServeRegisterPk(h, n)
      BY <1>3 DEF ServeRegistrations
    <2>2. /\ reg' = reg /\ rtask' = rtask /\ \A g \in Hosts : g # h => net'[g] = net[g]
          /\ n.type = "RegisterPk"
          /\ \A m \in net'[h] : m \in net[h] \/ m = [type |-> "UUID_MISMATCH"] \/ m = [type |-> "OK", reg |-> n.reg]
      BY <2>1 DEF ServeRegisterPk, Reply
    <2> QED BY <2>1, <2>2
  <1>4. CASE ServePeers(h)
    BY <1>4 DEF ServePeers, ServeRegisterPeer, Reply
  <1> QED BY <1>1, <1>2, <1>3, <1>4

(* What the network and a server do to a host.                             *)
Answers(h) ==
  \/ \E m \in net[h] : Receive(h, m) \/ Lose(h, m)
  \/ ServeRegistrations(h)
  \/ ServePeers(h)

(* Nothing else makes registrations.                                       *)
LEMMA PkSteps ==
  ASSUME RegTypeOK, Pairs, [RegNext]_regVars
  PROVE  /\ Pk = "root" => Pk' = "root"
         /\ sync' = sync => Pk' = Pk
         /\ sync = "invalidate" /\ sync' # "invalidate" => Pk' = "root"
  <1> USE DEF RegTypeOK, Pairs, Pk, Keys
  <1>1. ASSUME NEW h \in Hosts, Task(h)
        PROVE  Pk' = Pk /\ sync' = sync
    BY <1>1 DEF Task, CheckSolving, RegisterPeer, GetKeyPair, SendRegisterPk,
         StoreSent, ConfirmKey,
         ConfirmHost, Solved, UuidMismatch, UpdateId, keys, others
  <1>2. ASSUME NEW h \in Hosts, Answers(h)
        PROVE  Pk' = Pk /\ sync' = sync
    BY <1>2 DEF Answers, Receive, Lose, ServeRegistrations, ServePeers,
         ServeRegisterPk, ServeRegisterPeer, keys, others
  <1>3. CASE SetIdUnconfirm \/ SetId \/ ForceUpdatePk
    BY <1>3 DEF SetIdUnconfirm, SetId, ForceUpdatePk, keys
  <1>4. CASE Sync
    BY <1>4 DEF Sync, SyncNew, SyncSet, SyncInvalidate, SyncDrop, keys
  <1>5. CASE UNCHANGED regVars
    BY <1>5 DEF regVars
  <1> QED BY <1>1, <1>2, <1>3, <1>4, <1>5 DEF Answers, RegNext

(* No step goes back to the local key pair.                                *)
LEMMA PairsStep ==
  ASSUME RegTypeOK, Pairs, [RegNext]_regVars
  PROVE  Pairs'
  <1>1. /\ sync' \in {"new", "set"} => stored' = "local" /\ cache' # "root"
        /\ sync' \in {"invalidate", "drop"} => stored' = "root"
        /\ sync' = "drop" => cache' # "local"
    <2> USE DEF RegTypeOK, Pairs, Pk, Keys
    <2>1. ASSUME NEW h \in Hosts, Task(h)
          PROVE  sync' = sync /\ stored' = stored /\ cache' \in {cache, Pk}
      BY <2>1 DEF Task, CheckSolving, RegisterPeer, GetKeyPair, SendRegisterPk,
           StoreSent, ConfirmKey,
         ConfirmHost, Solved, UuidMismatch, UpdateId, keys, others
    <2>2. ASSUME NEW h \in Hosts, Answers(h)
          PROVE  sync' = sync /\ UNCHANGED keys
      BY <2>2 DEF Answers, Receive, Lose, ServeRegistrations, ServePeers,
           ServeRegisterPk, ServeRegisterPeer, others
    <2>3. CASE SetIdUnconfirm \/ SetId \/ ForceUpdatePk
      BY <2>3 DEF SetIdUnconfirm, SetId, ForceUpdatePk, keys
    <2>4. CASE Sync
      BY <2>4 DEF Sync, SyncNew, SyncSet, SyncInvalidate, SyncDrop, keys
    <2>5. CASE UNCHANGED regVars
      BY <2>5 DEF regVars
    <2> QED BY <2>1, <2>2, <2>3, <2>4, <2>5 DEF Answers, RegNext, keys
  <1>2. ASSUME NEW g \in Hosts
        PROVE  /\ reg'[g].pk = "root" => Pk' = "root"
               /\ \A m \in net'[g] : m.type \in {"RegisterPk", "OK"} /\ m.reg.pk = "root" => Pk' = "root"
    <2>1. Pk = "root" => Pk' = "root"
      BY PkSteps
    <2>2. /\ reg[g].pk = "root" => Pk = "root"
          /\ \A m \in net[g] : m.type \in {"RegisterPk", "OK"} /\ m.reg.pk = "root" => Pk = "root"
      BY DEF Pairs
    <2>3. ASSUME NEW h \in Hosts, Task(h) \/ (\E m \in net[h] : Receive(h, m) \/ Lose(h, m))
                                  \/ ServeRegistrations(h) \/ ServePeers(h)
          PROVE  /\ reg'[g].pk = "root" => Pk = "root"
                 /\ \A m \in net'[g] : m.type \in {"RegisterPk", "OK"} /\ m.reg.pk = "root" => Pk = "root"
      <3>1. CASE g # h
        BY <2>2, <2>3, <3>1, MessageSteps
      <3>2. CASE g = h
        <4>1. reg'[h].pk = "root" => Pk = "root"
          <5>1. \/ reg'[h] = [id |-> 0, pk |-> "local"]
                \/ reg'[h].pk \in {Pk, reg[h].pk}
                \/ \E m \in net[h] : m.type = "OK" /\ reg'[h] = m.reg
            BY <2>3, MessageSteps
          <5> QED BY <2>2, <3>2, <5>1
        <4>2. ASSUME NEW m \in net'[h], m.type \in {"RegisterPk", "OK"}, m.reg.pk = "root"
              PROVE  Pk = "root"
          <5>1. \/ m \in net[h]
                \/ m = [type |-> "RegisterPk", reg |-> reg'[h]] /\ reg'[h].pk = reg[h].pk
                \/ \E n \in net[h] : n.type = "RegisterPk" /\ n.reg = m.reg
            BY <2>3, <4>2, MessageSteps
          <5> QED BY <2>2, <3>2, <4>2, <5>1
        <4> QED BY <3>2, <4>1, <4>2
      <3> QED BY <3>1, <3>2
    <2>4. CASE SetIdUnconfirm \/ SetId \/ ForceUpdatePk \/ Sync \/ UNCHANGED regVars
      <3>1. net' = net /\ reg' = reg
        BY <2>4 DEF SetIdUnconfirm, SetId, ForceUpdatePk, Sync, SyncNew, SyncSet,
             SyncInvalidate, SyncDrop, regVars
      <3> QED BY <2>1, <2>2, <3>1
    <2> QED BY <2>1, <2>3, <2>4 DEF RegNext
  <1> QED BY <1>1, <1>2 DEF Pairs

(* No step leaves a host confirmed while the key is not.                   *)
LEMMA NoneLeftStep ==
  ASSUME RegTypeOK, NoneLeft, [RegNext]_regVars, ~crossed'
  PROVE  NoneLeft'
  <1> USE DEF RegTypeOK, NoneLeft, Changing, Locked, Crossed, SetKeyConfirmed, RegGoto,
       confirmed, others
  <1>1. ASSUME NEW h \in Hosts, CheckSolving(h) \/ RegisterPeer(h) \/ GetKeyPair(h) \/ SendRegisterPk(h)
                                \/ StoreSent(h) \/ Solved(h) \/ UpdateId(h)
        PROVE  NoneLeft'
    BY <1>1 DEF CheckSolving, RegisterPeer, GetKeyPair, SendRegisterPk, StoreSent,
         Solved, UpdateId
  <1>2. ASSUME NEW h \in Hosts, ConfirmKey(h) \/ ConfirmHost(h) PROVE NoneLeft'
    BY <1>2 DEF ConfirmKey, ConfirmHost
  <1>3. ASSUME NEW h \in Hosts, UuidMismatch(h) PROVE NoneLeft'
    BY <1>3 DEF UuidMismatch
  <1>4. ASSUME NEW h \in Hosts, Answers(h)
        PROVE  NoneLeft'
    <2>1. ASSUME ServeRegistrations(h) \/ ServePeers(h)
          PROVE  UNCHANGED <<confirmed, setter, rtask>>
      BY <2>1 DEF ServeRegistrations, ServePeers, ServeRegisterPk, ServeRegisterPeer
    <2>2. ASSUME NEW m \in net[h], Receive(h, m) \/ Lose(h, m)
          PROVE  UNCHANGED <<confirmed, setter>> /\ \A g \in Hosts : rtask'[g] = "newId" => rtask[g] = "newId"
      BY <2>2 DEF Receive, Lose
    <2> QED BY <1>4, <2>1, <2>2 DEF Answers
  <1>5. CASE SetIdUnconfirm \/ SetId \/ ForceUpdatePk
    BY <1>5 DEF SetIdUnconfirm, SetId, ForceUpdatePk
  <1>6. CASE Sync
    BY <1>6 DEF Sync, SyncNew, SyncSet, SyncInvalidate, SyncDrop
  <1>7. CASE UNCHANGED regVars
    BY <1>7 DEF regVars
  <1> QED BY <1>1, <1>2, <1>3, <1>4, <1>5, <1>6, <1>7 DEF Answers, RegNext, Task

(* Every step but a server's leaves its table, and an accepted             *)
(* registration that is out of date counts as crossed.                     *)
LEMMA KnownSteps ==
  ASSUME RegTypeOK, [RegNext]_regVars, ~crossed'
  PROVE  /\ ~crossed
         /\ \/ known' = known
            \/ /\ UNCHANGED <<id, keys, confirmed, sentPk, rtask, reg, others>>
               /\ \E h \in Hosts : \E m \in net[h] : /\ m.type = "RegisterPk"
                                                    /\ known' = [known EXCEPT ![h][id] = Pk]
  <1> USE DEF Crossed, RegTypeOK
  <1>1. ASSUME NEW h \in Hosts, Task(h)
        PROVE  ~crossed /\ known' = known
    BY <1>1 DEF Task, CheckSolving, RegisterPeer, GetKeyPair, SendRegisterPk,
         StoreSent, ConfirmKey,
         ConfirmHost, Solved, UuidMismatch, UpdateId
  <1>2. ASSUME NEW h \in Hosts, (\E m \in net[h] : Receive(h, m) \/ Lose(h, m)) \/ ServePeers(h)
        PROVE  ~crossed /\ known' = known
    BY <1>2 DEF Receive, Lose, ServePeers, ServeRegisterPeer
  <1>3. ASSUME NEW h \in Hosts, NEW m \in net[h], ServeRegisterPk(h, m)
        PROVE  /\ ~crossed
               /\ \/ known' = known
                  \/ known' = [known EXCEPT ![h][id] = Pk]
               /\ UNCHANGED <<id, keys, confirmed, sentPk, rtask, reg, others>> /\ m.type = "RegisterPk"
    <2>1. CASE m.reg.id \in Taken
      BY <1>3, <2>1 DEF ServeRegisterPk
    <2>2. CASE m.reg.id \notin Taken
      <3>1. /\ m.reg = Current /\ known' = [known EXCEPT ![h][m.reg.id] = m.reg.pk] /\ ~crossed
        BY <1>3, <2>2 DEF ServeRegisterPk
      <3>2. m.reg.id = id /\ m.reg.pk = Pk
        BY <3>1 DEF Current
      <3> QED BY <1>3, <3>1, <3>2 DEF ServeRegisterPk
    <2> QED BY <2>1, <2>2
  <1>4. CASE SetIdUnconfirm \/ SetId \/ ForceUpdatePk \/ Sync \/ UNCHANGED regVars
    BY <1>4 DEF SetIdUnconfirm, SetId, ForceUpdatePk, Sync, SyncNew, SyncSet,
         SyncInvalidate, SyncDrop, regVars
  <1> QED BY <1>1, <1>2, <1>3, <1>4 DEF RegNext, ServeRegistrations

(* What was sent is not forgotten.                                         *)
LEMMA SentStays ==
  ASSUME RegTypeOK, [RegNext]_regVars, Sent
  PROVE  Sent'
  <1> USE DEF Sent, RegTypeOK, RegGoto
  <1>1. ASSUME NEW h \in Hosts, StoreSent(h) PROVE Sent'
    BY <1>1 DEF StoreSent
  <1>2. ASSUME NEW h \in Hosts, SendRegisterPk(h) PROVE Sent'
    BY <1>2 DEF SendRegisterPk
  <1>3. ASSUME NEW h \in Hosts, CheckSolving(h) \/ RegisterPeer(h) \/ GetKeyPair(h)
                                \/ ConfirmKey(h) \/ ConfirmHost(h) \/ Solved(h) \/ UuidMismatch(h) \/ UpdateId(h)
        PROVE  Sent'
    <2>1. sentPk' = sentPk /\ \A g \in Hosts : rtask[g] \in {"send", "sent"} => rtask'[g] = rtask[g]
      BY <1>3 DEF CheckSolving, RegisterPeer, GetKeyPair, ConfirmKey, ConfirmHost,
           Solved, UuidMismatch, UpdateId
    <2> QED BY <2>1
  <1>4. ASSUME NEW h \in Hosts, NEW m \in net[h], Receive(h, m) \/ Lose(h, m)
        PROVE  Sent'
    <2>1. sentPk' = sentPk /\ \A g \in Hosts : rtask[g] \in {"send", "sent"} => rtask'[g] = rtask[g]
      BY <1>4 DEF Receive, Lose
    <2> QED BY <2>1
  <1>5. ASSUME NEW h \in Hosts, ServeRegistrations(h) \/ ServePeers(h)
        PROVE  sentPk' = sentPk /\ rtask' = rtask
    BY <1>5 DEF ServeRegistrations, ServePeers, ServeRegisterPk, ServeRegisterPeer
  <1>6. CASE SetIdUnconfirm \/ SetId \/ ForceUpdatePk \/ Sync \/ UNCHANGED regVars
    BY <1>6 DEF SetIdUnconfirm, SetId, ForceUpdatePk, Sync, SyncNew, SyncSet,
         SyncInvalidate, SyncDrop, regVars
  <1> QED BY <1>1, <1>2, <1>3, <1>4, <1>5, <1>6 DEF RegNext, Task

(* An accepted registration stays so, unless a server was told another     *)
(* meanwhile, which counts as crossed.                                     *)
LEMMA AcceptedStays ==
  ASSUME RegTypeOK, Pairs, [RegNext]_regVars, ~crossed', NEW g \in Hosts, NEW r \in Reg, r.pk = "root" => Pk = "root",
         r \in Accepted(g)
  PROVE  r \in Accepted(g)'
  <1> SUFFICES known'[g][r.id] = r.pk \/ (r.pk = "local" /\ Pk' = "root")
    BY DEF Accepted
  <1>1. r.id \in Ids /\ r.pk \in Keys /\ Pk \in Keys
    BY DEF Reg, RegTypeOK, Pk, Keys
  <1>2. Pk = "root" => Pk' = "root"
    BY PkSteps
  <1>3. CASE known' = known
    BY <1>2, <1>3 DEF Accepted
  <1>4. ASSUME NEW h \in Hosts, known' = [known EXCEPT ![h][id] = Pk]
        PROVE  known'[g][r.id] = r.pk \/ (r.pk = "local" /\ Pk' = "root")
    <2>1. known'[g][r.id] = IF g = h /\ r.id = id THEN Pk ELSE known[g][r.id]
      BY <1>1, <1>4 DEF RegTypeOK
    <2> QED BY <1>1, <1>2, <2>1 DEF Accepted, Keys
  <1> QED BY <1>3, <1>4, KnownSteps

(* Nothing is on its way that was not sent, and nothing is confirmed that  *)
(* was not accepted.                                                       *)
LEMMA AcceptedStep ==
  ASSUME RegTypeOK, Pairs, AcceptedIsKnown, [RegNext]_regVars, ~crossed'
  PROVE  AcceptedIsKnown'
  <1> SUFFICES ASSUME NEW g \in Hosts
               PROVE  /\ \A m \in net'[g] : m.type \in {"RegisterPk", "OK"} => Sent'
                      /\ \A m \in net'[g] : m.type = "OK" => m.reg \in Accepted(g)'
                      /\ rtask'[g] \in {"confirm", "confirmHost"} => Sent' /\ reg'[g] \in Accepted(g)'
    BY DEF AcceptedIsKnown
  (* What is old stays.                                                    *)
  <1>1. ASSUME NEW m \in net[g], m.type = "OK"
        PROVE  Sent' /\ (m.reg \in Accepted(g)')
    <2>1. m.reg \in Reg
      BY <1>1, MessageTypes DEF RegTypeOK
    <2>2. Sent /\ m.reg \in Accepted(g) /\ (m.reg.pk = "root" => Pk = "root")
      BY <1>1 DEF AcceptedIsKnown, Pairs
    <2> QED BY <2>1, <2>2, SentStays, AcceptedStays
  <1>2. ASSUME NEW m \in net[g], m.type \in {"RegisterPk", "OK"}
        PROVE  Sent'
    BY <1>2, SentStays DEF AcceptedIsKnown
  <1>3. ASSUME rtask[g] \in {"confirm", "confirmHost"}
        PROVE  Sent' /\ reg[g] \in Accepted(g)'
    <2>1. reg[g] \in Reg
      BY DEF RegTypeOK
    <2>2. Sent /\ reg[g] \in Accepted(g) /\ (reg[g].pk = "root" => Pk = "root")
      BY <1>3 DEF AcceptedIsKnown, Pairs
    <2> QED BY <2>1, <2>2, SentStays, AcceptedStays
  <1>4. ASSUME rtask'[g] \in {"confirm", "confirmHost"}
        PROVE  \/ rtask[g] \in {"confirm", "confirmHost"} /\ reg'[g] = reg[g]
               \/ \E m \in net[g] : m.type = "OK" /\ reg'[g] = m.reg
    <2> USE DEF RegTypeOK, RegGoto, Forget
    <2>1. ASSUME NEW h \in Hosts, Task(h)
          PROVE  rtask[g] \in {"confirm", "confirmHost"} /\ reg'[g] = reg[g]
      <3>1. CASE CheckSolving(h) \/ RegisterPeer(h) \/ StoreSent(h) \/ Solved(h) \/ UuidMismatch(h) \/ UpdateId(h)
        BY <1>4, <3>1 DEF CheckSolving, RegisterPeer, StoreSent, Solved,
             UuidMismatch, UpdateId
      <3>2. CASE GetKeyPair(h) \/ SendRegisterPk(h)
        <4>1. rtask'[h] \in {"send", "sent"} /\ \A d \in Hosts : d # h => rtask'[d] = rtask[d] /\ reg'[d] = reg[d]
          BY <3>2 DEF GetKeyPair, SendRegisterPk
        <4> QED BY <1>4, <4>1
      <3>3. CASE ConfirmKey(h) \/ ConfirmHost(h)
        BY <1>4, <3>3 DEF ConfirmKey, ConfirmHost
      <3> QED BY <2>1, <3>1, <3>2, <3>3 DEF Task
    <2>2. ASSUME NEW h \in Hosts, NEW m \in net[h], Receive(h, m) \/ Lose(h, m)
          PROVE  \/ rtask[g] \in {"confirm", "confirmHost"} /\ reg'[g] = reg[g]
                 \/ \E n \in net[g] : n.type = "OK" /\ reg'[g] = n.reg
      BY <1>4, <2>2 DEF Receive, Lose
    <2>3. ASSUME NEW h \in Hosts, ServeRegistrations(h) \/ ServePeers(h)
          PROVE  reg' = reg /\ rtask' = rtask
      BY <2>3 DEF ServeRegistrations, ServePeers, ServeRegisterPk, ServeRegisterPeer
    <2>4. CASE SetIdUnconfirm \/ SetId \/ ForceUpdatePk \/ Sync \/ UNCHANGED regVars
      BY <1>4, <2>4 DEF SetIdUnconfirm, SetId, ForceUpdatePk, Sync, SyncNew,
           SyncSet, SyncInvalidate, SyncDrop, regVars
    <2> QED BY <1>4, <2>1, <2>2, <2>3, <2>4 DEF RegNext
  <1>5. ASSUME NEW m \in net'[g], m.type \in {"RegisterPk", "OK"}, m \notin net[g]
        PROVE  /\ Sent'
               /\ m.type = "OK" => m.reg \in Accepted(g)'
    <2>1. PICK h \in Hosts : Task(h) \/ (\E n \in net[h] : Receive(h, n) \/ Lose(h, n))
                                  \/ ServeRegistrations(h) \/ ServePeers(h)
      BY <1>5 DEF RegNext, SetIdUnconfirm, SetId, ForceUpdatePk, Sync, SyncNew,
           SyncSet, SyncInvalidate, SyncDrop, regVars
    <2>2. g = h
      BY <1>5, <2>1, MessageSteps
    <2>3. \/ m = [type |-> "RegisterPk", reg |-> reg'[h]] /\ rtask'[h] = "sent"
          \/ m.type = "OK" /\ \E n \in net[h] : n.type = "RegisterPk" /\ n.reg = m.reg /\ ServeRegisterPk(h, n)
      BY <1>5, <2>1, <2>2, MessageSteps
    <2>4. ASSUME NEW n \in net[h], n.type = "RegisterPk", n.reg = m.reg, ServeRegisterPk(h, n)
          PROVE  Sent' /\ m.reg \in Accepted(g)'
      <3>1. Sent'
        BY <1>2, <2>2, <2>4
      <3>2. n.reg \in Reg /\ n.reg.id \in Ids /\ n.reg.pk \in Keys
        BY <2>4, MessageTypes DEF RegTypeOK
      <3>3. n.reg.id \notin Taken
        <4>1. ASSUME n.reg.id \in Taken
              PROVE  m = [type |-> "UUID_MISMATCH"]
          BY <1>5, <2>2, <2>4, <4>1 DEF ServeRegisterPk, Reply, RegTypeOK
        <4> QED BY <1>5, <4>1
      <3>4. known' = [known EXCEPT ![h][n.reg.id] = n.reg.pk]
        BY <2>4, <3>3 DEF ServeRegisterPk
      <3>5. known'[g][m.reg.id] = m.reg.pk
        BY <2>2, <2>4, <3>2, <3>4 DEF RegTypeOK
      <3> QED BY <2>4, <3>1, <3>2, <3>5 DEF Accepted
    <2> QED BY <2>2, <2>3, <2>4 DEF Sent
  <1> QED BY <1>1, <1>2, <1>3, <1>4, <1>5

(* While nobody is changing it the id stays; the confirmations only grow   *)
(* by a host that was answered, or by taking over the root's.              *)
LEMMA ConfirmedSteps ==
  ASSUME RegTypeOK, NoneLeft, [RegNext]_regVars, ~crossed', NEW g \in Hosts, Confirmed(g)', sync' # "invalidate" \/ sync = sync'
  PROVE  /\ id' = id
         /\ \/ Confirmed(g)
            \/ /\ rtask[g] = "confirmHost" /\ reg[g] = Current /\ reg[g].pk = stored
               /\ UNCHANGED <<keys, sync, known>>
  <1> USE DEF RegTypeOK, Confirmed, NoneLeft, Changing, Locked, confirmed, others,
       RegGoto, Crossed
  <1>1. ASSUME NEW h \in Hosts, UpdateId(h) PROVE FALSE
    BY <1>1 DEF UpdateId
  <1>2. ASSUME NEW h \in Hosts, ConfirmKey(h) PROVE id' = id /\ Confirmed(g)
    BY <1>2 DEF ConfirmKey, SetKeyConfirmed
  <1>3. ASSUME NEW h \in Hosts, ConfirmHost(h)
        PROVE  /\ id' = id /\ UNCHANGED <<keys, sync, known>>
               /\ Confirmed(g) \/ (rtask[g] = "confirmHost" /\ reg[g] = Current /\ reg[g].pk = stored)
    BY <1>3 DEF ConfirmHost, Outdated, keys
  <1>4. ASSUME NEW h \in Hosts, UuidMismatch(h) PROVE id' = id /\ Confirmed(g)
    BY <1>4 DEF UuidMismatch, SetKeyConfirmed
  <1>5. ASSUME NEW h \in Hosts, CheckSolving(h) \/ RegisterPeer(h) \/ GetKeyPair(h) \/ SendRegisterPk(h)
                                \/ StoreSent(h) \/ Solved(h)
        PROVE  id' = id /\ UNCHANGED confirmed
    BY <1>5 DEF CheckSolving, RegisterPeer, GetKeyPair, SendRegisterPk, StoreSent,
         Solved
  <1>6. ASSUME NEW h \in Hosts, Answers(h)
        PROVE  id' = id /\ UNCHANGED confirmed
    BY <1>6 DEF Answers, Receive, Lose, ServeRegistrations, ServePeers,
         ServeRegisterPk, ServeRegisterPeer
  <1>7. CASE SetIdUnconfirm \/ SetId \/ ForceUpdatePk
    BY <1>7 DEF SetIdUnconfirm, SetId, ForceUpdatePk, SetKeyConfirmed
  <1>8. CASE Sync
    BY <1>8 DEF Sync, SyncNew, SyncSet, SyncInvalidate, SyncDrop, SetKeyConfirmed
  <1>9. CASE UNCHANGED regVars
    BY <1>9 DEF regVars
  <1> QED BY <1>1, <1>2, <1>3, <1>4, <1>5, <1>6, <1>7, <1>8, <1>9 DEF Answers, RegNext, Task

(* The configuration is taken over in four steps, and only by Sync.        *)
LEMMA SyncSteps ==
  ASSUME [RegNext]_regVars, sync' # sync
  PROVE  \/ SyncNew /\ sync = "new" /\ sync' = "set"
         \/ SyncSet /\ sync = "set" /\ sync' = "invalidate"
         \/ SyncInvalidate /\ sync = "invalidate" /\ sync' = "drop"
         \/ SyncDrop /\ sync = "drop" /\ sync' = "done"
  <1>1. ASSUME NEW h \in Hosts, Task(h) PROVE sync' = sync
    BY <1>1 DEF Task, CheckSolving, RegisterPeer, GetKeyPair, SendRegisterPk,
         StoreSent, ConfirmKey,
         ConfirmHost, Solved, UuidMismatch, UpdateId, others
  <1>2. ASSUME NEW h \in Hosts, Answers(h)
        PROVE  sync' = sync
    BY <1>2 DEF Answers, Receive, Lose, ServeRegistrations, ServePeers,
         ServeRegisterPk, ServeRegisterPeer, others
  <1>3. CASE SetIdUnconfirm \/ SetId \/ ForceUpdatePk \/ UNCHANGED regVars
    BY <1>3 DEF SetIdUnconfirm, SetId, ForceUpdatePk, regVars
  <1>4. CASE Sync
    BY <1>4 DEF Sync, SyncNew, SyncSet, SyncInvalidate, SyncDrop
  <1> QED BY <1>1, <1>2, <1>3, <1>4 DEF Answers, RegNext

(* The registration of the root process stands until this process sends    *)
(* its own.                                                                *)
LEMMA RootStep ==
  ASSUME RegTypeOK, NoneLeft, AcceptedIsKnown, RootIsKnown, [RegNext]_regVars, ~crossed'
  PROVE  RootIsKnown'
  <1> SUFFICES ASSUME NEW g \in Hosts, ~Sent'
               PROVE  /\ sync' \in {"new", "set"} => known'[g][RootId] = "root"
                      /\ sync' \in {"invalidate", "drop"} /\ Confirmed(g)' => known'[g][id'] = "root"
    BY DEF RootIsKnown
  <1>1. ~Sent
    BY SentStays
  <1>2. known' = known
    BY <1>1, KnownSteps DEF AcceptedIsKnown
  <1>3. /\ sync \in {"new", "set"} => known[g][RootId] = "root"
        /\ sync \in {"invalidate", "drop"} => (Confirmed(g) => known[g][id] = "root")
    BY <1>1 DEF RootIsKnown
  <1>4. CASE sync' = "invalidate" /\ sync # "invalidate"
    <2>1. SyncSet /\ sync = "set"
      BY <1>4, SyncSteps
    <2> QED BY <1>2, <1>3, <1>4, <2>1 DEF SyncSet
  <1>5. CASE sync' # "invalidate" \/ sync = sync'
    <2>1. ASSUME sync' \in {"invalidate", "drop"}, Confirmed(g)'
          PROVE  known'[g][id'] = "root"
      <3>1. /\ id' = id
            /\ Confirmed(g) \/ rtask[g] = "confirmHost"
        BY <1>5, <2>1, ConfirmedSteps
      <3>2. rtask[g] # "confirmHost"
        BY <1>1 DEF AcceptedIsKnown
      <3>3. sync \in {"invalidate", "drop"}
        BY <2>1, <1>5, SyncSteps
      <3> QED BY <1>2, <1>3, <3>1, <3>2, <3>3
    <2>2. sync' \in {"new", "set"} => sync \in {"new", "set"}
      BY SyncSteps
    <2> QED BY <1>2, <1>3, <2>1, <2>2
  <1> QED BY <1>4, <1>5

(* A host is confirmed with the id and the key it knows.                   *)
LEMMA ConfirmedStep ==
  ASSUME RegTypeOK, Pairs, NoneLeft, AcceptedIsKnown, RootIsKnown, ConfirmedIsKnown,
         [RegNext]_regVars, ~crossed'
  PROVE  ConfirmedIsKnown'
  <1> SUFFICES ASSUME NEW g \in Hosts, sync' = "done", Confirmed(g)'
               PROVE  known'[g][id'] = Pk'
    BY DEF ConfirmedIsKnown
  <1>1. /\ id' = id
        /\ \/ Confirmed(g)
           \/ /\ rtask[g] = "confirmHost" /\ reg[g] = Current /\ reg[g].pk = stored
              /\ UNCHANGED <<keys, sync, known>>
    BY ConfirmedSteps
  <1>2. CASE sync = "done"
    <2>1. Pk' = Pk /\ Pk \in Keys /\ id \in Ids
      BY <1>2, PkSteps DEF RegTypeOK, Pk, Keys
    <2>2. CASE Confirmed(g)
      <3>1. known[g][id] = Pk
        BY <1>2, <2>2 DEF ConfirmedIsKnown
      <3>2. CASE known' = known
        BY <1>1, <2>1, <3>1, <3>2
      <3>3. ASSUME NEW h \in Hosts, known' = [known EXCEPT ![h][id] = Pk]
            PROVE  known'[g][id'] = Pk'
        BY <1>1, <2>1, <3>1, <3>3 DEF RegTypeOK
      <3> QED BY <3>2, <3>3, KnownSteps
    <2>3. CASE rtask[g] = "confirmHost" /\ reg[g] = Current /\ UNCHANGED <<keys, sync, known>>
      <3>1. reg[g] \in Accepted(g) /\ reg[g].id = id /\ reg[g].pk = Pk
        BY <2>3 DEF AcceptedIsKnown, Current
      <3>2. known[g][id] = Pk
        BY <3>1 DEF Accepted
      <3> QED BY <1>1, <2>1, <2>3, <3>2
    <2> QED BY <1>1, <2>2, <2>3
  <1>3. CASE sync # "done"
    <2>1. SyncDrop /\ sync = "drop"
      BY <1>3, SyncSteps
    <2>2. Confirmed(g) /\ known' = known
      BY <1>1, <1>3, <2>1 DEF SyncDrop
    <2>3. Pk' = Pk /\ Pk = "root"
      BY <2>1 DEF Pairs, Pk, RegTypeOK, Keys, SyncDrop, keys
    <2>4. ~Unnoticed
      BY <2>1 DEF SyncDrop, Crossed, RegTypeOK
    <2>5. ~Sent
      <3>1. CASE sentPk
        <4>1. keyConfirmed' = FALSE
          BY <2>1, <2>4, <3>1 DEF SyncDrop, Unnoticed, SetKeyConfirmed
        <4> QED BY <4>1 DEF Confirmed
      <3>2. CASE ~sentPk
        BY <2>4, <3>2 DEF Sent, Unnoticed
      <3> QED BY <3>1, <3>2
    <2>6. known[g][id] = "root"
      BY <2>1, <2>2, <2>5 DEF RootIsKnown
    <2> QED BY <1>1, <2>2, <2>3, <2>6
  <1> QED BY <1>2, <1>3

(* The invariant holds at the beginning.                                   *)
LEMMA InitRInv == RegInit => RInv
  <1> SUFFICES ASSUME RegInit PROVE RInv
    OBVIOUS
  <1>1. RegTypeOK
    <2>1. 0 \in Ids /\ {"local", "root"} \subseteq Keys /\ [id |-> 0, pk |-> "local"] \in Reg
      BY RegistrationAssumption DEF Ids, Keys, Reg
    <2>2. changes \in 0..MaxChanges
      <3>1. MaxChanges \in Nat /\ changes \in {0, MaxChanges}
        BY RegistrationAssumption DEF RegInit
      <3> QED BY ONLY <3>1
    <2>3. known \in [Hosts -> [Ids -> Keys \cup {"none"}]]
      BY <2>1 DEF RegInit
    <2>4. rtask \in [Hosts -> {"off", "idle"}] /\ reg \in [Hosts -> Reg] /\ net \in [Hosts -> SUBSET Msg]
      BY <2>1 DEF RegInit
    <2>5. rtask \in [Hosts -> {"off", "idle", "checked", "keyPair", "send", "sent",
                             "confirm", "confirmHost", "solved", "mismatch", "newId"}]
      BY <2>4
    <2> QED BY <2>1, <2>2, <2>3, <2>4, <2>5 DEF RegInit, RegTypeOK
  <1>2. Pairs
    BY DEF RegInit, Pairs
  <1>3. NoneLeft
    BY DEF RegInit, NoneLeft, Changing, Locked
  <1>4. AcceptedIsKnown
    BY DEF RegInit, AcceptedIsKnown
  <1>5. RootIsKnown /\ ConfirmedIsKnown
    BY RegistrationAssumption DEF RegInit, RootIsKnown, ConfirmedIsKnown, Confirmed
  <1> QED BY <1>1, <1>2, <1>3, <1>4, <1>5 DEF RInv

(* Every step keeps it.                                                    *)
LEMMA NextRInv == RInv /\ [RegNext]_regVars => RInv'
  <1> SUFFICES ASSUME RInv, [RegNext]_regVars PROVE RInv'
    OBVIOUS
  <1>1. RegTypeOK' /\ Pairs'
    BY RegistrationTypes, PairsStep DEF RInv
  <1>2. ASSUME ~crossed'
        PROVE  NoneLeft' /\ AcceptedIsKnown' /\ RootIsKnown' /\ ConfirmedIsKnown'
    <2>1. RegTypeOK /\ Pairs
      BY DEF RInv
    <2>2. NoneLeft /\ AcceptedIsKnown /\ RootIsKnown /\ ConfirmedIsKnown
      BY <1>2, <2>1, KnownSteps DEF RInv
    <2> QED BY <1>2, <2>1, <2>2, NoneLeftStep, AcceptedStep, RootStep, ConfirmedStep
  <1> QED BY <1>1, <1>2 DEF RInv

(* The invariant the theorems below are read off.                          *)
THEOREM RegistrationInvariance == RegSpec => []RInv
  BY InitRInv, NextRInv, PTL DEF RegSpec

(* Every variable of the registration keeps its type, whatever the         *)
(* network loses or reorders.                                              *)
THEOREM RegistrationTypeCorrect == RegSpec => []RegTypeOK
  <1>1. RInv => RegTypeOK
    BY DEF RInv
  <1> QED BY <1>1, RegistrationInvariance, PTL

(* A server that counts as confirmed knows this computer's id with its     *)
(* key, unless a confirmation crossed with a change: for any number of     *)
(* servers, ids that are taken, messages on their way and changes.         *)
THEOREM Registered == RegSpec => []ConfirmedUnlessCrossed
  <1>1. RInv => ConfirmedUnlessCrossed
    BY DEF RInv, ConfirmedUnlessCrossed, ConfirmedIsKnown, Used
  <1> QED BY <1>1, RegistrationInvariance, PTL
=============================================================================
