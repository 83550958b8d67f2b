------------------------------ MODULE Mediator ------------------------------
(***************************************************************************)
(* The life cycle of RendezvousMediator (src/rendezvous_mediator.rs): one   *)
(* generation of tasks per round of start_all, one task per rendezvous     *)
(* server, ended together through SHOULD_EXIT; and restart, which any      *)
(* thread that changed the configuration calls, with the two flags it sets *)
(* one after the other.  The connections the tasks let in outlive them,    *)
(* until the service is stopped.                                           *)
(***************************************************************************)
EXTENDS FiniteSets, Naturals

CONSTANTS
  Servers,  \* rendezvous servers that may be configured
  Callers,  \* threads that change the configuration and call restart
  Conns     \* connections

ASSUME MediatorAssumption == Servers # {}

VARIABLES
  pc,          \* where start_all is
  shouldExit,  \* SHOULD_EXIT
  manual,      \* MANUAL_RESTARTED
  configured,  \* Config::get_rendezvous_servers()
  stopped,     \* the option stop-service
  using,       \* the servers this generation was made for
  task,        \* where the task of each server is
  v0,          \* what a task that is updating the servers found before
  caller,      \* where each calling thread is
  saw,         \* the options its CheckIfRestart holds
  conn,        \* each connection: not there, not logged in yet, in Server's
               \* connections or apart from them, told to close
  since,       \* history: flags a restart set since this round began
  swallowed,   \* history: those of them this round cleared again
  reverted     \* history: in this round somebody set an option back to what
               \* it had been when its own comparison began

vars == <<pc, shouldExit, manual, configured, stopped, using, task, v0, caller, saw,
          conn, since, swallowed, reverted>>
config == <<configured, stopped>>
scopes == <<v0, saw>>
history == <<since, swallowed, reverted>>

Flags == {"exit", "manual"}
PCs == {"head", "read", "clearExit", "clearManual", "join", "online", "pause", "nap"}
TaskPCs == {"none", "connecting", "running", "updating", "updated", "changed", "flagged",
            "leaving", "ended"}
CallerPCs == {"idle", "checking", "checked", "set", "compare", "changed", "flagged"}
Lists == SUBSET Servers
Options == [stopped : BOOLEAN, servers : Lists]
NoOptions == [stopped |-> FALSE, servers |-> {}]

TypeOK ==
  /\ pc \in PCs
  /\ shouldExit \in BOOLEAN
  /\ manual \in BOOLEAN
  /\ configured \in Lists \ {{}}
  /\ stopped \in BOOLEAN
  /\ using \in Lists
  /\ task \in [Servers -> TaskPCs]
  /\ v0 \in [Servers -> Lists]
  /\ caller \in [Callers -> CallerPCs]
  /\ saw \in [Callers -> Options]
  /\ conn \in [Conns -> {"none", "asked", "open", "apart", "told"}]
  /\ since \subseteq Flags
  /\ swallowed \subseteq Flags
  /\ reverted \in BOOLEAN

Init ==
  /\ pc = "head"
  /\ shouldExit = FALSE
  /\ manual = FALSE
  /\ configured \in Lists \ {{}}
  /\ stopped \in BOOLEAN
  /\ using = {}
  /\ task = [s \in Servers |-> "none"]
  /\ v0 = [s \in Servers |-> {}]
  /\ caller = [r \in Callers |-> "idle"]
  /\ saw = [r \in Callers |-> NoOptions]
  /\ conn = [c \in Conns |-> "none"]
  /\ since = {}
  /\ swallowed = {}
  /\ reverted = FALSE
-----------------------------------------------------------------------------
(* start_all's loop.                                                       *)

(* Slip: the connections stay.                                             *)
SlipCloseConnections == UNCHANGED conn

(* A round without tasks: the service is stopped (or being installed).     *)
CloseConnections ==
  conn' = [c \in Conns |-> IF conn[c] = "open" THEN "told" ELSE conn[c]]

Head(installing) ==
  /\ pc = "head"
  /\ since' = {}
  /\ swallowed' = {}
  /\ reverted' = FALSE
  /\ IF stopped \/ installing
     THEN pc' = "online" /\ CloseConnections
     ELSE pc' = "read" /\ UNCHANGED conn
  /\ UNCHANGED <<shouldExit, manual, config, using, task, scopes, caller>>

ReadServers ==
  /\ pc = "read"
  /\ using' = configured
  /\ pc' = "clearExit"
  /\ UNCHANGED <<shouldExit, manual, config, task, scopes, caller, conn, history>>

ClearShouldExit ==
  /\ pc = "clearExit"
  /\ shouldExit' = FALSE
  /\ swallowed' = swallowed \cup (since \cap {"exit"})
  /\ pc' = "clearManual"
  /\ UNCHANGED <<manual, config, using, task, scopes, caller, conn, since, reverted>>

(* and the tasks are spawned.                                              *)
ClearManualRestarted ==
  /\ pc = "clearManual"
  /\ manual' = FALSE
  /\ swallowed' = swallowed \cup (since \cap {"manual"})
  /\ task' = [s \in Servers |-> IF s \in using THEN "connecting" ELSE "none"]
  /\ pc' = "join"
  /\ UNCHANGED <<shouldExit, config, using, scopes, caller, conn, since, reverted>>

JoinAll ==
  /\ pc = "join"
  /\ \A s \in using : task[s] = "ended"
  /\ task' = [s \in Servers |-> "none"]
  /\ using' = {}
  /\ pc' = "online"
  /\ UNCHANGED <<shouldExit, manual, config, scopes, caller, conn, history>>

(* reset_online, then the flag decides how long to wait: CONNECT_TIMEOUT   *)
(* (or 3 s) from the start of the round, or an instant.                    *)
LoadManualRestarted ==
  /\ pc = "online"
  /\ pc' = IF manual THEN "nap" ELSE "pause"
  /\ UNCHANGED <<shouldExit, manual, config, using, task, scopes, caller, conn, history>>

Sleep ==
  /\ pc \in {"pause", "nap"}
  /\ pc' = "head"
  /\ UNCHANGED <<shouldExit, manual, config, using, task, scopes, caller, conn, history>>

StartAll ==
  \/ \E installing \in BOOLEAN : Head(installing)
  \/ ReadServers \/ ClearShouldExit \/ ClearManualRestarted \/ JoinAll
  \/ LoadManualRestarted \/ Sleep
-----------------------------------------------------------------------------
(* The tasks: start_udp or start_tcp, then SHOULD_EXIT.                    *)

Goto(s, at) == task' = [task EXCEPT ![s] = at]

Connected(s) ==
  /\ task[s] = "connecting"
  /\ Goto(s, "running")
  /\ UNCHANGED <<pc, shouldExit, manual, config, using, scopes, caller, conn, history>>

(* The connection cannot be made, or is lost: an error ends the task.      *)
Fails(s) ==
  /\ task[s] \in {"connecting", "running"}
  /\ Goto(s, "leaving")
  /\ UNCHANGED <<pc, shouldExit, manual, config, using, scopes, caller, conn, history>>

(* Slip: the other flag is looked at.                                      *)
SlipTick(s) ==
  /\ task[s] = "running"
  /\ manual
  /\ Goto(s, "leaving")
  /\ UNCHANGED <<pc, shouldExit, manual, config, using, scopes, caller, conn, history>>

Tick(s) ==
  /\ task[s] = "running"
  /\ shouldExit
  /\ Goto(s, "leaving")
  /\ UNCHANGED <<pc, shouldExit, manual, config, using, scopes, caller, conn, history>>

Exit(s) ==
  /\ task[s] = "leaving"
  /\ shouldExit' = TRUE
  /\ Goto(s, "ended")
  /\ UNCHANGED <<pc, manual, config, using, scopes, caller, conn, history>>

(* PunchHole, RequestRelay or FetchLocalAddr: a new task makes the         *)
(* connection.                                                             *)
LetIn(s, c) ==
  /\ task[s] = "running"
  /\ conn[c] = "none"
  /\ conn' = [conn EXCEPT ![c] = "asked"]
  /\ UNCHANGED <<pc, shouldExit, manual, config, using, task, scopes, caller, history>>

(* Slips: restart sets one of its flags only.                              *)
SlipSetFlagExit == UNCHANGED shouldExit /\ since' = since \cup {"exit"}
SlipSetFlagManual == UNCHANGED manual /\ since' = since \cup {"manual"}

SetFlagExit == shouldExit' = TRUE /\ since' = since \cup {"exit"}
SetFlagManual == manual' = TRUE /\ since' = since \cup {"manual"}

(* ConfigureUpdate from a server: the task reads the servers, replaces     *)
(* them, reads them again and, if they differ, calls restart itself.       *)
ConfigureUpdate(s) ==
  /\ task[s] = "running"
  /\ v0' = [v0 EXCEPT ![s] = configured]
  /\ Goto(s, "updating")
  /\ UNCHANGED <<pc, shouldExit, manual, config, using, caller, saw, conn, history>>

(* Slip: an empty list of servers is taken as it is.                       *)
SlipSetServers(s) ==
  /\ task[s] = "updating"
  /\ configured' \in Lists
  /\ reverted' = (reverted \/ (configured' # configured /\ configured' = v0[s]))
  /\ Goto(s, "updated")
  /\ UNCHANGED <<pc, shouldExit, manual, stopped, using, scopes, caller, conn, since, swallowed>>

SetServers(s) ==
  /\ task[s] = "updating"
  /\ configured' \in Lists \ {{}}
  /\ reverted' = (reverted \/ (configured' # configured /\ configured' = v0[s]))
  /\ Goto(s, "updated")
  /\ UNCHANGED <<pc, shouldExit, manual, stopped, using, scopes, caller, conn, since, swallowed>>

CompareServers(s) ==
  /\ task[s] = "updated"
  /\ v0' = [v0 EXCEPT ![s] = {}]
  /\ Goto(s, IF v0[s] # configured THEN "changed" ELSE "running")
  /\ UNCHANGED <<pc, shouldExit, manual, config, using, caller, saw, conn, history>>

TaskRestarts(s) ==
  \/ /\ task[s] = "changed"
     /\ SetFlagExit
     /\ Goto(s, "flagged")
     /\ UNCHANGED <<pc, manual, config, using, scopes, caller, conn, swallowed, reverted>>
  \/ /\ task[s] = "flagged"
     /\ SetFlagManual
     /\ Goto(s, "running")
     /\ UNCHANGED <<pc, shouldExit, config, using, scopes, caller, conn, swallowed, reverted>>

TaskStep(s) ==
  \/ Connected(s) \/ Tick(s) \/ Exit(s)
  \/ SetServers(s) \/ CompareServers(s) \/ TaskRestarts(s)
-----------------------------------------------------------------------------
(* Other threads.  The options are read into a CheckIfRestart, changed,    *)
(* and when it is dropped read again and compared, each option by itself;  *)
(* it calls restart if one differs.                                        *)

NewCheck(r) ==
  /\ \/ /\ caller[r] = "idle"
        /\ saw' = [saw EXCEPT ![r] = [stopped |-> stopped, servers |-> {}]]
        /\ caller' = [caller EXCEPT ![r] = "checking"]
     \/ /\ caller[r] = "checking"
        /\ saw' = [saw EXCEPT ![r] = [stopped |-> saw[r].stopped, servers |-> configured]]
        /\ caller' = [caller EXCEPT ![r] = "checked"]
  /\ UNCHANGED <<pc, shouldExit, manual, config, using, task, v0, conn, history>>

SetOptions(r) ==
  /\ caller[r] = "checked"
  /\ configured' \in Lists \ {{}}
  /\ stopped' \in BOOLEAN
  /\ reverted' = \/ reverted
                 \/ configured' # configured /\ configured' = saw[r].servers
                 \/ stopped' # stopped /\ stopped' = saw[r].stopped
  /\ caller' = [caller EXCEPT ![r] = "set"]
  /\ UNCHANGED <<pc, shouldExit, manual, using, task, scopes, conn, since, swallowed>>

(* Slip: only whether the service is stopped is compared.                  *)
SlipDropCheck(r) ==
  /\ \/ /\ caller[r] = "set"
        /\ caller' = [caller EXCEPT ![r] = IF saw[r].stopped # stopped THEN "changed" ELSE "compare"]
     \/ /\ caller[r] = "compare"
        /\ caller' = [caller EXCEPT ![r] = "idle"]
  /\ saw' = IF caller'[r] = "compare" THEN saw ELSE [saw EXCEPT ![r] = NoOptions]
  /\ UNCHANGED <<pc, shouldExit, manual, config, using, task, v0, conn, history>>

DropCheck(r) ==
  /\ \/ /\ caller[r] = "set"
        /\ caller' = [caller EXCEPT ![r] = IF saw[r].stopped # stopped THEN "changed" ELSE "compare"]
     \/ /\ caller[r] = "compare"
        /\ caller' = [caller EXCEPT ![r] = IF saw[r].servers # configured THEN "changed" ELSE "idle"]
  /\ saw' = IF caller'[r] = "compare" THEN saw ELSE [saw EXCEPT ![r] = NoOptions]
  /\ UNCHANGED <<pc, shouldExit, manual, config, using, task, v0, conn, history>>

CallerRestarts(r) ==
  \/ /\ caller[r] = "changed"
     /\ SetFlagExit
     /\ caller' = [caller EXCEPT ![r] = "flagged"]
     /\ UNCHANGED <<pc, manual, config, using, task, scopes, conn, swallowed, reverted>>
  \/ /\ caller[r] = "flagged"
     /\ SetFlagManual
     /\ caller' = [caller EXCEPT ![r] = "idle"]
     /\ UNCHANGED <<pc, shouldExit, config, using, task, scopes, conn, swallowed, reverted>>

CallerStep(r) == SetOptions(r) \/ DropCheck(r) \/ CallerRestarts(r)

(* The connections.  One that shows a screen or a camera is put among      *)
(* Server's connections, at its login or once its user has chosen a        *)
(* Windows session; file transfers, terminals and forwardings never are.   *)
(* It leaves by itself, or on the message close_connections sent.          *)
Login(c) ==
  /\ conn[c] = "asked"
  /\ \E at \in {"open", "apart", "none"} : conn' = [conn EXCEPT ![c] = at]
  /\ UNCHANGED <<pc, shouldExit, manual, config, using, task, scopes, caller, history>>

ChooseSession(c) ==
  /\ conn[c] = "apart"
  /\ conn' = [conn EXCEPT ![c] = "open"]
  /\ UNCHANGED <<pc, shouldExit, manual, config, using, task, scopes, caller, history>>

Leave(c) ==
  /\ conn[c] \in {"open", "apart", "told"}
  /\ conn' = [conn EXCEPT ![c] = "none"]
  /\ UNCHANGED <<pc, shouldExit, manual, config, using, task, scopes, caller, history>>
-----------------------------------------------------------------------------
Next ==
  \/ StartAll
  \/ \E s \in Servers : TaskStep(s) \/ Fails(s) \/ ConfigureUpdate(s)
  \/ \E s \in Servers, c \in Conns : LetIn(s, c)
  \/ \E r \in Callers : NewCheck(r) \/ CallerStep(r)
  \/ \E c \in Conns : Login(c) \/ ChooseSession(c) \/ Leave(c)

(* start_all and the tasks are scheduled, connecting has a time limit      *)
(* (CONNECT_TIMEOUT), select! does not starve the timer whatever messages  *)
(* come, a thread that began a change goes on, and a connection told to    *)
(* close closes.                                                           *)
Fairness ==
  /\ WF_vars(StartAll)
  /\ \A s \in Servers : WF_vars(TaskStep(s)) /\ SF_vars(Tick(s))
  /\ \A r \in Callers : WF_vars(CallerStep(r))
  /\ \A c \in Conns : WF_vars(conn[c] = "told" /\ Leave(c))

Spec == Init /\ [][Next]_vars /\ Fairness
-----------------------------------------------------------------------------
(* A change was made and may still lead to a restart.                      *)
Restarting ==
  \/ \E r \in Callers : caller[r] \in {"set", "compare", "changed", "flagged"}
  \/ \E s \in Servers : task[s] \in {"updated", "changed", "flagged"}

(* A generation that nothing tells to end serves the servers that are      *)
(* configured, and the service is not stopped: the configuration changed   *)
(* under it only if a restart is under way; or its SHOULD_EXIT was         *)
(* swallowed, since start_all reads the configuration first and clears the *)
(* flag afterwards; or two changes overlapped, and the later one restored  *)
(* what it had seen and so noticed no difference.                          *)
FreshUnlessSwallowed ==
  (pc = "join" /\ ~shouldExit /\ ~Restarting /\ "exit" \notin swallowed /\ ~reverted)
    => (using = configured /\ ~stopped)

(* The mediator takes the long pause of up to CONNECT_TIMEOUT only if      *)
(* nobody restarted it in this round, unless the restart is between its    *)
(* two stores or the second one was swallowed.                             *)
LongPauseUnlessRestarted ==
  [][(pc = "online" /\ pc' = "pause") =>
       \/ since = {}
       \/ "manual" \in swallowed
       \/ \E r \in Callers : caller[r] = "flagged"]_vars

(* A restart of a running generation leads to a new round, in which the    *)
(* configuration is read again.                                            *)
RestartIsServed == (pc = "join" /\ shouldExit) ~> (pc = "head")

(* Once the service is stopped for good, every connection among Server's   *)
(* is told to close, whenever it was let in and however late it logs in;   *)
(* unless the restart that follows the change of the option was swallowed, *)
(* or did not come because changes overlapped.  File transfers, terminals  *)
(* and forwardings stay.                                                   *)
StopClosesConnections ==
  <>[]stopped =>
    \/ \A c \in Conns : (conn[c] = "open") ~> (conn[c] # "open")
    \/ <>[](pc = "join" /\ ("exit" \in swallowed \/ reverted))
=============================================================================
