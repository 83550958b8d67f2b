--------------------------- MODULE DisplayService ---------------------------
(***************************************************************************)
(* The display service, src/server/display_service.rs: a list of displays  *)
(* several threads compare with the system's and replace, SYNC_DISPLAYS,   *)
(* which the service's thread sends to its subscribers when it changed.    *)
(* A login takes its first copy of the list; the thread of a video service *)
(* looks there whether the display it captures has changed; turning off    *)
(* privacy mode has changes ignored for a while.                           *)
(* The system is not Wayland, which has lists of its own.                  *)
(***************************************************************************)
EXTENDS ServiceTmpl, Sequences

CONSTANTS
  Lists,  \* lists of displays the system can have: sequences of geometries,
          \* perhaps empty
  Idx,    \* the display a video service captures
  None    \* nothing read, captured or sent yet

ASSUME ListsAssumption ==
  /\ Lists # {} /\ None \notin Lists
  /\ \A l \in Lists : DOMAIN l = 1..Len(l)

(* display_service::new asks for snapshots.                                *)
ASSUME DisplayAssumption == NeedSnapshot

VARIABLES
  actual,    \* the displays of the system
  displays,  \* SYNC_DISPLAYS.displays
  isSynced,  \* SYNC_DISPLAYS.is_synced
  ignore,    \* TEMP_IGNORE_DISPLAYS_CHANGED
  holder,    \* who ignores changes: "none", "holding", "releasing", or "never"
  dpc,       \* where the service's thread is
  bail,      \* the snapshot callback is about to return an error
  read,      \* what the service's thread, or its message, holds
  loginRead, \* what each login read of the system, None before and after
  vpc,       \* where the thread of the video service is
  cap,       \* what it captures: CapturerInfo.ndisplay and the geometry
  vread,     \* what it read of the system
  seen,      \* history: the list each connection was sent last
  alone      \* history: swapped in, unasked and unsent, when nobody was served

displayVars == <<tmplVars, actual, displays, isSynced, ignore, holder, dpc, bail, read,
                 loginRead, vpc, cap, vread, seen, alone>>
sync == <<displays, isSynced>>
listThread == <<dpc, bail, read>>
video == <<vpc, cap, vread>>
others == <<actual, ignore, holder, loginRead>>
listHistory == <<seen, alone>>

CapOf(l) == [ndisplay |-> Len(l), geometry |-> l[Idx]]

DisplayTypeOK ==
  /\ TmplTypeOK
  /\ actual \in Lists
  /\ displays \in Lists \cup {<<>>}
  /\ isSynced \in BOOLEAN
  /\ ignore \in BOOLEAN
  /\ holder \in {"never", "none", "holding", "releasing"}
  /\ dpc \in {"active", "subscribed", "ok", "snapshot", "ignoring", "swap", "read", "update",
             "get", "send", "exited"}
  /\ bail \in BOOLEAN
  /\ read \in Lists \cup {None}
  /\ loginRead \in [Conns -> Lists \cup {None}]
  /\ vpc \in {"never", "new", "run", "update", "compare"}
  /\ cap \in {CapOf(l) : l \in {k \in Lists : Idx \in DOMAIN k}} \cup {None}
  /\ vread \in Lists \cup {None}
  /\ seen \in [Conns -> Lists \cup {None}]
  /\ alone \subseteq Conns

DisplayInit ==
  /\ TmplInit
  /\ actual \in Lists
  /\ displays = <<>>
  /\ isSynced = FALSE
  /\ ignore = FALSE
  /\ holder \in {"never", "none"}
  /\ dpc = "active"
  /\ bail = FALSE
  /\ read = None
  /\ loginRead = [c \in Conns |-> None]
  /\ vpc \in {"never", "new"}
  /\ cap = None
  /\ vread = None
  /\ seen = [c \in Conns |-> None]
  /\ alone = {}
-----------------------------------------------------------------------------
(* SYNC_DISPLAYS.                                                          *)

CheckChanged(l) ==
  /\ displays' = l
  /\ isSynced' = IF l # displays /\ ~ignore THEN FALSE ELSE isSynced

(* Slip: the number of displays is not compared.                           *)
SlipCheckDisplayChanged ==
  Idx \in DOMAIN displays /\ cap.geometry # displays[Idx]

(* A display that was unplugged is not reported.                           *)
CheckDisplayChanged ==
  Idx \in DOMAIN displays /\ cap # CapOf(displays)
-----------------------------------------------------------------------------
(* The environment: the system's displays, and privacy mode turned off.    *)

ChangeDisplays ==
  /\ actual' \in Lists \ {actual}
  /\ UNCHANGED <<tmplVars, sync, ignore, holder, listThread, loginRead, video, listHistory>>

Hold ==
  /\ holder = "none"
  /\ holder' = "holding"
  /\ ignore' = TRUE
  /\ UNCHANGED <<tmplVars, sync, actual, listThread, loginRead, video, listHistory>>

(* The holder is dropped: it stores FALSE, then asks for a message.        *)
Release ==
  /\ holder = "holding"
  /\ holder' = "releasing"
  /\ ignore' = FALSE
  /\ UNCHANGED <<tmplVars, sync, actual, listThread, loginRead, video, listHistory>>

(* Slip: no message is asked for.                                          *)
SlipTrigger ==
  /\ holder = "releasing"
  /\ holder' = "none"
  /\ UNCHANGED <<tmplVars, sync, actual, ignore, listThread, loginRead, video, listHistory>>

Trigger ==
  /\ holder = "releasing"
  /\ holder' = "none"
  /\ isSynced' = FALSE
  /\ UNCHANGED <<tmplVars, displays, actual, ignore, listThread, loginRead, video, listHistory>>
-----------------------------------------------------------------------------
(* A connection: update_get_sync_displays_on_login reads the system's      *)
(* displays, compares, and copies the list for the login's answer; then    *)
(* the connection subscribes, which may be long after when its user is     *)
(* asked for a Windows session first.                                      *)

LoginRead(c) ==
  /\ StartTask(c)
  /\ loginRead' = [loginRead EXCEPT ![c] = actual]
  /\ UNCHANGED <<sync, actual, ignore, holder, listThread, video, listHistory>>

LoginUpdate(c) ==
  /\ loginRead[c] # None
  /\ CheckChanged(loginRead[c])
  /\ loginRead' = [loginRead EXCEPT ![c] = None]
  /\ UNCHANGED <<tmplVars, actual, ignore, holder, listThread, video, listHistory>>

Copied(c) == seen[c] # None

LoginCopy(c) ==
  /\ task[c] = "live"
  /\ loginRead[c] = None
  /\ ~Copied(c)
  /\ seen' = [seen EXCEPT ![c] = displays]
  /\ UNCHANGED <<tmplVars, sync, others, listThread, video, alone>>

DisplaySubscribing(c) ==
  /\ Copied(c)
  /\ AddConnection(c)
  /\ UNCHANGED <<sync, others, listThread, video, listHistory>>

DisplayLeaving(c) ==
  /\ Copied(c)
  /\ RemoveConnection(c)
  /\ UNCHANGED <<sync, others, listThread, video, listHistory>>

DisplayJoining ==
  /\ JoinClearActive \/ JoinStep(dpc = "exited")
  /\ UNCHANGED <<sync, others, listThread, video, listHistory>>
-----------------------------------------------------------------------------
(* The service's thread: ServiceTmpl::run and the callback `run`.          *)

Goto(p) == dpc' = p /\ UNCHANGED <<bail, read>>
Elsewhere == UNCHANGED <<others, video>>

DisplayCheckActive ==
  /\ dpc = "active"
  /\ Goto(IF active THEN "subscribed" ELSE "exited")
  /\ UNCHANGED <<tmplVars, sync, listHistory>> /\ Elsewhere

DisplayCheckSubscribed ==
  /\ dpc = "subscribed"
  /\ Goto(IF HasSubscribes THEN "ok" ELSE "active")
  /\ UNCHANGED <<tmplVars, sync, listHistory>> /\ Elsewhere

DisplayCheckOk ==
  /\ dpc = "ok"
  /\ Goto(IF Ok THEN "snapshot" ELSE "active")
  /\ UNCHANGED <<tmplVars, sync, listHistory>> /\ Elsewhere

DisplaySnapshot ==
  /\ dpc = "snapshot"
  /\ Goto(IF newSubscribes # {} THEN "ignoring" ELSE "read")
  /\ UNCHANGED <<tmplVars, sync, listHistory>> /\ Elsewhere

(* A newcomer that joins others: everybody is to be sent the list.         *)
NewSubscriber ==
  /\ dpc = "ignoring"
  /\ ~ignore /\ subscribes # {}
  /\ isSynced' = FALSE
  /\ bail' = TRUE
  /\ dpc' = "swap"
  /\ UNCHANGED <<tmplVars, displays, read, listHistory>> /\ Elsewhere

(* sps.has_subscribes looks at subscribes only: the first subscriber has   *)
(* the list of its login.                                                  *)
FirstSubscriber ==
  /\ dpc = "ignoring"
  /\ ~ignore /\ subscribes = {}
  /\ Goto("swap")
  /\ UNCHANGED <<tmplVars, sync, listHistory>> /\ Elsewhere

IgnoredSubscriber ==
  /\ dpc = "ignoring"
  /\ ignore
  /\ Goto("swap")
  /\ UNCHANGED <<tmplVars, sync, listHistory>> /\ Elsewhere

(* The callback returned, with Ok or with an error that ends `run`.        *)
DisplaySwap ==
  /\ dpc = "swap"
  /\ SwapNewSubscribes
  /\ dpc' = IF bail THEN "active" ELSE "read"
  /\ bail' = FALSE
  /\ alone' = IF ~bail /\ subscribes = {} THEN alone \cup newSubscribes ELSE alone
  /\ UNCHANGED <<active, handle, joiner, task, op, sync, read, seen>> /\ Elsewhere

(* Slip: the list kept is taken for the system's.                          *)
SlipReadDisplays ==
  /\ dpc = "read"
  /\ dpc' = "update"
  /\ read' = displays
  /\ UNCHANGED <<tmplVars, sync, bail, listHistory>> /\ Elsewhere

ReadDisplays ==
  /\ dpc = "read"
  /\ dpc' = "update"
  /\ read' = actual
  /\ UNCHANGED <<tmplVars, sync, bail, listHistory>> /\ Elsewhere

(* Slip: displays that cannot be read are none.                            *)
SlipReadFails ==
  /\ dpc = "read"
  /\ dpc' = "update"
  /\ read' = <<>>
  /\ UNCHANGED <<tmplVars, sync, bail, listHistory>> /\ Elsewhere

(* The system's displays cannot be read: no message this time.             *)
ReadFails ==
  /\ dpc = "read"
  /\ Goto("ok")
  /\ UNCHANGED <<tmplVars, sync, listHistory>> /\ Elsewhere

Update ==
  /\ dpc = "update"
  /\ CheckChanged(read)
  /\ dpc' = "get"
  /\ read' = None
  /\ UNCHANGED <<tmplVars, bail, listHistory>> /\ Elsewhere

(* get_update_sync_displays.                                               *)
GetUpdate ==
  /\ dpc = "get"
  /\ isSynced' = TRUE
  /\ IF isSynced
     THEN Goto("ok")
     ELSE dpc' = "send" /\ read' = displays /\ UNCHANGED bail
  /\ UNCHANGED <<tmplVars, displays, listHistory>> /\ Elsewhere

Send ==
  /\ dpc = "send"
  /\ dpc' = "ok"
  /\ read' = None
  /\ seen' = [c \in Conns |-> IF c \in subscribes THEN read ELSE seen[c]]
  /\ alone' = alone \ subscribes
  /\ UNCHANGED <<tmplVars, sync, bail>> /\ Elsewhere

DisplayWorker ==
  \/ DisplayCheckActive \/ DisplayCheckSubscribed \/ DisplayCheckOk \/ DisplaySnapshot
  \/ NewSubscriber \/ FirstSubscriber \/ IgnoredSubscriber \/ DisplaySwap
  \/ ReadDisplays \/ ReadFails \/ Update \/ GetUpdate \/ Send
-----------------------------------------------------------------------------
(* The thread of a video service.                                          *)

Apart == UNCHANGED <<tmplVars, others, listThread, listHistory>>

(* get_capturer_monitor; it fails where there is no such display, and may  *)
(* fail otherwise.                                                         *)
GetCapturer ==
  /\ vpc = "new"
  /\ Idx \in DOMAIN actual
  /\ cap' = CapOf(actual)
  /\ vpc' = "run"
  /\ UNCHANGED <<sync, vread>> /\ Apart

(* OPTION_REFRESH: the displays are read and compared first.               *)
RefreshCapturer ==
  /\ vpc = "run"
  /\ vread' = actual
  /\ vpc' = "update"
  /\ UNCHANGED <<sync, cap>> /\ Apart

RefreshUpdate ==
  /\ vpc = "update"
  /\ CheckChanged(vread)
  /\ vread' = None
  /\ vpc' = "compare"
  /\ UNCHANGED cap /\ Apart

(* SWITCH, whether the display changed or not.                             *)
RefreshSwitch ==
  /\ vpc = "compare"
  /\ vpc' = "new"
  /\ UNCHANGED <<sync, cap, vread>> /\ Apart

(* Once a second: SwitchDisplay, then SWITCH.                              *)
SwitchCapturer ==
  /\ vpc = "run"
  /\ CheckDisplayChanged
  /\ vpc' = "new"
  /\ UNCHANGED <<sync, cap, vread>> /\ Apart

Video == GetCapturer \/ RefreshCapturer \/ RefreshUpdate \/ RefreshSwitch \/ SwitchCapturer
-----------------------------------------------------------------------------
DisplayNext ==
  \/ ChangeDisplays
  \/ Hold \/ Release \/ Trigger
  \/ \E c \in Conns : LoginRead(c) \/ LoginUpdate(c) \/ LoginCopy(c)
                      \/ DisplaySubscribing(c) \/ DisplayLeaving(c)
  \/ DisplayJoining
  \/ DisplayWorker
  \/ Video

(* Threads run, a login once begun goes on, a holder is dropped, and the   *)
(* displays can be read and captured now and then.  Nobody need refresh.   *)
DisplayFairness ==
  /\ WF_displayVars(DisplayWorker) /\ SF_displayVars(ReadDisplays)
  /\ \A c \in Conns : WF_displayVars(LoginUpdate(c)) /\ WF_displayVars(LoginCopy(c))
  /\ WF_displayVars(Release) /\ WF_displayVars(Trigger)
  /\ WF_displayVars(RefreshUpdate \/ RefreshSwitch) /\ SF_displayVars(GetCapturer)
  /\ WF_displayVars(SwitchCapturer)

DisplaySpec == DisplayInit /\ [][DisplayNext]_displayVars /\ DisplayFairness
-----------------------------------------------------------------------------
(* While the list counts as synchronised, with no message on its way and   *)
(* nobody ignoring changes, every subscriber has it, whichever thread      *)
(* noticed the change.  The exception is who subscribed when nobody else   *)
(* was served: it has the list of its login, which may be an older one.    *)
SyncedIsSent ==
  (isSynced /\ holder \in {"never", "none"} /\ dpc # "send")
    => \A c \in subscribes : seen[c] = displays \/ c \in alone

(* Displays that stay as they are become known to who stays, whatever old  *)
(* list another thread puts back and however often changes are ignored.    *)
SubscribersKnow ==
  \A l \in Lists, c \in Conns :
    <>[](actual = l /\ active /\ c \in subscribes \cup newSubscribes)
      => <>[](seen[c] = l \/ c \in alone)

(* While anyone is subscribed, a video service ends up capturing the       *)
(* display as it is, if it is still there.                                 *)
CapturerSettles ==
  \A l \in {k \in Lists : Idx \in DOMAIN k} :
    <>[](actual = l /\ active /\ HasSubscribes) => <>[](vpc = "never" \/ cap = CapOf(l))
=============================================================================
