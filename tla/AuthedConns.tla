---------------------------- MODULE AuthedConns ----------------------------
(***************************************************************************)
(* What the authorized connections of src/server/connection.rs share       *)
(* (module raii): the list AUTHED_CONNS, the wake lock thread that is sent *)
(* counts of it, and what the last remote connection puts back when it is  *)
(* dropped, the screen resolution of src/server/display_service.rs.  The   *)
(* connections are tasks of one runtime with several threads; each step    *)
(* below is one of their critical sections.                                *)
(***************************************************************************)
EXTENDS Naturals, FiniteSets, Sequences

CONSTANTS
  Conns,     \* connections, each authorized once
  Linux,     \* the wake lock always keeps the display on, once
  MaxQueue   \* bound: counts on their way when a timer adds one more

ASSUME AuthedAssumption ==
  /\ IsFiniteSet(Conns)
  /\ Linux \in BOOLEAN
  /\ MaxQueue \in Nat \ {0}

VARIABLES
  kind,        \* AuthConnType of each: Remote, PortForward or another
  pc,          \* where each connection is
  authed,      \* AUTHED_CONNS
  counts,      \* the counts each connection has read
  queue,       \* the channel of WAKELOCK_SENDER
  wakelock,    \* the wake lock: none, or what it keeps on
  lastDisplay, \* last_display of the thread
  cached,      \* WAKELOCK_KEEP_AWAKE_OPTION
  keepAwake,   \* the option itself
  screen,      \* the resolution of the screen
  recorded,    \* CHANGED_RESOLUTIONS: the original one, if it was changed
  original,    \* the resolution a connection is about to record
  overtaken,   \* history: the counts sent last were not those of the list
  intruded,    \* history: a remote came while resolutions were restored
  refused      \* history: a resolution could not be restored

vars == <<kind, pc, authed, counts, queue, wakelock, lastDisplay, cached, keepAwake,
          screen, recorded, original, overtaken, intruded, refused>>
lockThread == <<wakelock, lastDisplay, cached>>
resolution == <<screen, recorded, original>>
history == <<overtaken, intruded, refused>>

Resolutions == {"native", "custom"}
Counts == [conns : 0..Cardinality(Conns), remotes : 0..Cardinality(Conns)]
PCs == {"none", "count", "countRemotes", "send", "open", "displays", "record",
        "remotes", "restore", "clear", "gone"}

TypeOK ==
  /\ kind \in [Conns -> {"remote", "forward", "other"}]
  /\ pc \in [Conns -> PCs]
  /\ authed \subseteq Conns
  /\ counts \in [Conns -> Counts]
  /\ queue \in Seq(Counts)
  /\ wakelock \in {"none", "system", "display"}
  /\ lastDisplay \in BOOLEAN
  /\ cached \in {"unset", "on", "off"}
  /\ keepAwake \in {"on", "off"}
  /\ screen \in Resolutions
  /\ recorded \in Resolutions \cup {"none"}
  /\ original \in [Conns -> Resolutions]
  /\ overtaken \in BOOLEAN
  /\ intruded \in BOOLEAN
  /\ refused \in BOOLEAN

Init ==
  /\ kind \in [Conns -> {"remote", "forward", "other"}]
  /\ pc = [c \in Conns |-> "none"]
  /\ authed = {}
  /\ counts = [c \in Conns |-> [conns |-> 0, remotes |-> 0]]
  /\ queue = <<>>
  /\ wakelock = "none"
  /\ lastDisplay = FALSE
  /\ cached = "unset"
  /\ keepAwake \in {"on", "off"}
  /\ screen = "native"
  /\ recorded = "none"
  /\ original = [c \in Conns |-> "native"]
  /\ overtaken = FALSE
  /\ intruded = FALSE
  /\ refused = FALSE

Goto(c, at) == pc' = [pc EXCEPT ![c] = at]
Remote == {c \in Conns : kind[c] = "remote"}
RemoteCount == Cardinality(authed \cap Remote)
-----------------------------------------------------------------------------
(* AuthedConnID::new: the list, then check_wake_lock.                      *)
New(c) ==
  /\ pc[c] = "none"
  /\ authed' = authed \cup {c}
  /\ intruded' = (intruded \/ (c \in Remote /\ \E d \in Conns : pc[d] \in {"restore", "clear"}))
  /\ Goto(c, "count")
  /\ UNCHANGED <<kind, counts, queue, lockThread, keepAwake, resolution, overtaken, refused>>

(* check_wake_lock locks AUTHED_CONNS twice, and the sender after that.    *)
CountConns(c) ==
  /\ pc[c] = "count"
  /\ counts' = [counts EXCEPT ![c] = [conns |-> Cardinality(authed), remotes |-> 0]]
  /\ Goto(c, "countRemotes")
  /\ UNCHANGED <<kind, authed, queue, lockThread, keepAwake, resolution, history>>

CountRemotes(c) ==
  /\ pc[c] = "countRemotes"
  /\ counts' = [counts EXCEPT ![c] = [conns |-> @.conns, remotes |-> RemoteCount]]
  /\ Goto(c, "send")
  /\ UNCHANGED <<kind, authed, queue, lockThread, keepAwake, resolution, history>>

SendCounts(c) ==
  /\ pc[c] = "send"
  /\ queue' = Append(queue, counts[c])
  /\ overtaken' = (counts[c] # [conns |-> Cardinality(authed), remotes |-> RemoteCount])
  /\ Goto(c, IF c \in authed THEN "open" ELSE "gone")
  /\ UNCHANGED <<kind, authed, counts, lockThread, keepAwake, resolution, intruded, refused>>

(* Slip: the option is looked at only while the wake lock is held.         *)
SlipSecondTick(c) ==
  /\ pc[c] = "open"
  /\ cached # keepAwake
  /\ wakelock # "none"
  /\ Len(queue) < MaxQueue
  /\ Goto(c, "count")
  /\ UNCHANGED <<kind, authed, counts, queue, lockThread, keepAwake, resolution, history>>

(* Each second, check_wake_lock_on_setting_changed.                        *)
SecondTick(c) ==
  /\ pc[c] = "open"
  /\ cached # keepAwake
  /\ Len(queue) < MaxQueue
  /\ Goto(c, "count")
  /\ UNCHANGED <<kind, authed, counts, queue, lockThread, keepAwake, resolution, history>>

(* The peer changes the resolution: what the display has now is looked up, *)
(* recorded unless something is, and then the change is made.              *)
LookUpDisplay(c) ==
  /\ pc[c] = "open"
  /\ c \in Remote
  /\ original' = [original EXCEPT ![c] = screen]
  /\ Goto(c, "displays")
  /\ UNCHANGED <<kind, authed, counts, queue, lockThread, keepAwake, screen, recorded, history>>

(* Slip: a second change overwrites the original resolution.               *)
SlipSetLastChangedResolution(c) ==
  /\ pc[c] = "displays"
  /\ recorded' = original[c]
  /\ Goto(c, "record")
  /\ UNCHANGED <<kind, authed, counts, queue, lockThread, keepAwake, screen, original, history>>

SetLastChangedResolution(c) ==
  /\ pc[c] = "displays"
  /\ recorded' = IF recorded = "none" THEN original[c] ELSE recorded
  /\ Goto(c, "record")
  /\ UNCHANGED <<kind, authed, counts, queue, lockThread, keepAwake, screen, original, history>>

ChangeResolution(c) ==
  /\ pc[c] = "record"
  /\ screen' \in Resolutions
  /\ Goto(c, "open")
  /\ UNCHANGED <<kind, authed, counts, queue, lockThread, keepAwake, recorded, original, history>>

(* Drop for AuthedConnID: off the list; the remote ones are counted; if    *)
(* none is left what they changed is put back; then check_wake_lock.       *)
Drop(c) ==
  /\ pc[c] = "open"
  /\ authed' = authed \ {c}
  /\ Goto(c, "remotes")
  /\ UNCHANGED <<kind, counts, queue, lockThread, keepAwake, resolution, history>>

CheckRemotes(c) ==
  /\ pc[c] = "remotes"
  /\ Goto(c, IF RemoteCount = 0 THEN "restore" ELSE "count")
  /\ UNCHANGED <<kind, authed, counts, queue, lockThread, keepAwake, resolution, history>>

(* Slip: what was never changed is restored too.                           *)
SlipRestoreScreen(c) ==
  /\ pc[c] = "restore"
  /\ screen' = recorded
  /\ Goto(c, "clear")
  /\ UNCHANGED <<kind, authed, counts, queue, lockThread, keepAwake, recorded, original, history>>

(* restore_resolutions: under a read lock the screen, under a write lock   *)
(* the records.                                                            *)
RestoreScreen(c) ==
  /\ pc[c] = "restore"
  /\ screen' = IF recorded = "none" THEN screen ELSE recorded
  /\ Goto(c, "clear")
  /\ UNCHANGED <<kind, authed, counts, queue, lockThread, keepAwake, recorded, original, history>>

(* An error is logged, and the records are cleared all the same.           *)
RestoreFails(c) ==
  /\ pc[c] = "restore"
  /\ recorded # "none"
  /\ refused' = (refused \/ screen # recorded)
  /\ Goto(c, "clear")
  /\ UNCHANGED <<kind, authed, counts, queue, lockThread, keepAwake, resolution, overtaken, intruded>>

(* Slip: no check_wake_lock after the last remote connection.              *)
SlipClearRecords(c) ==
  /\ pc[c] = "clear"
  /\ recorded' = "none"
  /\ Goto(c, "gone")
  /\ UNCHANGED <<kind, authed, counts, queue, lockThread, keepAwake, screen, original, history>>

ClearRecords(c) ==
  /\ pc[c] = "clear"
  /\ recorded' = "none"
  /\ Goto(c, "count")
  /\ UNCHANGED <<kind, authed, counts, queue, lockThread, keepAwake, screen, original, history>>

Conn(c) ==
  \/ CountConns(c) \/ CountRemotes(c) \/ SendCounts(c)
  \/ SetLastChangedResolution(c) \/ ChangeResolution(c)
  \/ CheckRemotes(c) \/ RestoreScreen(c) \/ RestoreFails(c) \/ ClearRecords(c)
-----------------------------------------------------------------------------
(* start_wakelock_thread: each message is handled with the option's value  *)
(* of that moment.                                                         *)
HandleCounts ==
  LET m == Head(queue)
      display == m.remotes > 0
      lit(d) == IF d THEN "display" ELSE "system"
  IN
  /\ queue # <<>>
  /\ queue' = Tail(queue)
  /\ cached' = keepAwake
  /\ IF m.conns = 0 \/ keepAwake = "off"
     THEN wakelock' = "none" /\ UNCHANGED lastDisplay
     ELSE IF wakelock = "none"
     THEN /\ lastDisplay' = (Linux \/ display)
          /\ wakelock' = lit(Linux \/ display)
     ELSE /\ lastDisplay' = display
          /\ wakelock' = IF display # lastDisplay /\ ~Linux THEN lit(display) ELSE wakelock
  /\ UNCHANGED <<kind, pc, authed, counts, keepAwake, resolution, history>>

SetOption ==
  /\ keepAwake' = IF keepAwake = "on" THEN "off" ELSE "on"
  /\ UNCHANGED <<kind, pc, authed, counts, queue, lockThread, resolution, history>>
-----------------------------------------------------------------------------
Next ==
  \/ \E c \in Conns : New(c) \/ Conn(c) \/ SecondTick(c) \/ LookUpDisplay(c) \/ Drop(c)
  \/ HandleCounts
  \/ SetOption

(* A connection goes on with what it began, its timer ticks whatever else  *)
(* it does meanwhile, and the thread handles what it is sent.  A           *)
(* forwarding need not tick: once authorized it goes over to               *)
(* try_port_forward_loop, which has no such timer.                         *)
Fairness ==
  /\ \A c \in Conns : WF_vars(Conn(c)) /\ SF_vars(kind[c] # "forward" /\ SecondTick(c))
  /\ WF_vars(HandleCounts)

Spec == Init /\ [][Next]_vars /\ Fairness
-----------------------------------------------------------------------------
Busy(c) == pc[c] \notin {"none", "open", "gone"}
Settled == queue = <<>> /\ \A c \in Conns : ~Busy(c)

(* When every connection has said its counts and the thread has handled    *)
(* them with the option as it is, the system is kept awake just when there *)
(* is a connection, and on Windows and macOS the display just when there   *)
(* is a remote one; unless the counts sent last had been overtaken.        *)
WakeLockMatches ==
  /\ (wakelock # "none") <=> (authed # {} /\ keepAwake = "on")
  /\ ~Linux => ((wakelock = "display") <=> (authed \cap Remote # {} /\ keepAwake = "on"))
WakeLockUnlessOvertaken ==
  (Settled /\ cached = keepAwake /\ ~overtaken) => WakeLockMatches

(* A change of the option reaches the thread while there is a connection   *)
(* other than a forwarding, whose loop does not look at it.                *)
SettingIsApplied ==
  ((\E c \in authed : kind[c] # "forward") /\ cached # keepAwake)
    ~> ((\A c \in authed : kind[c] = "forward") \/ cached = keepAwake)

(* The screen has its own resolution again when the last remote connection *)
(* is gone, in whatever order several were dropped; unless one came while  *)
(* resolutions were being restored, or a resolution was refused: then no   *)
(* record is left for another attempt.                                     *)
RestoredUnlessIntruded ==
  ((\A c \in Remote : pc[c] \in {"none", "gone"}) /\ ~intruded /\ ~refused)
    => (screen = "native" /\ recorded = "none")
=============================================================================
