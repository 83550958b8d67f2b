--------------------------- MODULE RepeatService ---------------------------
(***************************************************************************)
(* A service run by ServiceTmpl::repeat, with the mouse cursor service     *)
(* (run_cursor of src/server/input_service.rs) as its callback: the worker *)
(* broadcasts the cursor when it changed, then sends a snapshot of it to   *)
(* the connections that subscribed since.                                  *)
(***************************************************************************)
EXTENDS ServiceTmpl

CONSTANTS
  Cursors,   \* cursors the system can show
  NoCursor,  \* StateCursor::default(): nothing broadcast yet
  Nothing    \* a subscriber that was sent no message since it subscribed

ASSUME CursorAssumption ==
  /\ Cursors # {}
  /\ NoCursor \notin Cursors
  /\ Nothing \notin Cursors \cup {NoCursor}

VARIABLES
  pc,        \* where the worker thread is
  mayReset,  \* may_reset of repeat
  cursor,    \* the system's cursor
  sent,      \* StateCursor: the cursor last broadcast
  seen,      \* history: the last message each subscriber was sent
  late       \* history: subscribed while a snapshot was under way, and
             \* not broadcast to since

vars == <<subscribes, newSubscribes, active, handle, joiner, task, op,
          pc, mayReset, cursor, sent, seen, late>>
thread == <<pc, mayReset, cursor, sent>>
history == <<seen, late>>

PCs == {"active", "subscribed", "poll", "snapshot", "send", "swap", "exited"}

TypeOK ==
  /\ TmplTypeOK
  /\ pc \in PCs
  /\ mayReset \in BOOLEAN
  /\ cursor \in Cursors
  /\ sent \in Cursors \cup {NoCursor}
  /\ seen \in [Conns -> Cursors \cup {NoCursor, Nothing}]
  /\ late \subseteq Conns

Init ==
  /\ TmplInit
  /\ pc = "active"
  /\ mayReset = FALSE
  /\ cursor \in Cursors
  /\ sent = NoCursor
  /\ seen = [c \in Conns |-> Nothing]
  /\ late = {}
-----------------------------------------------------------------------------
(* The connections.  A new subscription starts with nothing seen; it is    *)
(* late when the worker has already sent the snapshot it will swap for.    *)

NoteSubscribe(c) ==
  IF c \in subscribes \cup newSubscribes
  THEN UNCHANGED history
  ELSE /\ seen' = [seen EXCEPT ![c] = Nothing]
       /\ late' = IF NeedSnapshot /\ pc # "swap" THEN late \ {c} ELSE late \cup {c}

Subscribing(c) == AddConnection(c) /\ NoteSubscribe(c) /\ UNCHANGED thread

Leaving(c) == RemoveConnection(c) /\ UNCHANGED <<thread, history>>

Toggling(c, sub) == BeginSubscribe(c, sub) /\ UNCHANGED <<thread, history>>

OpContinues ==
  /\ OpStep
  /\ IF op.at = "act" /\ op.sub THEN NoteSubscribe(op.conn) ELSE UNCHANGED history
  /\ UNCHANGED thread

Starting(c) == StartTask(c) /\ UNCHANGED <<thread, history>>

Joining ==
  /\ JoinClearActive \/ JoinStep(pc = "exited")
  /\ UNCHANGED <<thread, history>>
-----------------------------------------------------------------------------
(* The worker thread.                                                      *)

CheckActive ==
  /\ pc = "active"
  /\ pc' = IF active THEN "subscribed" ELSE "exited"
  /\ UNCHANGED <<tmplVars, mayReset, cursor, sent, history>>

(* With no subscriber left the state is reset, once.                       *)
CheckSubscribed ==
  /\ pc = "subscribed"
  /\ IF HasSubscribes
     THEN mayReset' = TRUE /\ pc' = "poll" /\ UNCHANGED sent
     ELSE /\ sent' = IF mayReset THEN NoCursor ELSE sent
          /\ mayReset' = FALSE
          /\ pc' = "active"
  /\ UNCHANGED <<tmplVars, cursor, history>>

(* send_shared of the changed cursor reaches subscribes only.              *)
PollCursor ==
  /\ pc = "poll"
  /\ pc' = "snapshot"
  /\ IF cursor = sent
     THEN UNCHANGED <<sent, history>>
     ELSE /\ sent' = cursor
          /\ seen' = [c \in Conns |-> IF c \in subscribes THEN cursor ELSE seen[c]]
          /\ late' = late \ subscribes
  /\ UNCHANGED <<tmplVars, mayReset, cursor>>

(* Slip: no cursor is taken for one.                                       *)
SlipPollNone ==
  /\ pc = "poll"
  /\ pc' = "snapshot"
  /\ sent' = Nothing
  /\ UNCHANGED <<tmplVars, mayReset, cursor, history>>

(* get_cursor returns None.                                                *)
PollNone ==
  /\ pc = "poll"
  /\ pc' = "snapshot"
  /\ UNCHANGED <<tmplVars, mayReset, cursor, sent, history>>

(* get_cursor or get_cursor_data fails: repeat logs it, sleeps, goes on.   *)
PollError ==
  /\ pc = "poll"
  /\ pc' = "active"
  /\ UNCHANGED <<tmplVars, mayReset, cursor, sent, history>>

Snapshot ==
  /\ pc = "snapshot"
  /\ pc' = IF newSubscribes # {} THEN "send" ELSE "active"
  /\ UNCHANGED <<tmplVars, mayReset, cursor, sent, history>>

(* Slip: the snapshot is of the system's cursor, not of what was broadcast. *)
SlipSendSnapshot ==
  /\ pc = "send"
  /\ seen' = [c \in Conns |-> IF c \in newSubscribes THEN cursor ELSE seen[c]]
  /\ pc' = "swap"
  /\ UNCHANGED <<tmplVars, mayReset, cursor, sent, late>>

SendSnapshot ==
  /\ pc = "send"
  /\ seen' = [c \in Conns |-> IF c \in newSubscribes THEN sent ELSE seen[c]]
  /\ pc' = "swap"
  /\ UNCHANGED <<tmplVars, mayReset, cursor, sent, late>>

Swap ==
  /\ pc = "swap"
  /\ SwapNewSubscribes
  /\ pc' = "active"
  /\ UNCHANGED <<active, handle, joiner, task, op, mayReset, cursor, sent, history>>

Worker == CheckActive \/ CheckSubscribed \/ PollCursor \/ PollNone \/ PollError
          \/ Snapshot \/ SendSnapshot \/ Swap

(* The user moves the mouse over something else.                           *)
CursorChanges ==
  /\ \E k \in Cursors \ {cursor} : cursor' = k
  /\ UNCHANGED <<tmplVars, pc, mayReset, sent, history>>
-----------------------------------------------------------------------------
Next ==
  \/ \E c \in Conns : Starting(c) \/ Subscribing(c) \/ Leaving(c)
  \/ \E c \in Conns, sub \in BOOLEAN : Toggling(c, sub)
  \/ OpContinues
  \/ Joining
  \/ Worker
  \/ CursorChanges

(* The thread, a Server operation once begun and a join once begun are     *)
(* scheduled; whether connections come and go is theirs.                   *)
Fairness ==
  /\ WF_vars(Worker)
  /\ WF_vars(OpContinues)
  /\ WF_vars(JoinStep(pc = "exited") /\ UNCHANGED <<thread, history>>)

Spec == Init /\ [][Next]_vars /\ Fairness
-----------------------------------------------------------------------------
(* No connection is in both maps: on_unsubscribe removes it from one only, *)
(* and relies on this to have removed it altogether.                       *)
DisjointSubscribes == subscribes \cap newSubscribes = {}

(* A connection whose task ended is subscribed nowhere, so the worker never *)
(* sends to a channel nobody reads, whatever the swap was doing when       *)
(* remove_connection ran.                                                  *)
NoLeakedSubscription ==
  joiner = "idle" => \A c \in Conns : task[c] = "ended" => c \notin subscribes \cup newSubscribes

(* Who is served has been told what the service last broadcast: by a       *)
(* broadcast, or by the snapshot it got before it was swapped in.  The     *)
(* exception is who subscribed after that snapshot was sent and before the *)
(* swap: it waits for the next change.                                     *)
SubscribersInSync ==
  \A c \in subscribes : seen[c] = sent \/ c \in late

(* As long as the callback gets as far as its snapshot, a connection that  *)
(* waits for one is swapped in (or leaves).                                *)
WaitingIsSwapped ==
  []<>(pc = "snapshot") =>
    \A c \in Conns : (c \in newSubscribes) ~> (c \notin newSubscribes)

(* join returns only when the thread has left its loop.                    *)
JoinedAfterExit == (joiner = "joined") => (pc = "exited" /\ ~handle)

(* The service keeps its promise: the steps of the thread, of Server and   *)
(* of the connections come down to those of Subscription.                  *)
Status == IF ServerUp THEN "open" ELSE IF joiner = "joined" THEN "stopped" ELSE "closing"
Gone == {c \in Conns : task[c] = "ended"}
Promise == INSTANCE Subscription WITH
  waiting <- newSubscribes, served <- subscribes, gone <- Gone, status <- Status,
  value <- sent, WaitFirst <- NeedSnapshot, Values <- Cursors, NoValue <- NoCursor
KeepsPromise == Promise!Spec
=============================================================================
