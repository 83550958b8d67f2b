----------------------------- MODULE FrameFlow -----------------------------
(***************************************************************************)
(* Flow control of video: VideoFrameController of                          *)
(* src/server/video_service.rs.  A video service sends a frame to its      *)
(* subscribers and captures the next one when they have fetched it, or     *)
(* after a while.  The connections report through a channel per display    *)
(* INDEX: the monitor and the camera of one index share it, and the record *)
(* of who is to report.                                                    *)
(*                                                                         *)
(* A connection that needs no acknowledgement (~AckRequired) reports when  *)
(* it takes the frame off its own queue, naming the display; one that does *)
(* reports when its peer says VideoReceived, which names no display, so it *)
(* is looked up in DISPLAY_CONN_IDS.                                       *)
(***************************************************************************)
EXTENDS Naturals, Sequences, FiniteSets

CONSTANTS
  Services,     \* the running video services, e.g. monitor0 and camera0
  Conns,        \* the connections that watch
  DisplayIdx,   \* [Services -> display index]
  AckRequired,  \* [Conns -> BOOLEAN], video_ack_required
  MaxWaits,     \* 300 ms waits that make the 3 s after which waiting ends (10)
  MaxFrames     \* bound: frames a service sends
ASSUME FlowAssumption ==
  /\ IsFiniteSet(Conns)
  /\ DisplayIdx \in [Services -> Nat]
  /\ AckRequired \in [Conns -> BOOLEAN]
  /\ MaxWaits \in Nat \ {0}
  /\ MaxFrames \in Nat

Displays == {DisplayIdx[s] : s \in Services}
Frames == 0..MaxFrames

VARIABLES
  pc,          \* where each service's thread is
  frame,       \* history: the number of the frame last sent
  sendIds,     \* VideoFrameController.send_conn_ids
  fetched,     \* fetched_conn_ids of the current wait
  waits,       \* 300 ms waits that timed out in the current wait
  subs,        \* the service's subscribes
  notifier,    \* FRAME_FETCHED_NOTIFIERS: the channel of each display
  receiver,    \* the services that hold a display's receiver mutex
  displayIds,  \* DISPLAY_CONN_IDS, {} where there is no entry
  queue,       \* rx_video of each connection: frames not yet taken
  peer,        \* frames sent on to the peer, not yet acknowledged
  acking,      \* displays an acknowledgement is about to be sent for
  conn,        \* "open", "closing" (it has reported for all) or "closed"
  got          \* history: the frames each connection has reported

vars == <<pc, frame, sendIds, fetched, waits, subs, notifier, receiver,
          displayIds, queue, peer, acking, conn, got>>
thread == <<pc, frame, sendIds, fetched, waits, receiver>>

FrameOf == [svc : Services, no : Frames]
PCs == {"idle", "send", "record", "wait", "recv", "check", "next"}

TypeOK ==
  /\ pc \in [Services -> PCs]
  /\ frame \in [Services -> Frames]
  /\ sendIds \in [Services -> SUBSET Conns]
  /\ fetched \in [Services -> SUBSET Conns]
  /\ waits \in [Services -> 0..MaxWaits]
  /\ subs \in [Services -> SUBSET Conns]
  /\ notifier \in [Displays -> Seq(Conns)]
  /\ receiver \in [Displays -> SUBSET Services]
  /\ displayIds \in [Displays -> SUBSET Conns]
  /\ queue \in [Conns -> Seq(FrameOf)]
  /\ peer \in [Conns -> Seq(FrameOf)]
  /\ acking \in [Conns -> SUBSET Displays]
  /\ conn \in [Conns -> {"open", "closing", "closed"}]
  /\ got \in [Conns -> SUBSET FrameOf]

Init ==
  /\ pc = [s \in Services |-> "idle"]
  /\ frame = [s \in Services |-> 0]
  /\ sendIds = [s \in Services |-> {}]
  /\ fetched = [s \in Services |-> {}]
  /\ waits = [s \in Services |-> 0]
  /\ subs \in [Services -> SUBSET Conns]
  /\ notifier = [d \in Displays |-> <<>>]
  /\ receiver = [d \in Displays |-> {}]
  /\ displayIds = [d \in Displays |-> {}]
  /\ queue = [c \in Conns |-> <<>>]
  /\ peer = [c \in Conns |-> <<>>]
  /\ acking = [c \in Conns |-> {}]
  /\ conn = [c \in Conns |-> "open"]
  /\ got = [c \in Conns |-> {}]
-----------------------------------------------------------------------------
(* The service's thread.  It starts run() while somebody subscribes.       *)

Begin(s) ==
  /\ pc[s] = "idle"
  /\ subs[s] # {}
  /\ frame[s] < MaxFrames
  /\ pc' = [pc EXCEPT ![s] = "send"]
  /\ UNCHANGED <<frame, sendIds, fetched, waits, subs, notifier, receiver,
                 displayIds, queue, peer, acking, conn, got>>

(* frame_controller.reset(), then send_video_frame to all subscribers; if  *)
(* they have all gone there is nothing to record and nothing to wait for.  *)
SendFrame(s) ==
  /\ pc[s] = "send"
  /\ frame' = [frame EXCEPT ![s] = @ + 1]
  /\ queue' = [c \in Conns |-> IF c \in subs[s] /\ conn[c] # "closed"
                               THEN Append(queue[c], [svc |-> s, no |-> frame[s] + 1])
                               ELSE queue[c]]
  /\ sendIds' = [sendIds EXCEPT ![s] = subs[s]]
  /\ pc' = [pc EXCEPT ![s] = IF subs[s] = {} THEN "next" ELSE "record"]
  /\ UNCHANGED <<fetched, waits, subs, notifier, receiver, displayIds, peer,
                 acking, conn, got>>

(* No image, or it cannot be encoded: there is nothing to wait for, but    *)
(* the record of the display, another service's perhaps, is removed all    *)
(* the same.                                                               *)
NoFrame(s) ==
  /\ pc[s] = "send"
  /\ pc' = [pc EXCEPT ![s] = "next"]
  /\ UNCHANGED <<frame, sendIds, fetched, waits, subs, notifier, receiver,
                 displayIds, queue, peer, acking, conn, got>>

(* The rest of set_send.                                                   *)
RecordSend(s) ==
  /\ pc[s] = "record"
  /\ displayIds' = [displayIds EXCEPT ![DisplayIdx[s]] = sendIds[s]]
  /\ pc' = [pc EXCEPT ![s] = "wait"]
  /\ UNCHANGED <<frame, sendIds, fetched, waits, subs, notifier, receiver,
                 queue, peer, acking, conn, got>>

(* Slip: no end after 3 s.                                                 *)
SlipLockReceiver(s) ==
  /\ pc[s] = "wait"
  /\ receiver[DisplayIdx[s]] = {}
  /\ receiver' = [receiver EXCEPT ![DisplayIdx[s]] = {s}]
  /\ pc' = [pc EXCEPT ![s] = "recv"]
  /\ UNCHANGED <<frame, sendIds, fetched, waits, subs, notifier, displayIds,
                 queue, peer, acking, conn, got>>

(* The loop is entered again while less than 3 s have passed.  It needs    *)
(* the receiver, which another service of this index may be holding.       *)
LockReceiver(s) ==
  /\ pc[s] = "wait"
  /\ waits[s] < MaxWaits
  /\ receiver[DisplayIdx[s]] = {}
  /\ receiver' = [receiver EXCEPT ![DisplayIdx[s]] = {s}]
  /\ pc' = [pc EXCEPT ![s] = "recv"]
  /\ UNCHANGED <<frame, sendIds, fetched, waits, subs, notifier, displayIds,
                 queue, peer, acking, conn, got>>

Unlock(s) == receiver' = [receiver EXCEPT ![DisplayIdx[s]] = {}]

(* recv, then all that has arrived.                                        *)
Recv(s) ==
  LET d == DisplayIdx[s] IN
  /\ pc[s] = "recv"
  /\ notifier[d] # <<>>
  /\ fetched' = [fetched EXCEPT ![s] = @ \cup {notifier[d][i] : i \in DOMAIN notifier[d]}]
  /\ notifier' = [notifier EXCEPT ![d] = <<>>]
  /\ Unlock(s)
  /\ pc' = [pc EXCEPT ![s] = "check"]
  /\ UNCHANGED <<frame, sendIds, waits, subs, displayIds, queue, peer, acking, conn, got>>

(* Slip: the clock starts again with each try.                             *)
SlipRecvTimeout(s) ==
  /\ pc[s] = "recv"
  /\ notifier[DisplayIdx[s]] = <<>>
  /\ Unlock(s)
  /\ pc' = [pc EXCEPT ![s] = "check"]
  /\ UNCHANGED <<frame, sendIds, fetched, waits, subs, notifier, displayIds, queue,
                 peer, acking, conn, got>>

(* 300 ms without a report.  They pass for every service that is waiting.  *)
RecvTimeout(s) ==
  /\ pc[s] = "recv"
  /\ notifier[DisplayIdx[s]] = <<>>
  /\ waits' = [t \in Services |->
                 IF t = s \/ (pc[t] = "wait" /\ DisplayIdx[t] = DisplayIdx[s] /\ waits[t] < MaxWaits)
                 THEN waits[t] + 1 ELSE waits[t]]
  /\ Unlock(s)
  /\ pc' = [pc EXCEPT ![s] = "check"]
  /\ UNCHANGED <<frame, sendIds, fetched, subs, notifier, displayIds, queue,
                 peer, acking, conn, got>>

(* Slip: one report more than there are connections.                       *)
SlipEnough(s) == Cardinality(fetched[s]) > Cardinality(sendIds[s])

Enough(s) == Cardinality(fetched[s]) >= Cardinality(sendIds[s])

CheckFetched(s) ==
  /\ pc[s] = "check"
  /\ pc' = [pc EXCEPT ![s] = IF Enough(s) THEN "next" ELSE "wait"]
  /\ UNCHANGED <<frame, sendIds, fetched, waits, subs, notifier, receiver,
                 displayIds, queue, peer, acking, conn, got>>

WaitIsOver(s) ==
  /\ pc[s] = "wait"
  /\ waits[s] >= MaxWaits
  /\ pc' = [pc EXCEPT ![s] = "next"]
  /\ UNCHANGED <<frame, sendIds, fetched, waits, subs, notifier, receiver,
                 displayIds, queue, peer, acking, conn, got>>

(* fetched_conn_ids and the clock are made anew for each wait.             *)
ClearSend(s) ==
  /\ displayIds' = [displayIds EXCEPT ![DisplayIdx[s]] = {}]
  /\ sendIds' = [sendIds EXCEPT ![s] = {}]
  /\ fetched' = [fetched EXCEPT ![s] = {}]
  /\ waits' = [waits EXCEPT ![s] = 0]

(* The record is removed and the loop goes on while somebody subscribes.   *)
NextFrame(s) ==
  /\ pc[s] = "next"
  /\ ClearSend(s)
  /\ pc' = [pc EXCEPT ![s] = IF subs[s] # {} /\ frame[s] < MaxFrames THEN "send" ELSE "idle"]
  /\ UNCHANGED <<frame, subs, notifier, receiver, queue, peer, acking, conn, got>>

(* Slip: no Raii.                                                          *)
SlipBail(s) ==
  /\ pc[s] \in {"send", "wait"}
  /\ pc' = [pc EXCEPT ![s] = "idle"]
  /\ UNCHANGED <<frame, sendIds, fetched, waits, subs, notifier, receiver, displayIds,
                 queue, peer, acking, conn, got>>

(* check_privacy_mode_changed bails out of the wait, or an error or SWITCH *)
(* out of the loop: Raii removes the record.                               *)
Bail(s) ==
  /\ pc[s] \in {"send", "wait"}
  /\ ClearSend(s)
  /\ pc' = [pc EXCEPT ![s] = "idle"]
  /\ UNCHANGED <<frame, subs, notifier, receiver, queue, peer, acking, conn, got>>

Thread(s) == \/ Begin(s) \/ SendFrame(s) \/ NoFrame(s) \/ RecordSend(s) \/ LockReceiver(s)
             \/ Recv(s) \/ RecvTimeout(s) \/ CheckFetched(s) \/ WaitIsOver(s) \/ NextFrame(s) \/ Bail(s)
-----------------------------------------------------------------------------
(* The connections.                                                        *)

Notify(d, c) == notifier' = [notifier EXCEPT ![d] = Append(@, c)]

(* rx_video.recv(): notify_video_frame_fetched unless the peer is to       *)
(* acknowledge; then the frame goes out.                                   *)
TakeFrame(c) ==
  /\ conn[c] = "open"
  /\ queue[c] # <<>>
  /\ queue' = [queue EXCEPT ![c] = Tail(@)]
  /\ IF AckRequired[c]
     THEN /\ peer' = [peer EXCEPT ![c] = Append(@, Head(queue[c]))]
          /\ UNCHANGED <<notifier, got>>
     ELSE /\ Notify(DisplayIdx[Head(queue[c]).svc], c)
          /\ got' = [got EXCEPT ![c] = @ \cup {Head(queue[c])}]
          /\ UNCHANGED peer
  /\ UNCHANGED <<thread, subs, displayIds, acking, conn>>

(* VideoReceived: the displays are looked up under one lock ...            *)
VideoReceived(c) ==
  /\ conn[c] = "open"
  /\ peer[c] # <<>>
  /\ acking[c] = {}
  /\ peer' = [peer EXCEPT ![c] = Tail(@)]
  /\ got' = [got EXCEPT ![c] = @ \cup {Head(peer[c])}]
  /\ acking' = [acking EXCEPT ![c] = {d \in Displays : c \in displayIds[d]}]
  /\ UNCHANGED <<thread, subs, notifier, displayIds, queue, conn>>

(* ... and notified under another.                                         *)
NotifyAll(c) ==
  /\ acking[c] # {}
  /\ notifier' = [d \in Displays |-> IF d \in acking[c] THEN Append(notifier[d], c) ELSE notifier[d]]
  /\ acking' = [acking EXCEPT ![c] = {}]
  /\ UNCHANGED <<thread, subs, displayIds, queue, peer, conn, got>>

(* The loop ended: the connection reports for every display that waits for *)
(* it, and is removed from the services a while later.                     *)
Close(c) ==
  /\ conn[c] = "open"
  /\ acking[c] = {}
  /\ conn' = [conn EXCEPT ![c] = "closing"]
  /\ acking' = [acking EXCEPT ![c] = {d \in Displays : c \in displayIds[d]}]
  /\ UNCHANGED <<thread, subs, notifier, displayIds, queue, peer, got>>

RemoveConnection(c) ==
  /\ conn[c] = "closing"
  /\ acking[c] = {}
  /\ conn' = [conn EXCEPT ![c] = "closed"]
  /\ subs' = [s \in Services |-> subs[s] \ {c}]
  /\ queue' = [queue EXCEPT ![c] = <<>>]
  /\ peer' = [peer EXCEPT ![c] = <<>>]
  /\ UNCHANGED <<thread, notifier, displayIds, acking, got>>
-----------------------------------------------------------------------------
Next ==
  \/ \E s \in Services : Thread(s)
  \/ \E c \in Conns : TakeFrame(c) \/ VideoReceived(c) \/ NotifyAll(c)
                      \/ Close(c) \/ RemoveConnection(c)

(* Threads run, and a task that has begun to notify or to close goes on.   *)
(* A connection may be as slow as it likes, or hang for good; the receiver *)
(* is a fair mutex.                                                        *)
Fairness ==
  /\ \A s \in Services : WF_vars(Thread(s)) /\ SF_vars(LockReceiver(s))
  /\ \A c \in Conns : WF_vars(NotifyAll(c)) /\ WF_vars(RemoveConnection(c))

Spec == Init /\ [][Next]_vars /\ Fairness
-----------------------------------------------------------------------------
Waiting(s) == pc[s] \in {"wait", "recv", "check"}

(* Nobody is recorded for a display none of whose services is between a    *)
(* send and the end of its wait: a VideoReceived or a close then reports   *)
(* for no frame but a pending one.                                         *)
RecordOnlyWhilePending ==
  \A d \in Displays : displayIds[d] # {} =>
    \E s \in Services : DisplayIdx[s] = d /\ (Waiting(s) \/ pc[s] = "next")

(* A service that has its display index for itself (the other one has sent *)
(* nothing), and whose connections report on their own, waits for the full *)
(* 3 s only if one of them has not reported the frame it waits for (or has *)
(* just done so).                                                          *)
Alone(s) == \A t \in Services \ {s} : DisplayIdx[t] = DisplayIdx[s] => frame[t] = 0
Pending(s, c) ==
  \/ [svc |-> s, no |-> frame[s]] \notin got[c]
  \/ \E i \in DOMAIN notifier[DisplayIdx[s]] : notifier[DisplayIdx[s]][i] = c
NoSpuriousStall ==
  \A s \in Services :
    (pc[s] = "wait" /\ waits[s] = MaxWaits /\ Alone(s)
       /\ \A c \in sendIds[s] : ~AckRequired[c])
    => \E c \in sendIds[s] : Pending(s, c)

(* A connection that is slow, hangs or goes away never stops a display:    *)
(* each wait ends.                                                         *)
WaitEnds == \A s \in Services : (pc[s] = "record") ~> ~(Waiting(s) \/ pc[s] = "record")
=============================================================================
