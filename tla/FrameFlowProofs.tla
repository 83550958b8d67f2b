--------------------------- MODULE FrameFlowProofs ---------------------------
(***************************************************************************)
(* Flow control for any number of services, displays and connections, with *)
(* and without acknowledgement, and for waits of any length.               *)
(***************************************************************************)
EXTENDS FrameFlow, FiniteSetTheorems, TLAPS

(* A frame is sent only below the bound, waited for only once sent, and    *)
(* the record of who fetched it is made anew for each.                     *)
Waits ==
  \A s \in Services :
    /\ pc[s] = "send" => frame[s] < MaxFrames
    /\ pc[s] \in {"record", "wait", "recv", "check"} => frame[s] > 0
    /\ pc[s] \in {"idle", "send", "record"} => waits[s] = 0
    /\ pc[s] = "recv" => waits[s] < MaxWaits

(* No frame is queued, on its way or reported before it is sent; only who  *)
(* is to acknowledge frames has some on their way.                         *)
Sent(f) == f.no <= frame[f.svc]
OnlySent ==
  \A c \in Conns :
    /\ \A i \in DOMAIN queue[c] : Sent(queue[c][i])
    /\ \A i \in DOMAIN peer[c] : Sent(peer[c][i])
    /\ \A f \in got[c] : Sent(f)
    /\ ~AckRequired[c] => peer[c] = <<>>

Reported(s, c) == [svc |-> s, no |-> frame[s]] \in got[c]
Notified(s, c) == \E i \in DOMAIN notifier[DisplayIdx[s]] : notifier[DisplayIdx[s]][i] = c

(* What is reported to a service that is alone is not lost.                *)
NoReportLost ==
  \A s \in Services :
    Alone(s) /\ (Waiting(s) \/ pc[s] = "record") =>
      \A c \in sendIds[s] : ~AckRequired[c] /\ Reported(s, c) => c \in fetched[s] \/ Notified(s, c)

(* It waits once more only if it has not got enough reports.               *)
WaitsForMore == \A s \in Services : Alone(s) /\ pc[s] = "wait" /\ waits[s] > 0 => ~Enough(s)

IInv ==
  /\ TypeOK
  /\ Waits
  /\ OnlySent
  /\ RecordOnlyWhilePending
  /\ NoReportLost
  /\ WaitsForMore
-----------------------------------------------------------------------------
(* The invariant holds at the beginning.                                   *)
LEMMA InitIInv == Init => IInv
  <1> SUFFICES ASSUME Init PROVE IInv
    OBVIOUS
  <1>1. 0 \in Frames /\ 0 \in 0..MaxWaits
    BY FlowAssumption DEF Frames
  <1>2. TypeOK
    BY <1>1 DEF Init, TypeOK, PCs
  <1>3. Waits /\ OnlySent /\ RecordOnlyWhilePending /\ NoReportLost /\ WaitsForMore
    BY DEF Init, Waits, OnlySent, RecordOnlyWhilePending, NoReportLost, WaitsForMore, Waiting
  <1> QED BY <1>2, <1>3 DEF IInv
-----------------------------------------------------------------------------
(* Every action keeps the types.                                           *)
LEMMA TypeStep ==
  ASSUME TypeOK, Waits, [Next]_vars
  PROVE  TypeOK'
  <1> USE DEF TypeOK
  <1>0. /\ \A s \in Services : DisplayIdx[s] \in Displays
        /\ 0 \in 0..MaxWaits
    BY FlowAssumption DEF Displays
  <1>a. ASSUME NEW s \in Services, NEW at \in PCs, pc' = [pc EXCEPT ![s] = at] PROVE pc' \in [Services -> PCs]
    BY <1>a
  <1>b. ASSUME NEW s \in Services, Unlock(s) PROVE receiver' \in [Displays -> SUBSET Services]
    BY <1>b DEF Unlock
  <1>c. ASSUME NEW s \in Services, ClearSend(s)
        PROVE  /\ displayIds' \in [Displays -> SUBSET Conns] /\ sendIds' \in [Services -> SUBSET Conns]
               /\ fetched' \in [Services -> SUBSET Conns] /\ waits' \in [Services -> 0..MaxWaits]
    BY <1>0, <1>c DEF ClearSend
  <1>1. ASSUME NEW s \in Services, Begin(s) \/ NoFrame(s) \/ CheckFetched(s) \/ WaitIsOver(s) PROVE TypeOK'
    BY <1>1 DEF Begin, NoFrame, CheckFetched, WaitIsOver, PCs
  <1>2. ASSUME NEW s \in Services, SendFrame(s) PROVE TypeOK'
    <2>1. frame[s] + 1 \in Frames
      BY <1>2, FlowAssumption DEF SendFrame, Waits, Frames
    <2>2. [svc |-> s, no |-> frame[s] + 1] \in FrameOf
      BY <2>1 DEF FrameOf
    <2>3. queue' \in [Conns -> Seq(FrameOf)]
      BY <1>2, <2>2 DEF SendFrame
    <2> QED BY <1>2, <2>1, <2>3 DEF SendFrame, PCs
  <1>3. ASSUME NEW s \in Services, RecordSend(s) PROVE TypeOK'
    <2>1. pc' \in [Services -> PCs]
      BY <1>3 DEF RecordSend, PCs
    <2>2. displayIds' \in [Displays -> SUBSET Conns]
      BY <1>3 DEF RecordSend
    <2> QED BY <1>3, <2>1, <2>2 DEF RecordSend
  <1>4. ASSUME NEW s \in Services, LockReceiver(s) PROVE TypeOK'
    <2>1. pc' \in [Services -> PCs]
      BY <1>4 DEF LockReceiver, PCs
    <2>2. receiver' \in [Displays -> SUBSET Services]
      BY <1>4 DEF LockReceiver
    <2> QED BY <1>4, <2>1, <2>2 DEF LockReceiver
  <1>5. ASSUME NEW s \in Services, Recv(s) PROVE TypeOK'
    <2>1. {notifier[DisplayIdx[s]][i] : i \in DOMAIN notifier[DisplayIdx[s]]} \subseteq Conns
      BY <1>0
    <2>2. fetched' \in [Services -> SUBSET Conns]
      BY <1>5, <2>1 DEF Recv
    <2>3. notifier' \in [Displays -> Seq(Conns)]
      <3>1. <<>> \in Seq(Conns)
        OBVIOUS
      <3> QED BY <1>5, <3>1 DEF Recv
    <2>4. pc' \in [Services -> PCs]
      BY <1>5 DEF Recv, PCs
    <2> QED BY <1>5, <1>b, <2>2, <2>3, <2>4 DEF Recv
  <1>6. ASSUME NEW s \in Services, RecvTimeout(s) PROVE TypeOK'
    <2>1. waits' \in [Services -> 0..MaxWaits]
      BY <1>6, FlowAssumption DEF RecvTimeout, Waits
    <2>2. pc' \in [Services -> PCs]
      BY <1>6 DEF RecvTimeout, PCs
    <2> QED BY <1>6, <1>b, <2>1, <2>2 DEF RecvTimeout
  <1>7. ASSUME NEW s \in Services, NextFrame(s) \/ Bail(s) PROVE TypeOK'
    <2>1. pc' \in [Services -> PCs]
      BY <1>7 DEF NextFrame, Bail, PCs
    <2>2. ClearSend(s) /\ UNCHANGED <<frame, subs, notifier, receiver, queue, peer, acking, conn, got>>
      BY <1>7 DEF NextFrame, Bail
    <2> QED BY <1>c, <2>1, <2>2
  <1>8. ASSUME NEW c \in Conns, TakeFrame(c) PROVE TypeOK'
    <2>1. Head(queue[c]) \in FrameOf /\ Tail(queue[c]) \in Seq(FrameOf)
      BY <1>8 DEF TakeFrame
    <2>2. DisplayIdx[Head(queue[c]).svc] \in Displays
      BY <1>0, <2>1 DEF FrameOf
    <2>3. notifier' \in [Displays -> Seq(Conns)]
      <3>1. \A d \in Displays : Append(notifier[d], c) \in Seq(Conns)
        OBVIOUS
      <3>2. notifier' = notifier \/ \E d \in Displays : notifier' = [notifier EXCEPT ![d] = Append(@, c)]
        BY <1>8, <2>2 DEF TakeFrame, Notify
      <3>3. ASSUME NEW d \in Displays, NEW q \in Seq(Conns) PROVE [notifier EXCEPT ![d] = q] \in [Displays -> Seq(Conns)]
        OBVIOUS
      <3> QED BY <3>1, <3>2, <3>3
    <2>4. peer' \in [Conns -> Seq(FrameOf)]
      <3>1. Append(peer[c], Head(queue[c])) \in Seq(FrameOf)
        BY <2>1
      <3>2. peer' = peer \/ peer' = [peer EXCEPT ![c] = Append(@, Head(queue[c]))]
        BY <1>8 DEF TakeFrame
      <3>3. ASSUME NEW q \in Seq(FrameOf) PROVE [peer EXCEPT ![c] = q] \in [Conns -> Seq(FrameOf)]
        OBVIOUS
      <3> QED BY <3>1, <3>2, <3>3
    <2>5. got' \in [Conns -> SUBSET FrameOf]
      <3>1. got[c] \cup {Head(queue[c])} \in SUBSET FrameOf
        BY <2>1
      <3> QED BY <1>8, <3>1 DEF TakeFrame
    <2>6. queue' \in [Conns -> Seq(FrameOf)]
      BY <1>8, <2>1 DEF TakeFrame
    <2> QED BY <1>8, <2>3, <2>4, <2>5, <2>6 DEF TakeFrame, thread
  <1>9. ASSUME NEW c \in Conns, VideoReceived(c) PROVE TypeOK'
    <2>1. Head(peer[c]) \in FrameOf /\ Tail(peer[c]) \in Seq(FrameOf)
      BY <1>9 DEF VideoReceived
    <2> QED BY <1>9, <2>1 DEF VideoReceived, thread
  <1>10. ASSUME NEW c \in Conns, NotifyAll(c) PROVE TypeOK'
    <2>1. notifier' \in [Displays -> Seq(Conns)]
      BY <1>10 DEF NotifyAll
    <2> QED BY <1>10, <2>1 DEF NotifyAll, thread
  <1>11. ASSUME NEW c \in Conns, Close(c) PROVE TypeOK'
    BY <1>11 DEF Close, thread
  <1>12. ASSUME NEW c \in Conns, RemoveConnection(c) PROVE TypeOK'
    <2>1. subs' \in [Services -> SUBSET Conns]
      BY <1>12 DEF RemoveConnection
    <2>2. queue' \in [Conns -> Seq(FrameOf)] /\ peer' \in [Conns -> Seq(FrameOf)]
      <3>1. <<>> \in Seq(FrameOf)
        OBVIOUS
      <3> QED BY <1>12, <3>1 DEF RemoveConnection
    <2> QED BY <1>12, <2>1, <2>2 DEF RemoveConnection, thread
  <1>13. CASE UNCHANGED vars
    BY <1>13 DEF vars
  <1> QED BY <1>1, <1>2, <1>3, <1>4, <1>5, <1>6, <1>7, <1>8, <1>9, <1>10, <1>11, <1>12, <1>13 DEF Next, Thread

(* Waits are counted from the sending of a frame.                          *)
LEMMA WaitsStep ==
  ASSUME TypeOK, Waits, [Next]_vars
  PROVE  Waits'
  <1> USE FlowAssumption DEF TypeOK, Waits, Frames
  <1>1. ASSUME NEW s \in Services, Begin(s) \/ SendFrame(s) \/ NoFrame(s) \/ RecordSend(s) PROVE Waits'
    BY <1>1 DEF Begin, SendFrame, NoFrame, RecordSend
  <1>2. ASSUME NEW s \in Services, LockReceiver(s) \/ Recv(s) \/ CheckFetched(s) \/ WaitIsOver(s) PROVE Waits'
    BY <1>2 DEF LockReceiver, Recv, CheckFetched, WaitIsOver
  <1>3. ASSUME NEW s \in Services, RecvTimeout(s) PROVE Waits'
    BY <1>3 DEF RecvTimeout
  <1>4. ASSUME NEW s \in Services, NextFrame(s) PROVE Waits'
    BY <1>4 DEF NextFrame, ClearSend
  <1>5. ASSUME NEW s \in Services, Bail(s) PROVE Waits'
    BY <1>5 DEF Bail, ClearSend
  <1>6. ASSUME NEW c \in Conns,
               TakeFrame(c) \/ VideoReceived(c) \/ NotifyAll(c) \/ Close(c) \/ RemoveConnection(c)
        PROVE  Waits'
    BY <1>6 DEF TakeFrame, VideoReceived, NotifyAll, Close, RemoveConnection, thread
  <1>7. CASE UNCHANGED vars
    BY <1>7 DEF vars
  <1> QED BY <1>1, <1>2, <1>3, <1>4, <1>5, <1>6, <1>7 DEF Next, Thread

(* The record of a display is removed by the wait that made it, or before. *)
LEMMA RecordStep ==
  ASSUME TypeOK, RecordOnlyWhilePending, [Next]_vars
  PROVE  RecordOnlyWhilePending'
  <1> DEFINE Pends(s) == Waiting(s) \/ pc[s] = "next"
  <1>1. ASSUME displayIds' = displayIds, \A s \in Services : Pends(s) => Pends(s)'
        PROVE  RecordOnlyWhilePending'
    BY <1>1 DEF RecordOnlyWhilePending
  <1>2. ASSUME NEW s \in Services, RecordSend(s) PROVE RecordOnlyWhilePending'
    BY <1>2 DEF TypeOK, RecordOnlyWhilePending, Waiting, Displays, RecordSend
  <1>3. ASSUME NEW s \in Services, NextFrame(s) \/ Bail(s) PROVE RecordOnlyWhilePending'
    <2>1. displayIds' = [displayIds EXCEPT ![DisplayIdx[s]] = {}]
      BY <1>3 DEF NextFrame, Bail, ClearSend
    <2>2. \A t \in Services \ {s} : pc'[t] = pc[t]
      BY <1>3 DEF NextFrame, Bail, TypeOK
    <2>3. ASSUME NEW d \in Displays, displayIds'[d] # {}
          PROVE  \E t \in Services : DisplayIdx[t] = d /\ Pends(t)'
      <3>1. d # DisplayIdx[s] /\ displayIds[d] # {}
        BY <2>1, <2>3 DEF TypeOK
      <3>2. PICK t \in Services : DisplayIdx[t] = d /\ Pends(t)
        BY <3>1 DEF RecordOnlyWhilePending
      <3> QED BY <2>2, <3>1, <3>2 DEF Waiting
    <2> QED BY <2>3 DEF RecordOnlyWhilePending
  <1>4. ASSUME NEW s \in Services, NEW at \in PCs, displayIds' = displayIds, pc' = [pc EXCEPT ![s] = at],
               Pends(s) => at \in {"wait", "recv", "check", "next"}
        PROVE  RecordOnlyWhilePending'
    BY <1>1, <1>4 DEF TypeOK, Waiting
  <1>5. ASSUME NEW s \in Services, Begin(s) \/ SendFrame(s) \/ NoFrame(s) \/ LockReceiver(s) PROVE RecordOnlyWhilePending'
    BY <1>4, <1>5 DEF Begin, SendFrame, NoFrame, LockReceiver, Waiting, PCs
  <1>6. ASSUME NEW s \in Services, Recv(s) \/ RecvTimeout(s) \/ CheckFetched(s) \/ WaitIsOver(s) PROVE RecordOnlyWhilePending'
    BY <1>4, <1>6 DEF Recv, RecvTimeout, CheckFetched, WaitIsOver, PCs
  <1>7. ASSUME UNCHANGED <<pc, displayIds>> PROVE RecordOnlyWhilePending'
    BY <1>7 DEF RecordOnlyWhilePending, Waiting
  <1>8. ASSUME NEW c \in Conns,
               TakeFrame(c) \/ VideoReceived(c) \/ NotifyAll(c) \/ Close(c) \/ RemoveConnection(c)
        PROVE  UNCHANGED <<pc, displayIds>>
    BY <1>8 DEF TakeFrame, VideoReceived, NotifyAll, Close, RemoveConnection, thread
  <1> QED BY <1>2, <1>3, <1>5, <1>6, <1>7, <1>8 DEF Next, Thread, vars
-----------------------------------------------------------------------------
(* Frames are numbered as they are sent, and reported as they were.        *)
LEMMA SentStep ==
  ASSUME TypeOK, Waits, OnlySent, [Next]_vars
  PROVE  OnlySent'
  <1>1. ASSUME UNCHANGED <<frame, queue, peer, got>> PROVE OnlySent'
    BY <1>1 DEF OnlySent, Sent
  <1>2. ASSUME NEW s \in Services, SendFrame(s) PROVE OnlySent'
    <2> DEFINE new == [svc |-> s, no |-> frame[s] + 1]
               NowSent(f) == f.no <= frame'[f.svc]
    <2>1. \A f \in FrameOf : Sent(f) => NowSent(f)
      BY <1>2, FlowAssumption DEF SendFrame, Sent, TypeOK, FrameOf, Frames
    <2>2. NowSent(new)
      BY <1>2, FlowAssumption DEF SendFrame, TypeOK, Frames
    <2>3. /\ UNCHANGED <<peer, got>>
          /\ \A c \in Conns : queue'[c] = queue[c] \/ queue'[c] = Append(queue[c], new)
      BY <1>2 DEF SendFrame
    <2> HIDE DEF new, NowSent
    <2>4. ASSUME NEW c \in Conns, NEW i \in DOMAIN queue'[c] PROVE NowSent(queue'[c][i])
      <3>1. queue[c] \in Seq(FrameOf)
        BY DEF TypeOK
      <3>2. (i \in DOMAIN queue[c] /\ queue'[c][i] = queue[c][i]) \/ queue'[c][i] = new
        BY <2>3, <2>4, <3>1
      <3>3. \A k \in DOMAIN queue[c] : queue[c][k] \in FrameOf /\ Sent(queue[c][k])
        BY <3>1 DEF OnlySent
      <3> QED BY <2>1, <2>2, <3>2, <3>3
    <2>5. ASSUME NEW c \in Conns, NEW i \in DOMAIN peer[c] PROVE NowSent(peer[c][i])
      <3>1. peer[c][i] \in FrameOf /\ Sent(peer[c][i])
        BY DEF OnlySent, TypeOK
      <3> QED BY <2>1, <3>1
    <2>6. ASSUME NEW c \in Conns, NEW f \in got[c] PROVE NowSent(f)
      <3>1. f \in FrameOf /\ Sent(f)
        BY DEF OnlySent, TypeOK
      <3> QED BY <2>1, <3>1
    <2>7. \A c \in Conns : ~AckRequired[c] => peer'[c] = <<>>
      BY <2>3 DEF OnlySent
    <2> QED BY <2>3, <2>4, <2>5, <2>6, <2>7 DEF OnlySent, Sent, NowSent
  <1>3. ASSUME NEW c \in Conns, TakeFrame(c) \/ VideoReceived(c) \/ RemoveConnection(c) PROVE OnlySent'
    <2> DEFINE Known(q) == \A i \in DOMAIN q : Sent(q[i])
    <2>1. frame' = frame
      BY <1>3 DEF TakeFrame, VideoReceived, RemoveConnection, thread
    <2>2. \A q \in Seq(FrameOf) : q # <<>> /\ Known(q) => Known(Tail(q)) /\ Sent(Head(q))
      OBVIOUS
    <2>3. \A q \in Seq(FrameOf), f \in FrameOf : Known(q) /\ Sent(f) => Known(Append(q, f))
      OBVIOUS
    <2>4. Known(<<>>)
      OBVIOUS
    <2>5. \A d \in Conns : /\ Known(queue[d]) /\ Known(peer[d])
                           /\ queue[d] \in Seq(FrameOf) /\ peer[d] \in Seq(FrameOf)
      BY DEF OnlySent, TypeOK
    <2>6. queue[c] # <<>> => Head(queue[c]) \in FrameOf
      BY <2>5
    <2>7. \A d \in Conns : Known(queue'[d])
      <3>1. \A d \in Conns : \/ queue'[d] = queue[d] \/ queue'[d] = <<>>
                             \/ queue[d] # <<>> /\ queue'[d] = Tail(queue[d])
        BY <1>3 DEF TakeFrame, VideoReceived, RemoveConnection, TypeOK
      <3> HIDE DEF Known
      <3> QED BY <2>2, <2>4, <2>5, <3>1
    <2>8. \A d \in Conns : Known(peer'[d])
      <3>1. \A d \in Conns : \/ peer'[d] = peer[d] \/ peer'[d] = <<>>
                             \/ queue[c] # <<>> /\ peer'[d] = Append(peer[d], Head(queue[c]))
                             \/ peer[d] # <<>> /\ peer'[d] = Tail(peer[d])
        BY <1>3 DEF TakeFrame, VideoReceived, RemoveConnection, TypeOK
      <3> HIDE DEF Known
      <3>2. queue[c] # <<>> => Sent(Head(queue[c]))
        BY <2>2, <2>5
      <3> QED BY <2>2, <2>3, <2>4, <2>5, <2>6, <3>1, <3>2
    <2>9. \A d \in Conns : \A f \in got'[d] : Sent(f)
      <3>1. \A d \in Conns : \/ got'[d] = got[d]
                             \/ queue[c] # <<>> /\ got'[d] = got[d] \cup {Head(queue[c])}
                             \/ peer[c] # <<>> /\ got'[d] = got[d] \cup {Head(peer[c])}
        BY <1>3 DEF TakeFrame, VideoReceived, RemoveConnection, TypeOK
      <3> HIDE DEF Known
      <3>2. queue[c] # <<>> => Sent(Head(queue[c]))
        BY <2>2, <2>5
      <3>3. peer[c] # <<>> => Sent(Head(peer[c]))
        BY <2>2, <2>5
      <3> QED BY <3>1, <3>2, <3>3 DEF OnlySent
    <2>10. \A d \in Conns : ~AckRequired[d] => peer'[d] = <<>>
      BY <1>3 DEF TakeFrame, VideoReceived, RemoveConnection, TypeOK, OnlySent
    <2> QED BY <2>1, <2>7, <2>8, <2>9, <2>10 DEF OnlySent, Sent, Known
  <1>4. ASSUME NEW s \in Services, Thread(s), ~SendFrame(s) PROVE UNCHANGED <<frame, queue, peer, got>>
    BY <1>4 DEF Thread, Begin, NoFrame, RecordSend, LockReceiver, Recv, RecvTimeout, CheckFetched,
       WaitIsOver, NextFrame, Bail
  <1>5. ASSUME NEW c \in Conns, NotifyAll(c) \/ Close(c) PROVE UNCHANGED <<frame, queue, peer, got>>
    BY <1>5 DEF NotifyAll, Close, thread
  <1> QED BY <1>1, <1>2, <1>3, <1>4, <1>5 DEF Next, vars
-----------------------------------------------------------------------------
(* A service that is alone has been so far, and no other of its display    *)
(* waits: nobody else holds the receiver, or counts its 300 ms.            *)
LEMMA AloneFacts ==
  ASSUME TypeOK, Waits, [Next]_vars, NEW s \in Services, Alone(s)'
  PROVE  /\ Alone(s)
         /\ \A t \in Services \ {s} : DisplayIdx[t] = DisplayIdx[s] => pc[t] \notin {"record", "wait", "recv", "check"}
  <1>1. \A t \in Services : frame[t] \in Nat
    BY FlowAssumption DEF TypeOK, Frames
  <1>2. ASSUME NEW t \in Services, frame'[t] = 0 PROVE frame[t] = 0
    <2>1. ASSUME NEW r \in Services, SendFrame(r) PROVE frame[t] = 0
      BY <1>1, <1>2, <2>1 DEF SendFrame, TypeOK
    <2>2. ASSUME NEW r \in Services, Thread(r), ~SendFrame(r) PROVE frame' = frame
      BY <2>2 DEF Thread, Begin, NoFrame, RecordSend, LockReceiver, Recv, RecvTimeout, CheckFetched,
         WaitIsOver, NextFrame, Bail
    <2>3. ASSUME NEW c \in Conns,
                 TakeFrame(c) \/ VideoReceived(c) \/ NotifyAll(c) \/ Close(c) \/ RemoveConnection(c)
          PROVE  frame' = frame
      BY <2>3 DEF TakeFrame, VideoReceived, NotifyAll, Close, RemoveConnection, thread
    <2> QED BY <1>2, <2>1, <2>2, <2>3 DEF Next, vars
  <1> QED BY <1>1, <1>2 DEF Alone, Waits

(* What another service's thread leaves to one that is alone.              *)
LEMMA OtherThread ==
  ASSUME TypeOK, NEW s \in Services, NEW t \in Services \ {s}, Thread(t),
         DisplayIdx[t] = DisplayIdx[s] => pc[t] \notin {"record", "wait", "recv", "check"}
  PROVE  /\ pc'[s] = pc[s] /\ frame'[s] = frame[s] /\ sendIds'[s] = sendIds[s] /\ fetched'[s] = fetched[s]
         /\ notifier'[DisplayIdx[s]] = notifier[DisplayIdx[s]] /\ got' = got
         /\ pc[s] = "wait" => waits'[s] = waits[s]
  <1> USE DEF TypeOK
  <1>1. DisplayIdx[s] \in Displays /\ DisplayIdx[t] \in Displays
    BY DEF Displays
  <1>2. CASE Begin(t) \/ SendFrame(t) \/ NoFrame(t) \/ RecordSend(t) \/ LockReceiver(t)
    BY <1>2 DEF Begin, SendFrame, NoFrame, RecordSend, LockReceiver
  <1>3. CASE Recv(t)
    BY <1>1, <1>3 DEF Recv
  <1>4. CASE RecvTimeout(t)
    BY <1>4 DEF RecvTimeout
  <1>5. CASE CheckFetched(t) \/ WaitIsOver(t) \/ NextFrame(t) \/ Bail(t)
    BY <1>5 DEF CheckFetched, WaitIsOver, NextFrame, Bail, ClearSend
  <1> QED BY <1>2, <1>3, <1>4, <1>5 DEF Thread

(* A report stays counted, or in the channel, while its frame is waited    *)
(* for.                                                                    *)
LEMMA NoReportLostStep ==
  ASSUME IInv, [Next]_vars
  PROVE  NoReportLost'
  <1> SUFFICES ASSUME NEW s \in Services, Alone(s)', Waiting(s)' \/ pc'[s] = "record",
                      NEW c \in sendIds'[s], ~AckRequired[c], Reported(s, c)'
               PROVE  c \in fetched'[s] \/ Notified(s, c)'
    BY DEF NoReportLost
  <1> USE DEF IInv, TypeOK
  <1>1. /\ Alone(s)
        /\ \A t \in Services \ {s} : DisplayIdx[t] = DisplayIdx[s] => pc[t] \notin {"record", "wait", "recv", "check"}
    BY AloneFacts
  <1>2. DisplayIdx[s] \in Displays
    BY DEF Displays
  <1>3. ASSUME c \in sendIds[s], c \in Conns, Waiting(s) \/ pc[s] = "record", Reported(s, c)
        PROVE  c \in fetched[s] \/ Notified(s, c)
    BY <1>1, <1>3 DEF NoReportLost
  <1>4. ASSUME c \in sendIds[s], c \in Conns, Waiting(s) \/ pc[s] = "record", Reported(s, c),
               fetched'[s] = fetched[s], notifier'[DisplayIdx[s]] = notifier[DisplayIdx[s]]
        PROVE  c \in fetched'[s] \/ Notified(s, c)'
    BY <1>3, <1>4 DEF Notified
  <1>5. ASSUME NEW t \in Services \ {s}, Thread(t) PROVE c \in fetched'[s] \/ Notified(s, c)'
    BY <1>1, <1>4, <1>5, OtherThread DEF Waiting, Reported
  <1>6. CASE SendFrame(s)
    <2>1. c \in Conns /\ frame'[s] = frame[s] + 1 /\ got' = got /\ frame[s] \in Nat
      BY <1>6, FlowAssumption DEF SendFrame, Frames
    <2>2. [svc |-> s, no |-> frame[s] + 1] \in got[c]
      BY <2>1 DEF Reported
    <2>3. frame[s] + 1 <= frame[s]
      BY <2>1, <2>2 DEF OnlySent, Sent
    <2> QED BY <2>1, <2>3
  <1>7. CASE Recv(s)
    <2>1. /\ c \in sendIds[s] /\ c \in Conns /\ Waiting(s) /\ Reported(s, c)
          /\ fetched'[s] = fetched[s] \cup {notifier[DisplayIdx[s]][i] : i \in DOMAIN notifier[DisplayIdx[s]]}
      BY <1>7 DEF Recv, Waiting, Reported
    <2> QED BY <1>3, <2>1 DEF Notified
  <1>8. CASE RecordSend(s) \/ LockReceiver(s) \/ RecvTimeout(s) \/ CheckFetched(s)
    <2>1. /\ c \in sendIds[s] /\ c \in Conns /\ (Waiting(s) \/ pc[s] = "record") /\ Reported(s, c)
          /\ UNCHANGED <<fetched, notifier>>
      BY <1>8 DEF RecordSend, LockReceiver, RecvTimeout, CheckFetched, Waiting, Reported
    <2> QED BY <1>4, <2>1
  <1>9. ~(Begin(s) \/ NoFrame(s) \/ WaitIsOver(s) \/ NextFrame(s) \/ Bail(s))
    BY DEF Begin, NoFrame, WaitIsOver, NextFrame, Bail, Waiting
  <1>10. ASSUME UNCHANGED thread
         PROVE  c \in sendIds[s] /\ c \in Conns /\ (Waiting(s) \/ pc[s] = "record") /\ fetched'[s] = fetched[s]
                  /\ frame' = frame
    BY <1>10 DEF thread, Waiting
  <1>11. ASSUME \/ notifier'[DisplayIdx[s]] = notifier[DisplayIdx[s]]
                \/ \E x \in Conns : notifier'[DisplayIdx[s]] = Append(notifier[DisplayIdx[s]], x)
         PROVE  Notified(s, c) => Notified(s, c)'
    <2>1. \A q \in Seq(Conns), x \in Conns : \A i \in DOMAIN q : i \in DOMAIN Append(q, x) /\ Append(q, x)[i] = q[i]
      OBVIOUS
    <2>2. notifier[DisplayIdx[s]] \in Seq(Conns)
      BY <1>2
    <2>3. ASSUME NEW i \in DOMAIN notifier[DisplayIdx[s]], notifier[DisplayIdx[s]][i] = c
          PROVE  i \in DOMAIN notifier'[DisplayIdx[s]] /\ notifier'[DisplayIdx[s]][i] = c
      <3>1. CASE notifier'[DisplayIdx[s]] = notifier[DisplayIdx[s]]
        BY <2>3, <3>1
      <3>2. ASSUME NEW x \in Conns, notifier'[DisplayIdx[s]] = Append(notifier[DisplayIdx[s]], x)
            PROVE  i \in DOMAIN notifier'[DisplayIdx[s]] /\ notifier'[DisplayIdx[s]][i] = c
        BY <2>1, <2>2, <2>3, <3>2
      <3> QED BY <1>11, <3>1, <3>2
    <2> QED BY <2>3 DEF Notified
  <1>12. ASSUME NEW x \in Conns, TakeFrame(x) PROVE c \in fetched'[s] \/ Notified(s, c)'
    <2> DEFINE d == DisplayIdx[Head(queue[x]).svc]
    <2>4. notifier' = notifier \/ notifier' = [notifier EXCEPT ![d] = Append(@, x)]
      BY <1>12 DEF TakeFrame, Notify
    <2>1. \/ notifier'[DisplayIdx[s]] = notifier[DisplayIdx[s]]
          \/ notifier'[DisplayIdx[s]] = Append(notifier[DisplayIdx[s]], x)
      <3> HIDE DEF d
      <3> QED BY <1>2, <2>4
    <2>2. CASE Reported(s, c)
      BY <1>3, <1>10, <1>11, <1>12, <2>1, <2>2 DEF TakeFrame
    <2>3. CASE ~Reported(s, c)
      <3>1. x = c /\ ~AckRequired[x] /\ Head(queue[x]) = [svc |-> s, no |-> frame[s]]
        <4>1. got' = got \/ (~AckRequired[x] /\ got' = [got EXCEPT ![x] = @ \cup {Head(queue[x])}])
          BY <1>12 DEF TakeFrame
        <4>2. [svc |-> s, no |-> frame[s]] \in got'[c] /\ [svc |-> s, no |-> frame[s]] \notin got[c] /\ c \in Conns
          BY <1>10, <1>12, <2>3 DEF TakeFrame, Reported
        <4>3. ~AckRequired[x] /\ got' = [got EXCEPT ![x] = @ \cup {Head(queue[x])}]
          BY <4>1, <4>2
        <4>4. x = c
          BY <4>2, <4>3
        <4> QED BY <4>2, <4>3, <4>4
      <3>2. notifier'[DisplayIdx[s]] = Append(notifier[DisplayIdx[s]], c)
        BY <1>2, <1>12, <3>1 DEF TakeFrame, Notify
      <3>3. notifier[DisplayIdx[s]] \in Seq(Conns) /\ c \in Conns
        BY <1>2, <1>10, <1>12 DEF TakeFrame
      <3>4. \A q \in Seq(Conns) : Len(q) + 1 \in DOMAIN Append(q, c) /\ Append(q, c)[Len(q) + 1] = c
        BY <3>3
      <3> QED BY <3>2, <3>3, <3>4 DEF Notified
    <2> QED BY <2>2, <2>3
  <1>13. ASSUME NEW x \in Conns, VideoReceived(x) PROVE c \in fetched'[s] \/ Notified(s, c)'
    <2>1. UNCHANGED thread /\ notifier' = notifier
      BY <1>13 DEF VideoReceived
    <2>2. x # c /\ got'[c] = got[c]
      BY <1>10, <1>13, <2>1 DEF VideoReceived, OnlySent
    <2> QED BY <1>4, <1>10, <2>1, <2>2 DEF Reported
  <1>14. ASSUME NEW x \in Conns, NotifyAll(x) PROVE c \in fetched'[s] \/ Notified(s, c)'
    <2>1. \/ notifier'[DisplayIdx[s]] = notifier[DisplayIdx[s]]
          \/ notifier'[DisplayIdx[s]] = Append(notifier[DisplayIdx[s]], x)
      BY <1>2, <1>14 DEF NotifyAll
    <2>2. UNCHANGED <<thread, got>>
      BY <1>14 DEF NotifyAll
    <2> QED BY <1>3, <1>10, <1>11, <2>1, <2>2 DEF Reported
  <1>15. ASSUME NEW x \in Conns, Close(x) \/ RemoveConnection(x) PROVE c \in fetched'[s] \/ Notified(s, c)'
    <2>1. UNCHANGED <<thread, notifier, got>>
      BY <1>15 DEF Close, RemoveConnection
    <2> QED BY <1>4, <1>10, <2>1 DEF Reported
  <1>16. CASE UNCHANGED vars
    <2>1. UNCHANGED <<thread, notifier, got>>
      BY <1>16 DEF vars, thread
    <2> QED BY <1>4, <1>10, <2>1 DEF Reported
  <1> QED BY <1>5, <1>6, <1>7, <1>8, <1>9, <1>12, <1>13, <1>14, <1>15, <1>16 DEF Next, Thread

(* The wait goes on only after the count was found too low.                *)
LEMMA WaitsForMoreStep ==
  ASSUME IInv, [Next]_vars
  PROVE  WaitsForMore'
  <1> SUFFICES ASSUME NEW s \in Services, Alone(s)', pc'[s] = "wait", waits'[s] > 0
               PROVE  ~Enough(s)'
    BY DEF WaitsForMore
  <1> USE DEF IInv, TypeOK
  <1>1. /\ Alone(s)
        /\ \A t \in Services \ {s} : DisplayIdx[t] = DisplayIdx[s] => pc[t] \notin {"record", "wait", "recv", "check"}
    BY AloneFacts
  <1>2. ASSUME pc[s] = "wait", waits'[s] = waits[s], fetched'[s] = fetched[s], sendIds'[s] = sendIds[s]
        PROVE  ~Enough(s)'
    BY <1>1, <1>2 DEF WaitsForMore, Enough
  <1>3. ASSUME NEW t \in Services \ {s}, Thread(t) PROVE ~Enough(s)'
    BY <1>1, <1>2, <1>3, OtherThread
  <1>4. CASE CheckFetched(s)
    BY <1>4 DEF CheckFetched, Enough
  <1>5. ~(\/ Begin(s) \/ SendFrame(s) \/ NoFrame(s) \/ RecordSend(s) \/ LockReceiver(s) \/ Recv(s)
          \/ RecvTimeout(s) \/ WaitIsOver(s) \/ NextFrame(s) \/ Bail(s))
    BY DEF Begin, SendFrame, NoFrame, RecordSend, LockReceiver, Recv, RecvTimeout, WaitIsOver,
       NextFrame, Bail, Waits
  <1>6. ASSUME NEW x \in Conns,
               TakeFrame(x) \/ VideoReceived(x) \/ NotifyAll(x) \/ Close(x) \/ RemoveConnection(x)
        PROVE  UNCHANGED thread
    BY <1>6 DEF TakeFrame, VideoReceived, NotifyAll, Close, RemoveConnection
  <1>7. UNCHANGED vars => UNCHANGED thread
    BY DEF vars, thread
  <1>8. UNCHANGED thread => ~Enough(s)'
    BY <1>2 DEF thread
  <1> QED BY <1>3, <1>4, <1>5, <1>6, <1>7, <1>8 DEF Next, Thread
-----------------------------------------------------------------------------
(* Every step keeps it.                                                    *)
LEMMA NextIInv == IInv /\ [Next]_vars => IInv'
  <1> SUFFICES ASSUME IInv, [Next]_vars PROVE IInv'
    OBVIOUS
  <1>1. TypeOK' /\ Waits' /\ OnlySent' /\ RecordOnlyWhilePending'
    BY TypeStep, WaitsStep, SentStep, RecordStep DEF IInv
  <1> QED BY <1>1, NoReportLostStep, WaitsForMoreStep DEF IInv

(* The invariant the theorems below are read off.                          *)
THEOREM Invariance == Spec => []IInv
  BY InitIInv, NextIInv, PTL DEF Spec

(* Every variable keeps its type: the waits of a service never exceed 3 s. *)
THEOREM TypeCorrect == Spec => []TypeOK
  <1>1. IInv => TypeOK
    BY DEF IInv
  <1> QED BY <1>1, Invariance, PTL

(* DISPLAY_CONN_IDS has an entry only while a frame of the display is      *)
(* being waited for.                                                       *)
THEOREM RecordPending == Spec => []RecordOnlyWhilePending
  <1>1. IInv => RecordOnlyWhilePending
    BY DEF IInv
  <1> QED BY <1>1, Invariance, PTL

(* A service that has its display index for itself waits for the full 3 s  *)
(* only if a connection has not reported the frame, or has just done so.   *)
THEOREM StallHasCause == Spec => []NoSpuriousStall
  <1>1. IInv => NoSpuriousStall
    <2> SUFFICES ASSUME IInv, NEW s \in Services, pc[s] = "wait", waits[s] = MaxWaits, Alone(s),
                        \A c \in sendIds[s] : ~AckRequired[c], ~\E c \in sendIds[s] : Pending(s, c)
                 PROVE  FALSE
      BY DEF NoSpuriousStall
    <2>1. sendIds[s] \subseteq fetched[s]
      BY DEF IInv, TypeOK, NoReportLost, Waiting, Pending, Reported, Notified
    <2>2. IsFiniteSet(fetched[s])
      BY FlowAssumption, FS_Subset DEF IInv, TypeOK
    <2>3. /\ Cardinality(sendIds[s]) \in Nat /\ Cardinality(fetched[s]) \in Nat
          /\ Cardinality(sendIds[s]) <= Cardinality(fetched[s])
      BY <2>1, <2>2, FS_Subset, FS_CardinalityType
    <2> QED BY <2>3, FlowAssumption DEF IInv, WaitsForMore, Enough
  <1> QED BY <1>1, Invariance, PTL
=============================================================================
