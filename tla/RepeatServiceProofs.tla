------------------------- MODULE RepeatServiceProofs -------------------------
(***************************************************************************)
(* The safety properties of RepeatService for any number of connections    *)
(* and cursors, with or without snapshots.                                 *)
(***************************************************************************)
EXTENDS RepeatService, TLAPS

(* Server's lock is held by a connection whose task still runs.            *)
OpIsLive == op # NoOp => task[op.conn] = "live"

(* Only a service with snapshots keeps connections waiting.                *)
WaitForSnapshot == newSubscribes # {} => NeedSnapshot

(* Between the snapshot and the swap, whoever waits has been sent what was *)
(* last broadcast, or came after the snapshot.                             *)
SnapshotSent == pc = "swap" => \A c \in newSubscribes : seen[c] = sent \/ c \in late

(* The thread's handle is taken by join.                                   *)
HandleTaken == handle <=> joiner \in {"idle", "flagged"}

IInv ==
  /\ TypeOK
  /\ DisjointSubscribes
  /\ OpIsLive
  /\ NoLeakedSubscription
  /\ WaitForSnapshot
  /\ SnapshotSent
  /\ SubscribersInSync
  /\ HandleTaken
  /\ JoinedAfterExit
-----------------------------------------------------------------------------
(* on_subscribe puts a connection in exactly one of the two maps.          *)
LEMMA OnSubscribeLemma ==
  ASSUME NEW c \in Conns, TmplTypeOK, DisjointSubscribes, WaitForSnapshot, OnSubscribe(c)
  PROVE  /\ subscribes' \subseteq Conns /\ newSubscribes' \subseteq Conns
         /\ subscribes' \cap newSubscribes' = {}
         /\ subscribes' \cup newSubscribes' = subscribes \cup newSubscribes \cup {c}
         /\ subscribes \subseteq subscribes' /\ newSubscribes \subseteq newSubscribes'
         /\ newSubscribes' # {} => NeedSnapshot
  BY DEF TmplTypeOK, DisjointSubscribes, WaitForSnapshot, OnSubscribe

(* on_unsubscribe removes a connection altogether, although it removes it  *)
(* from one map only.                                                      *)
LEMMA OnUnsubscribeLemma ==
  ASSUME NEW c \in Conns, TmplTypeOK, DisjointSubscribes, OnUnsubscribe(c)
  PROVE  /\ subscribes' = subscribes \ {c}
         /\ newSubscribes' = newSubscribes \ {c}
  BY DEF TmplTypeOK, DisjointSubscribes, OnUnsubscribe

(* The history variables stay well typed, and change for c alone.          *)
LEMMA NoteSubscribeLemma ==
  ASSUME NEW c \in Conns, TypeOK, NoteSubscribe(c)
  PROVE  /\ seen' \in [Conns -> Cursors \cup {NoCursor, Nothing}]
         /\ late' \subseteq Conns
         /\ \A d \in Conns \ {c} : seen'[d] = seen[d] /\ (d \in late' <=> d \in late)
         /\ c \in subscribes \cup newSubscribes => seen' = seen /\ late' = late
         /\ c \notin subscribes \cup newSubscribes /\ (~NeedSnapshot \/ pc = "swap") => c \in late'
  BY DEF TypeOK, NoteSubscribe, history
-----------------------------------------------------------------------------
(* A connection subscribes, by itself or through Server::subscribe.        *)
LEMMA SubscribeStep ==
  ASSUME NEW c \in Conns, IInv, task[c] = "live", OnSubscribe(c), NoteSubscribe(c),
         UNCHANGED <<active, handle, joiner, task, thread>>
  PROVE  /\ DisjointSubscribes' /\ NoLeakedSubscription' /\ WaitForSnapshot'
         /\ SnapshotSent' /\ SubscribersInSync' /\ HandleTaken' /\ JoinedAfterExit'
         /\ subscribes' \subseteq Conns /\ newSubscribes' \subseteq Conns
         /\ seen' \in [Conns -> Cursors \cup {NoCursor, Nothing}] /\ late' \subseteq Conns
  <1> USE DEF thread
  <1>1. TmplTypeOK /\ DisjointSubscribes /\ WaitForSnapshot /\ TypeOK
    BY DEF IInv, TypeOK
  <1>2. /\ subscribes' \subseteq Conns /\ newSubscribes' \subseteq Conns
        /\ subscribes' \cap newSubscribes' = {}
        /\ subscribes' \cup newSubscribes' = subscribes \cup newSubscribes \cup {c}
        /\ subscribes \subseteq subscribes' /\ newSubscribes \subseteq newSubscribes'
        /\ newSubscribes' # {} => NeedSnapshot
    BY <1>1, OnSubscribeLemma
  <1>3. /\ seen' \in [Conns -> Cursors \cup {NoCursor, Nothing}]
        /\ late' \subseteq Conns
        /\ \A d \in Conns \ {c} : seen'[d] = seen[d] /\ (d \in late' <=> d \in late)
        /\ c \in subscribes \cup newSubscribes => seen' = seen /\ late' = late
        /\ c \notin subscribes \cup newSubscribes /\ (~NeedSnapshot \/ pc = "swap") => c \in late'
    BY <1>1, NoteSubscribeLemma
  <1>4. DisjointSubscribes' /\ WaitForSnapshot'
    BY <1>2 DEF DisjointSubscribes, WaitForSnapshot
  <1>5. NoLeakedSubscription'
    BY <1>2 DEF IInv, NoLeakedSubscription
  <1>6. SnapshotSent'
    <2> SUFFICES ASSUME pc = "swap", NEW d \in newSubscribes'
                 PROVE  seen'[d] = sent \/ d \in late'
      BY DEF SnapshotSent
    <2>1. CASE d = c /\ c \notin subscribes \cup newSubscribes
      BY <2>1, <1>3
    <2>2. CASE d = c /\ c \in subscribes \cup newSubscribes
      <3>1. c \in newSubscribes
        BY <2>2, <1>2
      <3> QED BY <3>1, <2>2, <1>3 DEF IInv, SnapshotSent
    <2>3. CASE d # c
      BY <2>3, <1>2, <1>3 DEF IInv, SnapshotSent
    <2> QED BY <2>1, <2>2, <2>3
  <1>7. SubscribersInSync'
    <2> SUFFICES ASSUME NEW d \in subscribes'
                 PROVE  seen'[d] = sent \/ d \in late'
      BY DEF SubscribersInSync
    <2>1. CASE d # c
      BY <2>1, <1>2, <1>3 DEF IInv, SubscribersInSync
    <2>2. CASE d = c /\ c \in subscribes
      BY <2>2, <1>3 DEF IInv, SubscribersInSync
    <2>3. CASE d = c /\ c \notin subscribes
      <3>1. ~NeedSnapshot
        BY <2>3 DEF OnSubscribe
      <3>2. c \notin subscribes \cup newSubscribes
        BY <3>1, <2>3, <1>1 DEF WaitForSnapshot
      <3> QED BY <3>1, <3>2, <2>3, <1>3
    <2> QED BY <2>1, <2>2, <2>3
  <1>8. HandleTaken' /\ JoinedAfterExit'
    BY DEF IInv, HandleTaken, JoinedAfterExit
  <1> QED BY <1>2, <1>3, <1>4, <1>5, <1>6, <1>7, <1>8

(* A connection unsubscribes, and its task may end with it.                *)
LEMMA UnsubscribeStep ==
  ASSUME NEW c \in Conns, IInv, OnUnsubscribe(c),
         task' \in {task, [task EXCEPT ![c] = "ended"]},
         UNCHANGED <<active, handle, joiner, thread, history>>
  PROVE  /\ DisjointSubscribes' /\ NoLeakedSubscription' /\ WaitForSnapshot'
         /\ SnapshotSent' /\ SubscribersInSync' /\ HandleTaken' /\ JoinedAfterExit'
         /\ subscribes' \subseteq Conns /\ newSubscribes' \subseteq Conns
  <1> USE DEF thread, history
  <1>1. TmplTypeOK /\ DisjointSubscribes
    BY DEF IInv, TypeOK
  <1>2. subscribes' = subscribes \ {c} /\ newSubscribes' = newSubscribes \ {c}
    BY <1>1, OnUnsubscribeLemma
  <1>3. subscribes' \subseteq Conns /\ newSubscribes' \subseteq Conns
    BY <1>1, <1>2 DEF TmplTypeOK
  <1>4. DisjointSubscribes' /\ WaitForSnapshot'
    BY <1>1, <1>2 DEF IInv, DisjointSubscribes, WaitForSnapshot
  <1>5. NoLeakedSubscription'
    BY <1>1, <1>2 DEF IInv, NoLeakedSubscription, TmplTypeOK
  <1>6. SnapshotSent' /\ SubscribersInSync'
    BY <1>2 DEF IInv, SnapshotSent, SubscribersInSync
  <1>7. HandleTaken' /\ JoinedAfterExit'
    BY DEF IInv, HandleTaken, JoinedAfterExit
  <1> QED BY <1>3, <1>4, <1>5, <1>6, <1>7
-----------------------------------------------------------------------------
(* A Server operation in progress takes its next step.                     *)
LEMMA OpContinuesStep ==
  ASSUME IInv, OpContinues
  PROVE  IInv'
  <1>1. op \in Op /\ op.conn \in Conns /\ op.sub \in BOOLEAN /\ op.at \in {"subs", "new", "act"}
    BY DEF IInv, TypeOK, TmplTypeOK, Op, OpContinues, OpStep, IsSubedReadSubscribes,
           IsSubedReadNew, EndSubscribe
  <1>2. task[op.conn] = "live"
    BY DEF IInv, OpIsLive, OpContinues, OpStep, IsSubedReadSubscribes, IsSubedReadNew, EndSubscribe
  <1>3. CASE IsSubedReadSubscribes \/ IsSubedReadNew
    <2>1. /\ op' \in Op \cup {NoOp}
          /\ op' # NoOp => op'.conn = op.conn
      BY <1>1, <1>3 DEF IsSubedReadSubscribes, IsSubedReadNew, Decide, Op
    <2>2. UNCHANGED <<subscribes, newSubscribes, active, handle, joiner, task, thread, history>>
      <3>1. op.at # "act"
        BY <1>3 DEF IsSubedReadSubscribes, IsSubedReadNew
      <3> QED BY <3>1, <1>3 DEF OpContinues, IsSubedReadSubscribes, IsSubedReadNew
    <2>3. TypeOK'
      BY <2>1, <2>2 DEF IInv, TypeOK, TmplTypeOK, thread, history, Op, PCs
    <2>4. OpIsLive'
      BY <2>1, <2>2, <1>2 DEF OpIsLive
    <2> QED
      BY <2>2, <2>3, <2>4 DEF IInv, DisjointSubscribes, NoLeakedSubscription, WaitForSnapshot,
         SnapshotSent, SubscribersInSync, HandleTaken, JoinedAfterExit, thread, history
  <1>4. CASE EndSubscribe /\ op.sub
    <2>1. /\ OnSubscribe(op.conn) /\ NoteSubscribe(op.conn)
          /\ UNCHANGED <<active, handle, joiner, task, thread>>
          /\ op' = NoOp
      BY <1>4 DEF EndSubscribe, OpContinues
    <2>2. /\ DisjointSubscribes' /\ NoLeakedSubscription' /\ WaitForSnapshot'
          /\ SnapshotSent' /\ SubscribersInSync' /\ HandleTaken' /\ JoinedAfterExit'
          /\ subscribes' \subseteq Conns /\ newSubscribes' \subseteq Conns
          /\ seen' \in [Conns -> Cursors \cup {NoCursor, Nothing}] /\ late' \subseteq Conns
      BY <2>1, <1>1, <1>2, SubscribeStep
    <2>3. TypeOK' /\ OpIsLive'
      BY <2>1, <2>2 DEF IInv, TypeOK, TmplTypeOK, thread, OpIsLive, PCs
    <2> QED BY <2>2, <2>3 DEF IInv
  <1>5. CASE EndSubscribe /\ ~op.sub
    <2>1. /\ OnUnsubscribe(op.conn)
          /\ UNCHANGED <<active, handle, joiner, task, thread, history>>
          /\ op' = NoOp
      BY <1>5 DEF EndSubscribe, OpContinues
    <2>2. /\ DisjointSubscribes' /\ NoLeakedSubscription' /\ WaitForSnapshot'
          /\ SnapshotSent' /\ SubscribersInSync' /\ HandleTaken' /\ JoinedAfterExit'
          /\ subscribes' \subseteq Conns /\ newSubscribes' \subseteq Conns
      BY <2>1, <1>1, UnsubscribeStep
    <2>3. TypeOK' /\ OpIsLive'
      BY <2>1, <2>2 DEF IInv, TypeOK, TmplTypeOK, thread, history, OpIsLive, PCs
    <2> QED BY <2>2, <2>3 DEF IInv
  <1> QED BY <1>1, <1>3, <1>4, <1>5 DEF OpContinues, OpStep

(* A connection starts, subscribes, leaves or asks for a subscription.     *)
LEMMA ConnectionStep ==
  ASSUME IInv, NEW c \in Conns, NEW sub \in BOOLEAN,
         Starting(c) \/ Subscribing(c) \/ Leaving(c) \/ Toggling(c, sub)
  PROVE  IInv'
  <1>1. CASE Starting(c)
    <2> USE <1>1 DEF Starting, StartTask, thread, history
    <2>1. TypeOK'
      BY DEF IInv, TypeOK, TmplTypeOK, Op, PCs
    <2>2. OpIsLive' /\ NoLeakedSubscription'
      BY DEF IInv, TypeOK, TmplTypeOK, Op, OpIsLive, NoLeakedSubscription
    <2> QED
      BY <2>1, <2>2 DEF IInv, DisjointSubscribes, WaitForSnapshot, SnapshotSent,
         SubscribersInSync, HandleTaken, JoinedAfterExit
  <1>2. CASE Subscribing(c)
    <2>1. /\ OnSubscribe(c) /\ NoteSubscribe(c) /\ task[c] = "live"
          /\ UNCHANGED <<active, handle, joiner, task, thread, op>>
      BY <1>2 DEF Subscribing, AddConnection
    <2>2. /\ DisjointSubscribes' /\ NoLeakedSubscription' /\ WaitForSnapshot'
          /\ SnapshotSent' /\ SubscribersInSync' /\ HandleTaken' /\ JoinedAfterExit'
          /\ subscribes' \subseteq Conns /\ newSubscribes' \subseteq Conns
          /\ seen' \in [Conns -> Cursors \cup {NoCursor, Nothing}] /\ late' \subseteq Conns
      BY <2>1, SubscribeStep
    <2>3. TypeOK' /\ OpIsLive'
      BY <2>1, <2>2 DEF IInv, TypeOK, TmplTypeOK, thread, OpIsLive, Op, PCs
    <2> QED BY <2>2, <2>3 DEF IInv
  <1>3. CASE Leaving(c)
    <2>1. /\ task' = [task EXCEPT ![c] = "ended"] /\ op = NoOp
          /\ UNCHANGED <<active, handle, joiner, thread, history, op>>
      BY <1>3 DEF Leaving, RemoveConnection
    <2>2. TypeOK' /\ OpIsLive'
      BY <1>3, <2>1 DEF IInv, TypeOK, TmplTypeOK, thread, history, OpIsLive, Op, PCs,
         Leaving, RemoveConnection, OnUnsubscribe
    <2>3. CASE ServerUp
      <3>1. OnUnsubscribe(c)
        BY <1>3, <2>3 DEF Leaving, RemoveConnection
      <3>2. /\ DisjointSubscribes' /\ NoLeakedSubscription' /\ WaitForSnapshot'
            /\ SnapshotSent' /\ SubscribersInSync' /\ HandleTaken' /\ JoinedAfterExit'
        BY <3>1, <2>1, UnsubscribeStep
      <3> QED BY <2>2, <3>2 DEF IInv
    <2>4. CASE ~ServerUp
      <3>1. UNCHANGED <<subscribes, newSubscribes>>
        BY <1>3, <2>4 DEF Leaving, RemoveConnection
      <3> QED
        BY <3>1, <2>1, <2>2, <2>4 DEF IInv, DisjointSubscribes, NoLeakedSubscription,
           WaitForSnapshot, SnapshotSent, SubscribersInSync, HandleTaken, JoinedAfterExit,
           thread, history, ServerUp
    <2> QED BY <2>3, <2>4
  <1>4. CASE Toggling(c, sub)
    <2>1. op' \in Op /\ op'.conn = c /\ task[c] = "live"
      BY <1>4 DEF Toggling, BeginSubscribe, Op
    <2>2. UNCHANGED <<subscribes, newSubscribes, active, handle, joiner, task, thread, history>>
      BY <1>4 DEF Toggling, BeginSubscribe
    <2>3. TypeOK' /\ OpIsLive'
      BY <2>1, <2>2 DEF IInv, TypeOK, TmplTypeOK, thread, history, OpIsLive, PCs
    <2> QED
      BY <2>2, <2>3 DEF IInv, DisjointSubscribes, NoLeakedSubscription, WaitForSnapshot,
         SnapshotSent, SubscribersInSync, HandleTaken, JoinedAfterExit, thread, history
  <1> QED BY <1>1, <1>2, <1>3, <1>4

(* Dropping the server takes one step further.                             *)
LEMMA JoiningStep ==
  ASSUME IInv, Joining
  PROVE  IInv'
  <1>1. UNCHANGED <<subscribes, newSubscribes, task, op, thread, history>>
    BY DEF Joining, JoinClearActive, JoinStep, JoinTakeHandle, JoinThread
  <1>2. /\ active' \in BOOLEAN /\ handle' \in BOOLEAN
        /\ joiner' \in {"flagged", "waiting", "joined"}
    BY DEF IInv, TypeOK, TmplTypeOK, Joining, JoinClearActive, JoinStep, JoinTakeHandle, JoinThread
  <1>3. TypeOK'
    BY <1>1, <1>2 DEF IInv, TypeOK, TmplTypeOK, thread, history, PCs
  <1>4. HandleTaken' /\ JoinedAfterExit'
    BY <1>1 DEF IInv, HandleTaken, JoinedAfterExit, TypeOK, TmplTypeOK, Joining, JoinClearActive,
       JoinStep, JoinTakeHandle, JoinThread, thread
  <1>5. NoLeakedSubscription'
    BY <1>2 DEF NoLeakedSubscription
  <1> QED
    BY <1>1, <1>3, <1>4, <1>5 DEF IInv, DisjointSubscribes, OpIsLive, WaitForSnapshot,
       SnapshotSent, SubscribersInSync, thread, history

(* The worker thread takes a step.                                         *)
LEMMA WorkerStep ==
  ASSUME IInv, Worker
  PROVE  IInv'
  <1>1. UNCHANGED <<active, handle, joiner, task, op, cursor>> /\ pc # "exited"
    BY DEF Worker, CheckActive, CheckSubscribed, PollCursor, PollNone, PollError, Snapshot,
       SendSnapshot, Swap, tmplVars
  <1>2. OpIsLive' /\ HandleTaken' /\ JoinedAfterExit'
    BY <1>1 DEF IInv, OpIsLive, HandleTaken, JoinedAfterExit
  <1>3. TypeOK'
    BY DEF Worker, CheckActive, CheckSubscribed, PollCursor, PollNone, PollError, Snapshot,
       SendSnapshot, Swap, SwapNewSubscribes, tmplVars, history, IInv, TypeOK, TmplTypeOK, PCs
  <1>4. CASE CheckActive \/ PollNone \/ PollError \/ Snapshot
    <2>1. UNCHANGED <<subscribes, newSubscribes, task, joiner, sent, seen, late>> /\ pc' # "swap"
      BY <1>4 DEF CheckActive, PollNone, PollError, Snapshot, tmplVars, history
    <2> QED
      BY <2>1, <1>2, <1>3 DEF IInv, DisjointSubscribes, NoLeakedSubscription, WaitForSnapshot,
         SnapshotSent, SubscribersInSync
  <1>5. CASE CheckSubscribed
    <2>1. UNCHANGED <<subscribes, newSubscribes, task, joiner, seen, late>> /\ pc' # "swap"
      BY <1>5 DEF CheckSubscribed, tmplVars, history
    <2>2. subscribes # {} => sent' = sent
      BY <1>5 DEF CheckSubscribed, HasSubscribes
    <2> QED
      BY <2>1, <2>2, <1>2, <1>3 DEF IInv, DisjointSubscribes, NoLeakedSubscription,
         WaitForSnapshot, SnapshotSent, SubscribersInSync
  <1>6. CASE PollCursor
    <2>1. UNCHANGED <<subscribes, newSubscribes, task, joiner>> /\ pc' # "swap"
      BY <1>6 DEF PollCursor, tmplVars
    <2>2. SubscribersInSync'
      BY <1>6, <2>1 DEF PollCursor, IInv, SubscribersInSync, TypeOK, TmplTypeOK, history
    <2> QED
      BY <2>1, <2>2, <1>2, <1>3 DEF IInv, DisjointSubscribes, NoLeakedSubscription,
         WaitForSnapshot, SnapshotSent
  <1>7. CASE SendSnapshot
    <2>1. UNCHANGED <<subscribes, newSubscribes, task, joiner, sent, late>>
      BY <1>7 DEF SendSnapshot, tmplVars
    <2>2. SnapshotSent' /\ SubscribersInSync'
      BY <1>7, <2>1 DEF SendSnapshot, IInv, SnapshotSent, SubscribersInSync, TypeOK, TmplTypeOK
    <2> QED
      BY <2>1, <2>2, <1>2, <1>3 DEF IInv, DisjointSubscribes, NoLeakedSubscription, WaitForSnapshot
  <1>8. CASE Swap
    <2> USE <1>8 DEF Swap, SwapNewSubscribes, history
    <2>1. DisjointSubscribes' /\ WaitForSnapshot' /\ SnapshotSent'
      BY DEF DisjointSubscribes, WaitForSnapshot, SnapshotSent
    <2>2. SubscribersInSync'
      BY DEF IInv, SnapshotSent, SubscribersInSync
    <2>3. NoLeakedSubscription'
      BY DEF IInv, NoLeakedSubscription
    <2> QED BY <2>1, <2>2, <2>3, <1>2, <1>3 DEF IInv
  <1> QED BY <1>4, <1>5, <1>6, <1>7, <1>8 DEF Worker

(* The system's cursor changes under everybody.                            *)
LEMMA CursorStep ==
  ASSUME IInv, CursorChanges
  PROVE  IInv'
  <1>1. cursor' \in Cursors /\ UNCHANGED <<tmplVars, pc, mayReset, sent, history>>
    BY DEF CursorChanges
  <1> QED
    BY <1>1 DEF IInv, TypeOK, TmplTypeOK, DisjointSubscribes, OpIsLive, NoLeakedSubscription,
       WaitForSnapshot, SnapshotSent, SubscribersInSync, HandleTaken, JoinedAfterExit,
       tmplVars, history, PCs
-----------------------------------------------------------------------------
(* The invariant holds at the beginning.                                   *)
LEMMA InitIInv == Init => IInv
  <1> SUFFICES ASSUME Init PROVE IInv
    OBVIOUS
  <1>1. TypeOK
    BY DEF Init, TmplInit, TypeOK, TmplTypeOK, PCs
  <1> QED
    BY <1>1 DEF Init, TmplInit, IInv, DisjointSubscribes, OpIsLive, NoLeakedSubscription,
       WaitForSnapshot, SnapshotSent, SubscribersInSync, HandleTaken, JoinedAfterExit

(* Every step keeps it.                                                    *)
LEMMA NextIInv == IInv /\ [Next]_vars => IInv'
  <1> SUFFICES ASSUME IInv, [Next]_vars PROVE IInv'
    OBVIOUS
  <1>1. CASE \E c \in Conns : Starting(c) \/ Subscribing(c) \/ Leaving(c)
    BY <1>1, ConnectionStep
  <1>2. CASE \E c \in Conns, sub \in BOOLEAN : Toggling(c, sub)
    BY <1>2, ConnectionStep
  <1>3. CASE OpContinues
    BY <1>3, OpContinuesStep
  <1>4. CASE Joining
    BY <1>4, JoiningStep
  <1>5. CASE Worker
    BY <1>5, WorkerStep
  <1>6. CASE CursorChanges
    BY <1>6, CursorStep
  <1>7. CASE UNCHANGED vars
    BY <1>7 DEF vars, IInv, TypeOK, TmplTypeOK, DisjointSubscribes, OpIsLive,
       NoLeakedSubscription, WaitForSnapshot, SnapshotSent, SubscribersInSync, HandleTaken,
       JoinedAfterExit, PCs
  <1> QED BY <1>1, <1>2, <1>3, <1>4, <1>5, <1>6, <1>7 DEF Next

(* The invariant the theorems below are read off.                          *)
THEOREM Invariance == Spec => []IInv
  BY InitIInv, NextIInv, PTL DEF Spec

(* Every variable keeps its type, the two subscriber maps hold connections *)
(* only.                                                                   *)
THEOREM TypeCorrect == Spec => []TypeOK
  <1>1. IInv => TypeOK
    BY DEF IInv
  <1> QED BY <1>1, Invariance, PTL

(* on_subscribe, on_unsubscribe and the swap keep the two maps disjoint.   *)
THEOREM Disjoint == Spec => []DisjointSubscribes
  <1>1. IInv => DisjointSubscribes
    BY DEF IInv
  <1> QED BY <1>1, Invariance, PTL

(* remove_connection leaves no subscription behind, wherever the worker is *)
(* and whatever Server operations came before.                             *)
THEOREM NoLeak == Spec => []NoLeakedSubscription
  <1>1. IInv => NoLeakedSubscription
    BY DEF IInv
  <1> QED BY <1>1, Invariance, PTL

(* Who is served has seen what was last broadcast, but for who came        *)
(* between a snapshot and its swap.                                        *)
THEOREM InSync == Spec => []SubscribersInSync
  <1>1. IInv => SubscribersInSync
    BY DEF IInv
  <1> QED BY <1>1, Invariance, PTL

(* join returns only when the thread has left its loop.                    *)
THEOREM JoinWaits == Spec => []JoinedAfterExit
  <1>1. IInv => JoinedAfterExit
    BY DEF IInv
  <1> QED BY <1>1, Invariance, PTL
-----------------------------------------------------------------------------
(* The refinement.  Server operations run while the server is up.          *)
OpWhileUp == op # NoOp => ServerUp

(* While a connection holds the lock, the server is not being dropped.     *)
LEMMA OpWhileUpStep == IInv /\ OpWhileUp /\ [Next]_vars => OpWhileUp'
  <1> SUFFICES ASSUME IInv, OpWhileUp, [Next]_vars PROVE OpWhileUp'
    OBVIOUS
  <1> USE DEF OpWhileUp, ServerUp
  <1>1. CASE \E c \in Conns : Starting(c) \/ Subscribing(c) \/ Leaving(c)
    BY <1>1 DEF Starting, StartTask, Subscribing, AddConnection, Leaving, RemoveConnection
  <1>2. CASE \E c \in Conns, sub \in BOOLEAN : Toggling(c, sub)
    BY <1>2 DEF Toggling, BeginSubscribe
  <1>3. CASE OpContinues
    BY <1>3 DEF OpContinues, OpStep, IsSubedReadSubscribes, IsSubedReadNew, EndSubscribe
  <1>4. CASE Joining
    BY <1>4 DEF Joining, JoinClearActive, JoinStep, JoinTakeHandle, JoinThread
  <1>5. CASE Worker
    BY <1>5 DEF Worker, CheckActive, CheckSubscribed, PollCursor, PollNone, PollError, Snapshot,
       SendSnapshot, Swap, tmplVars
  <1>6. CASE CursorChanges
    BY <1>6 DEF CursorChanges, tmplVars
  <1>7. CASE UNCHANGED vars
    BY <1>7 DEF vars
  <1> QED BY <1>1, <1>2, <1>3, <1>4, <1>5, <1>6, <1>7 DEF Next

(* Subscribing is one abstract step, or none for who is there already.     *)
LEMMA PromiseSubscribe ==
  ASSUME NEW c \in Conns, IInv, ServerUp, task[c] = "live", OnSubscribe(c), NoteSubscribe(c),
         UNCHANGED <<joiner, task, sent>>
  PROVE  Promise!Subscribe(c) \/ UNCHANGED Promise!state
  <1>1. UNCHANGED <<Gone, Status, sent>> /\ c \notin Gone /\ Status = "open"
    BY DEF Gone, Status, ServerUp
  <1>2. CASE c \in subscribes \cup newSubscribes
    <2>1. seen' = seen
      BY <1>2 DEF NoteSubscribe, history
    <2>2. UNCHANGED <<subscribes, newSubscribes>>
      BY <1>2 DEF OnSubscribe, IInv, WaitForSnapshot, TypeOK, TmplTypeOK
    <2> QED BY <1>1, <2>1, <2>2 DEF Promise!state
  <1>3. CASE c \notin subscribes \cup newSubscribes
    <2>1. seen' = [seen EXCEPT ![c] = Nothing]
      BY <1>3 DEF NoteSubscribe
    <2> QED BY <1>1, <1>3, <2>1 DEF OnSubscribe, Promise!Subscribe
  <1> QED BY <1>2, <1>3

(* A step of a Server operation.                                           *)
LEMMA PromiseOp ==
  ASSUME IInv, OpWhileUp, OpContinues
  PROVE  (\E c \in Conns : Promise!Subscribe(c) \/ Promise!Unsubscribe(c)) \/ UNCHANGED Promise!state
  <1>1. op # NoOp /\ op.conn \in Conns /\ ServerUp /\ task[op.conn] = "live"
    BY DEF IInv, TypeOK, TmplTypeOK, Op, OpIsLive, OpWhileUp, OpContinues, OpStep,
       IsSubedReadSubscribes, IsSubedReadNew, EndSubscribe
  <1>2. UNCHANGED <<joiner, task, sent>>
    BY DEF OpContinues, OpStep, IsSubedReadSubscribes, IsSubedReadNew, EndSubscribe, thread
  <1>3. UNCHANGED <<Gone, Status, sent>> /\ Status = "open"
    BY <1>1, <1>2 DEF Gone, Status, ServerUp
  <1>4. CASE EndSubscribe /\ op.sub
    BY <1>1, <1>2, <1>4, PromiseSubscribe DEF EndSubscribe, OpContinues
  <1>5. CASE EndSubscribe /\ ~op.sub
    <2>1. subscribes' = subscribes \ {op.conn} /\ newSubscribes' = newSubscribes \ {op.conn}
      BY <1>1, <1>5, OnUnsubscribeLemma DEF EndSubscribe, IInv, TypeOK
    <2>2. seen' = seen
      BY <1>5 DEF OpContinues, EndSubscribe, history
    <2>3. Promise!Unsubscribe(op.conn)
      BY <1>3, <2>1, <2>2 DEF Promise!Unsubscribe, Promise!Remove
    <2> QED BY <1>1, <2>3
  <1>6. CASE IsSubedReadSubscribes \/ IsSubedReadNew
    <2>1. op.at # "act"
      BY <1>6 DEF IsSubedReadSubscribes, IsSubedReadNew
    <2>2. UNCHANGED <<subscribes, newSubscribes, seen>>
      BY <1>6, <2>1 DEF OpContinues, IsSubedReadSubscribes, IsSubedReadNew, history
    <2> QED BY <1>3, <2>2 DEF Promise!state
  <1> QED BY <1>1, <1>4, <1>5, <1>6 DEF OpContinues, OpStep, IInv, TypeOK, TmplTypeOK, Op

(* A connection leaves: while the server is up it takes its subscription   *)
(* with it.                                                                *)
LEMMA PromiseLeave ==
  ASSUME NEW c \in Conns, IInv, Leaving(c)
  PROVE  Promise!Leave(c)
  <1> USE DEF Leaving, RemoveConnection
  <1>1. c \notin Gone /\ Gone' = Gone \cup {c}
    BY DEF Gone, IInv, TypeOK, TmplTypeOK
  <1>2. UNCHANGED <<Status, sent, seen>>
    BY DEF Status, ServerUp, thread, history
  <1>3. CASE ServerUp
    <2>1. subscribes' = subscribes \ {c} /\ newSubscribes' = newSubscribes \ {c}
      BY <1>3, OnUnsubscribeLemma DEF IInv, TypeOK
    <2>2. Status = "open"
      BY <1>3 DEF Status
    <2> QED BY <1>1, <1>2, <2>1, <2>2 DEF Promise!Leave, Promise!Remove
  <1>4. CASE ~ServerUp
    <2>1. UNCHANGED <<subscribes, newSubscribes>> /\ Status # "open"
      BY <1>4 DEF Status
    <2> QED BY <1>1, <1>2, <2>1 DEF Promise!Leave
  <1> QED BY <1>3, <1>4

(* join closes the service and, once the thread is out, has stopped it.    *)
LEMMA PromiseJoin ==
  ASSUME IInv, Joining
  PROVE  Promise!Close \/ Promise!Stop \/ UNCHANGED Promise!state
  <1>1. UNCHANGED <<subscribes, newSubscribes, Gone, sent, seen>>
    BY DEF Joining, JoinClearActive, JoinStep, JoinTakeHandle, JoinThread, Gone, thread, history
  <1>2. CASE JoinClearActive
    <2>1. Status = "open" /\ Status' = "closing"
      BY <1>2 DEF JoinClearActive, Status, ServerUp
    <2> QED BY <1>1, <2>1 DEF Promise!Close
  <1>3. CASE JoinTakeHandle
    <2>1. Status = "closing" /\ Status' = "closing"
      BY <1>3 DEF JoinTakeHandle, Status, ServerUp, IInv, HandleTaken
    <2> QED BY <1>1, <2>1 DEF Promise!state
  <1>4. CASE JoinThread(pc = "exited")
    <2>1. Status = "closing" /\ Status' = "stopped"
      BY <1>4 DEF JoinThread, Status, ServerUp
    <2> QED BY <1>1, <2>1 DEF Promise!Stop
  <1> QED BY <1>2, <1>3, <1>4 DEF Joining, JoinStep

(* The worker broadcasts, sends a snapshot, swaps or resets; the rest of   *)
(* its steps are its own.                                                  *)
LEMMA PromiseWorker ==
  ASSUME IInv, Worker
  PROVE  \/ \E v \in Cursors : Promise!Broadcast(v)
         \/ Promise!Snapshot \/ Promise!Admit \/ Promise!Reset
         \/ UNCHANGED Promise!state
  <1>1. UNCHANGED <<joiner, task>> /\ pc # "exited"
    BY DEF Worker, CheckActive, CheckSubscribed, PollCursor, PollNone, PollError, Snapshot,
       SendSnapshot, Swap, tmplVars
  <1>2. UNCHANGED <<Gone, Status>> /\ Status # "stopped"
    BY <1>1 DEF Gone, Status, ServerUp, IInv, JoinedAfterExit
  <1>3. CASE CheckActive \/ PollNone \/ PollError \/ Snapshot
    <2>1. UNCHANGED <<subscribes, newSubscribes, sent, seen>>
      BY <1>3 DEF CheckActive, PollNone, PollError, Snapshot, tmplVars, history
    <2> QED BY <1>2, <2>1 DEF Promise!state
  <1>4. CASE CheckSubscribed
    <2>1. UNCHANGED <<subscribes, newSubscribes, seen>>
      BY <1>4 DEF CheckSubscribed, tmplVars, history
    <2>2. sent' = sent \/ (sent' = NoCursor /\ subscribes = {} /\ newSubscribes = {})
      BY <1>4 DEF CheckSubscribed, HasSubscribes
    <2> QED BY <1>2, <2>1, <2>2 DEF Promise!state, Promise!Reset
  <1>5. CASE PollCursor
    <2>1. UNCHANGED <<subscribes, newSubscribes>> /\ cursor \in Cursors
      BY <1>5 DEF PollCursor, tmplVars, IInv, TypeOK
    <2>2. CASE cursor = sent
      BY <1>2, <1>5, <2>1, <2>2 DEF PollCursor, history, Promise!state
    <2>3. CASE cursor # sent
      <3>1. sent' = cursor /\ seen' = [c \in Conns |-> IF c \in subscribes THEN cursor ELSE seen[c]]
        BY <1>5, <2>3 DEF PollCursor
      <3>2. Promise!Broadcast(cursor)
        BY <1>2, <2>1, <3>1 DEF Promise!Broadcast, Promise!Tell
      <3> QED BY <2>1, <3>2
    <2> QED BY <2>2, <2>3
  <1>6. CASE SendSnapshot
    <2>1. /\ UNCHANGED <<subscribes, newSubscribes, sent>>
          /\ seen' = [c \in Conns |-> IF c \in newSubscribes THEN sent ELSE seen[c]]
      BY <1>6 DEF SendSnapshot, tmplVars
    <2> QED BY <1>2, <2>1 DEF Promise!Snapshot, Promise!Tell
  <1>7. CASE Swap
    <2>1. /\ subscribes' = subscribes \cup newSubscribes /\ newSubscribes' = {}
          /\ UNCHANGED <<sent, seen>>
      BY <1>7 DEF Swap, SwapNewSubscribes, history
    <2> QED BY <1>2, <2>1 DEF Promise!Admit
  <1> QED BY <1>3, <1>4, <1>5, <1>6, <1>7 DEF Worker

(* The service begins as the abstract one does.                            *)
LEMMA PromiseInit == Init => Promise!Init /\ OpWhileUp
  BY DEF Init, TmplInit, Promise!Init, Gone, Status, ServerUp, OpWhileUp

(* Every step is one of the abstract service, or a stutter.                *)
LEMMA PromiseNext == IInv /\ OpWhileUp /\ [Next]_vars => [Promise!Next]_(Promise!state)
  <1> SUFFICES ASSUME IInv, OpWhileUp, [Next]_vars PROVE Promise!Next \/ UNCHANGED Promise!state
    OBVIOUS
  <1>1. ASSUME NEW c \in Conns, Starting(c)
        PROVE  UNCHANGED Promise!state
    <2>1. Gone' = Gone
      BY <1>1 DEF Starting, StartTask, Gone, IInv, TypeOK, TmplTypeOK
    <2> QED
      BY <1>1, <2>1 DEF Starting, StartTask, Status, ServerUp, thread, history, Promise!state
  <1>2. ASSUME NEW c \in Conns, Subscribing(c)
        PROVE  Promise!Subscribe(c) \/ UNCHANGED Promise!state
    BY <1>2, PromiseSubscribe DEF Subscribing, AddConnection, thread
  <1>3. ASSUME NEW c \in Conns, Leaving(c)
        PROVE  Promise!Leave(c)
    BY <1>3, PromiseLeave
  <1>4. ASSUME NEW c \in Conns, NEW sub \in BOOLEAN, Toggling(c, sub)
        PROVE  UNCHANGED Promise!state
    BY <1>4 DEF Toggling, BeginSubscribe, Gone, Status, ServerUp, thread, history, Promise!state
  <1>5. CASE OpContinues
    BY <1>5, PromiseOp DEF Promise!Next
  <1>6. CASE Joining
    BY <1>6, PromiseJoin DEF Promise!Next
  <1>7. CASE Worker
    BY <1>7, PromiseWorker DEF Promise!Next
  <1>8. CASE CursorChanges
    BY <1>8 DEF CursorChanges, Gone, Status, ServerUp, tmplVars, history, Promise!state
  <1>9. CASE UNCHANGED vars
    BY <1>9 DEF vars, Gone, Status, ServerUp, Promise!state
  <1> QED
    BY <1>1, <1>2, <1>3, <1>4, <1>5, <1>6, <1>7, <1>8, <1>9 DEF Next, Promise!Next

(* The service implements Subscription: nobody is sent anything but what   *)
(* is broadcast while it is served or the last value while it waits, and   *)
(* nothing is sent once the service has stopped.                           *)
THEOREM Refinement == Spec => KeepsPromise
  BY InitIInv, NextIInv, OpWhileUpStep, PromiseInit, PromiseNext, PTL
     DEF Spec, KeepsPromise, Promise!Spec
=============================================================================
