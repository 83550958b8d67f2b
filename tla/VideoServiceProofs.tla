-------------------------- MODULE VideoServiceProofs --------------------------
(***************************************************************************)
(* Key frames for any number of connections that come, switch displays and *)
(* leave while the worker makes, shares and replaces encoders; and, in the *)
(* second part, the list of displays they are sent by the display service. *)
(***************************************************************************)
EXTENDS VideoService, DisplayService, TLAPS

(* Whoever is served by an encoder that has given frames has been sent one *)
(* since it subscribed, or was swapped in when nobody else was left.       *)
EncoderIsKnown ==
  produced /\ pc \in {"made", "ok", "capture", "snapshot", "peek", "swap", "send"} =>
    \A c \in subscribes : got[c] # "nothing" \/ c \in takeover

(* Between the look at subscribes and the swap nobody is added to them.    *)
NobodyJoins == pc = "swap" /\ ~switching => subscribes = {}

IInv ==
  /\ TypeOK
  /\ EncoderIsKnown
  /\ NobodyJoins
  /\ KeyFrameFirst
-----------------------------------------------------------------------------
(* on_subscribe lets a newcomer wait for the snapshot.                     *)
LEMMA OnSubscribeLemma ==
  ASSUME NEW c \in Conns, TypeOK, OnSubscribe(c)
  PROVE  subscribes' = subscribes /\ newSubscribes' \subseteq Conns
  BY VideoAssumption DEF TypeOK, TmplTypeOK, OnSubscribe

(* on_unsubscribe only removes.                                            *)
LEMMA OnUnsubscribeLemma ==
  ASSUME TypeOK, NEW c \in Conns, OnUnsubscribe(c)
  PROVE  subscribes' \subseteq subscribes /\ newSubscribes' \subseteq newSubscribes
  BY DEF TypeOK, TmplTypeOK, OnUnsubscribe

(* A connection subscribes: what was sent to it before is forgotten.       *)
LEMMA SubscribeStep ==
  ASSUME IInv, NEW c \in Conns, OnSubscribe(c), NoteSubscribe(c), UNCHANGED thread
  PROVE  /\ got' \in [Conns -> {"nothing", "key", "delta"}] /\ takeover' \subseteq Conns
         /\ EncoderIsKnown' /\ NobodyJoins' /\ KeyFrameFirst'
  <1>1. subscribes' = subscribes
    BY OnSubscribeLemma DEF IInv
  <1>2. CASE c \in subscribes \cup newSubscribes
    BY <1>1, <1>2 DEF IInv, TypeOK, NoteSubscribe, history, thread, EncoderIsKnown,
         NobodyJoins, KeyFrameFirst
  <1>3. CASE c \notin subscribes \cup newSubscribes
    <2>1. got' = [got EXCEPT ![c] = "nothing"] /\ takeover' = takeover \ {c}
      BY <1>3 DEF NoteSubscribe
    <2>2. got \in [Conns -> {"nothing", "key", "delta"}] /\ takeover \subseteq Conns
      BY DEF IInv, TypeOK
    <2>3. /\ got' \in [Conns -> {"nothing", "key", "delta"}] /\ takeover' \subseteq Conns
          /\ \A d \in Conns : got'[d] = IF d = c THEN "nothing" ELSE got[d]
      BY <2>1, <2>2
    <2>4. EncoderIsKnown'
      <3>1. subscribes \subseteq Conns /\ c \notin subscribes
        BY <1>3 DEF IInv, TypeOK, TmplTypeOK
      <3> QED BY <1>1, <2>1, <2>3, <3>1 DEF IInv, thread, EncoderIsKnown
    <2>5. NobodyJoins'
      BY <1>1 DEF IInv, thread, NobodyJoins
    <2>6. KeyFrameFirst'
      BY <2>1, <2>3 DEF IInv, KeyFrameFirst
    <2> QED BY <2>3, <2>4, <2>5, <2>6
  <1> QED BY <1>2, <1>3

(* Who leaves is served no more; nobody else is affected.                  *)
LEMMA FewerStep ==
  ASSUME IInv, subscribes' \subseteq subscribes, UNCHANGED <<thread, history>>
  PROVE  EncoderIsKnown' /\ NobodyJoins' /\ KeyFrameFirst'
  BY DEF IInv, thread, history, EncoderIsKnown, NobodyJoins, KeyFrameFirst
-----------------------------------------------------------------------------
(* A connection starts, subscribes, leaves or asks for a subscription.     *)
LEMMA ConnectionStep ==
  ASSUME IInv, NEW c \in Conns, NEW sub \in BOOLEAN,
         Starting(c) \/ Subscribing(c) \/ Leaving(c) \/ CaptureDisplays(c, sub)
  PROVE  IInv'
  <1>1. CASE Starting(c)
    <2>1. TypeOK' /\ UNCHANGED <<thread, history>> /\ subscribes' = subscribes
      BY <1>1 DEF IInv, TypeOK, TmplTypeOK, Starting, StartTask, thread, history
    <2> QED BY <2>1, FewerStep DEF IInv
  <1>2. CASE Subscribing(c)
    <2>1. /\ OnSubscribe(c) /\ NoteSubscribe(c)
          /\ UNCHANGED <<active, handle, joiner, task, op, thread, refresh>>
      BY <1>2 DEF Subscribing, AddConnection
    <2>2. TypeOK'
      BY <2>1, OnSubscribeLemma, SubscribeStep DEF IInv, TypeOK, TmplTypeOK, thread
    <2> QED BY <2>1, <2>2, SubscribeStep DEF IInv
  <1>3. CASE Leaving(c)
    <2>1. /\ subscribes' \subseteq subscribes /\ newSubscribes' \subseteq newSubscribes
      BY <1>3, OnUnsubscribeLemma DEF IInv, Leaving, RemoveConnection
    <2>2. /\ UNCHANGED <<active, handle, joiner, op, thread, refresh, history>>
          /\ task' = [task EXCEPT ![c] = "ended"]
      BY <1>3 DEF Leaving, RemoveConnection
    <2>3. TypeOK'
      BY <2>1, <2>2 DEF IInv, TypeOK, TmplTypeOK, thread, history
    <2> QED BY <2>1, <2>2, <2>3, FewerStep DEF IInv
  <1>4. CASE CaptureDisplays(c, sub)
    <2>1. /\ op' \in Op
          /\ UNCHANGED <<subscribes, newSubscribes, active, handle, joiner, task, thread, refresh, history>>
      BY <1>4 DEF CaptureDisplays, BeginSubscribe, Op
    <2>2. TypeOK'
      BY <2>1 DEF IInv, TypeOK, TmplTypeOK, thread, history
    <2> QED BY <2>1, <2>2, FewerStep DEF IInv
  <1> QED BY <1>1, <1>2, <1>3, <1>4

(* A Server operation in progress takes its next step.                     *)
LEMMA OpContinuesStep ==
  ASSUME IInv, OpContinues
  PROVE  IInv'
  <1>1. op \in Op /\ op.conn \in Conns /\ op.sub \in BOOLEAN /\ op.at \in {"subs", "new", "act"}
    BY DEF IInv, TypeOK, TmplTypeOK, Op, OpContinues, OpStep, IsSubedReadSubscribes,
           IsSubedReadNew, EndSubscribe
  <1>2. UNCHANGED <<active, handle, joiner, task, thread, refresh>>
    BY DEF OpContinues, OpStep, IsSubedReadSubscribes, IsSubedReadNew, EndSubscribe
  <1>3. CASE IsSubedReadSubscribes \/ IsSubedReadNew
    <2>1. op' \in Op \cup {NoOp}
      BY <1>1, <1>3 DEF IsSubedReadSubscribes, IsSubedReadNew, Decide, Op
    <2>2. UNCHANGED <<subscribes, newSubscribes, history>>
      <3>1. op.at # "act"
        BY <1>3 DEF IsSubedReadSubscribes, IsSubedReadNew
      <3> QED BY <3>1, <1>3 DEF OpContinues, IsSubedReadSubscribes, IsSubedReadNew
    <2>3. TypeOK'
      BY <1>2, <2>1, <2>2 DEF IInv, TypeOK, TmplTypeOK, thread, history
    <2> QED BY <1>2, <2>2, <2>3, FewerStep DEF IInv
  <1>4. CASE EndSubscribe /\ op.sub
    <2>1. OnSubscribe(op.conn) /\ NoteSubscribe(op.conn) /\ op' = NoOp
      BY <1>4 DEF EndSubscribe, OpContinues
    <2>2. subscribes' = subscribes /\ newSubscribes' \subseteq Conns
      BY <1>1, <2>1, OnSubscribeLemma DEF IInv
    <2>3. /\ got' \in [Conns -> {"nothing", "key", "delta"}] /\ takeover' \subseteq Conns
          /\ EncoderIsKnown' /\ NobodyJoins' /\ KeyFrameFirst'
      BY <1>1, <1>2, <2>1, SubscribeStep
    <2>4. TypeOK'
      BY <1>2, <2>1, <2>2, <2>3 DEF IInv, TypeOK, TmplTypeOK, thread
    <2> QED BY <2>3, <2>4 DEF IInv
  <1>5. CASE EndSubscribe /\ ~op.sub
    <2>1. OnUnsubscribe(op.conn) /\ op' = NoOp /\ UNCHANGED history
      BY <1>5 DEF EndSubscribe, OpContinues
    <2>2. subscribes' \subseteq subscribes /\ newSubscribes' \subseteq newSubscribes
      BY <1>1, <2>1, OnUnsubscribeLemma DEF IInv
    <2>3. TypeOK'
      BY <1>2, <2>1, <2>2 DEF IInv, TypeOK, TmplTypeOK, thread, history
    <2> QED BY <1>2, <2>1, <2>2, <2>3, FewerStep DEF IInv
  <1> QED BY <1>1, <1>3, <1>4, <1>5 DEF OpContinues, OpStep

(* The server is being dropped, or a client asks for a refresh.            *)
LEMMA JoiningStep ==
  ASSUME IInv, Joining \/ RefreshVideoDisplay
  PROVE  IInv'
  <1>1. UNCHANGED <<subscribes, newSubscribes, task, op, thread, history>>
    BY DEF Joining, JoinClearActive, JoinStep, JoinTakeHandle, JoinThread, RefreshVideoDisplay,
         tmplVars
  <1>2. /\ active' \in BOOLEAN /\ handle' \in BOOLEAN /\ refresh' \in BOOLEAN
        /\ joiner' \in {"idle", "flagged", "waiting", "joined"}
    BY DEF IInv, TypeOK, TmplTypeOK, Joining, JoinClearActive, JoinStep, JoinTakeHandle,
         JoinThread,
       RefreshVideoDisplay, tmplVars
  <1>3. TypeOK'
    BY <1>1, <1>2 DEF IInv, TypeOK, TmplTypeOK, thread, history
  <1> QED BY <1>1, <1>3, FewerStep DEF IInv

(* The worker thread takes a step.                                         *)
LEMMA WorkerStep ==
  ASSUME IInv, Worker
  PROVE  IInv'
  <1> USE DEF IInv, TypeOK, TmplTypeOK, EncoderIsKnown, NobodyJoins, KeyFrameFirst, tmplVars,
       history
  <1>1. CASE CheckActive \/ CheckSubscribed \/ NoEncoder \/ CheckOk
    <2>1. /\ pc' \in {"active", "exited", "subscribed", "start", "capture"}
          /\ (pc' = "capture" => pc = "ok")
          /\ UNCHANGED <<tmplVars, produced, switching, refresh, history>>
      BY <1>1 DEF CheckActive, CheckSubscribed, NoEncoder, CheckOk
    <2> QED BY <2>1 DEF PCs
  <1>8. CASE NewEncoder
    BY <1>8 DEF NewEncoder, PCs
  <1>9. CASE ClearRefresh
    BY <1>9 DEF ClearRefresh, PCs
  <1>2. CASE Refresh \/ Switch \/ DisplayChanged \/ AnnounceSnapshot \/ NoFrame \/ Frame \/ Snapshot
    BY <1>2 DEF Refresh, Switch, DisplayChanged, AnnounceSnapshot, NoFrame, Frame, Snapshot, PCs
  <1>3. CASE AnnounceSwap
    BY <1>3 DEF AnnounceSwap, SwapNewSubscribes, PCs
  <1>4. CASE Peek
    BY <1>4 DEF Peek, PCs
  <1>5. CASE Swap
    BY <1>5 DEF Swap, SwapNewSubscribes, PCs
  <1>6. CASE SendVideoFrame
    BY <1>6 DEF SendVideoFrame, FirstFrame, PCs
  <1>7. CASE EncodeFails
    BY <1>7 DEF EncodeFails, PCs
  <1> QED BY <1>1, <1>2, <1>3, <1>4, <1>5, <1>6, <1>7, <1>8, <1>9 DEF Worker
-----------------------------------------------------------------------------
(* The invariant holds at the beginning.                                   *)
LEMMA InitIInv == Init => IInv
  BY DEF Init, TmplInit, IInv, TypeOK, TmplTypeOK, PCs, EncoderIsKnown, NobodyJoins,
       KeyFrameFirst

(* Every step keeps it.                                                    *)
LEMMA NextIInv == IInv /\ [Next]_vars => IInv'
  <1> SUFFICES ASSUME IInv, [Next]_vars PROVE IInv'
    OBVIOUS
  <1>1. CASE \E c \in Conns : Starting(c) \/ Subscribing(c) \/ Leaving(c)
    BY <1>1, ConnectionStep
  <1>2. CASE \E c \in Conns, sub \in BOOLEAN : CaptureDisplays(c, sub)
    BY <1>2, ConnectionStep
  <1>3. CASE OpContinues
    BY <1>3, OpContinuesStep
  <1>4. CASE Joining \/ RefreshVideoDisplay
    BY <1>4, JoiningStep
  <1>5. CASE Worker
    BY <1>5, WorkerStep
  <1>6. CASE UNCHANGED vars
    BY <1>6 DEF vars, IInv, TypeOK, TmplTypeOK, EncoderIsKnown, NobodyJoins, KeyFrameFirst
  <1> QED BY <1>1, <1>2, <1>3, <1>4, <1>5, <1>6 DEF Next

(* The invariant the theorems below are read off.                          *)
THEOREM Invariance == Spec => []IInv
  BY InitIInv, NextIInv, PTL DEF Spec

(* Every variable keeps its type: what a subscriber was sent first is a    *)
(* key frame, or one that needs others.                                    *)
THEOREM TypeCorrect == Spec => []TypeOK
  <1>1. IInv => TypeOK
    BY DEF IInv
  <1> QED BY <1>1, Invariance, PTL

(* The first frame a subscriber is sent is a key frame, unless it was      *)
(* swapped in when everybody its encoder had served was gone.              *)
THEOREM KeyFirst == Spec => []KeyFrameFirst
  <1>1. IInv => KeyFrameFirst
    BY DEF IInv
  <1> QED BY <1>1, Invariance, PTL
-----------------------------------------------------------------------------
(* The refinement.  A connection is in one map at most, a Server operation *)
(* is one of a live connection while the server is up, and join has its    *)
(* handle, and returns, only as the thread's end allows.                   *)
Disjoint == subscribes \cap newSubscribes = {}
OpIsLive == op # NoOp => ServerUp /\ task[op.conn] = "live"
HandleTaken == handle <=> joiner \in {"idle", "flagged"}
JoinedAfterExit == joiner = "joined" => pc = "exited"

Orderly ==
  /\ TypeOK
  /\ Disjoint
  /\ OpIsLive
  /\ HandleTaken
  /\ JoinedAfterExit

(* Adding and removing leave a connection in one map, or in none.          *)
LEMMA OrderlyMaps ==
  ASSUME Orderly, NEW c \in Conns, OnSubscribe(c) \/ OnUnsubscribe(c)
  PROVE  /\ Disjoint'
         /\ OnUnsubscribe(c) => subscribes' = subscribes \ {c} /\ newSubscribes' = newSubscribes \ {c}
  <1>1. subscribes \subseteq Conns /\ newSubscribes \subseteq Conns /\ Disjoint
    BY DEF Orderly, TypeOK, TmplTypeOK
  <1>2. CASE OnSubscribe(c)
    <2>1. Disjoint'
      BY <1>1, <1>2, VideoAssumption DEF OnSubscribe, Disjoint
    <2>2. OnUnsubscribe(c) => subscribes' = subscribes \ {c} /\ newSubscribes' = newSubscribes \ {c}
      BY <1>1 DEF OnUnsubscribe, Disjoint
    <2> QED BY <2>1, <2>2
  <1>3. CASE OnUnsubscribe(c)
    BY <1>1, <1>3 DEF OnUnsubscribe, Disjoint
  <1> QED BY <1>2, <1>3

(* The connections' steps keep it.                                         *)
LEMMA OrderlyConnections ==
  ASSUME Orderly, NEW c \in Conns, NEW sub \in BOOLEAN,
         Starting(c) \/ Subscribing(c) \/ Leaving(c) \/ CaptureDisplays(c, sub)
  PROVE  Disjoint' /\ OpIsLive' /\ HandleTaken' /\ JoinedAfterExit'
  <1>1. UNCHANGED <<handle, joiner, pc>>
    BY DEF Starting, StartTask, Subscribing, AddConnection, Leaving, RemoveConnection,
           CaptureDisplays, BeginSubscribe, thread
  <1>2. HandleTaken' /\ JoinedAfterExit'
    BY <1>1 DEF Orderly, HandleTaken, JoinedAfterExit
  <1>3. task \in [Conns -> {"none", "live", "ended"}] /\ op \in Op \cup {NoOp}
    BY DEF Orderly, TypeOK, TmplTypeOK
  <1>4. CASE Starting(c)
    <2>1. task' = [task EXCEPT ![c] = "live"] /\ UNCHANGED <<subscribes, newSubscribes, op>>
      BY <1>4 DEF Starting, StartTask
    <2>2. OpIsLive'
      BY <1>1, <1>3, <2>1 DEF Orderly, OpIsLive, ServerUp, Op
    <2> QED BY <1>2, <2>1, <2>2 DEF Orderly, Disjoint
  <1>5. CASE Subscribing(c)
    <2>1. Disjoint'
      BY <1>5, OrderlyMaps DEF Subscribing, AddConnection
    <2>2. OpIsLive'
      BY <1>1, <1>5 DEF Orderly, Subscribing, AddConnection, OpIsLive, ServerUp
    <2> QED BY <1>2, <2>1, <2>2
  <1>6. CASE Leaving(c)
    <2>1. Disjoint'
      BY <1>6, OrderlyMaps DEF Orderly, Leaving, RemoveConnection, Disjoint
    <2>2. OpIsLive'
      BY <1>1, <1>3, <1>6 DEF Orderly, Leaving, RemoveConnection, OpIsLive, ServerUp, Op
    <2> QED BY <1>2, <2>1, <2>2
  <1>7. CASE CaptureDisplays(c, sub)
    BY <1>1, <1>2, <1>7 DEF Orderly, CaptureDisplays, BeginSubscribe, Disjoint, OpIsLive, ServerUp
  <1> QED BY <1>2, <1>4, <1>5, <1>6, <1>7

(* So does every other step.                                               *)
LEMMA OrderlyStep == Orderly /\ TypeOK' /\ [Next]_vars => Orderly'
  <1> SUFFICES ASSUME Orderly, [Next]_vars
               PROVE  Disjoint' /\ OpIsLive' /\ HandleTaken' /\ JoinedAfterExit'
    BY DEF Orderly
  <1>1. CASE \E c \in Conns : Starting(c) \/ Subscribing(c) \/ Leaving(c)
    BY <1>1, OrderlyConnections
  <1>2. CASE \E c \in Conns, sub \in BOOLEAN : CaptureDisplays(c, sub)
    BY <1>2, OrderlyConnections
  <1>3. CASE OpContinues
    <2>1. op \in Op /\ op.conn \in Conns
      BY <1>3 DEF Orderly, TypeOK, TmplTypeOK, Op, OpContinues, OpStep, IsSubedReadSubscribes,
             IsSubedReadNew, EndSubscribe
    <2>2. UNCHANGED <<active, handle, joiner, task, pc>>
      BY <1>3 DEF OpContinues, OpStep, IsSubedReadSubscribes, IsSubedReadNew, EndSubscribe, thread
    <2>3. HandleTaken' /\ JoinedAfterExit'
      BY <2>2 DEF Orderly, HandleTaken, JoinedAfterExit
    <2>4. CASE EndSubscribe
      <3>1. Disjoint'
        BY <2>1, <2>4, OrderlyMaps DEF EndSubscribe
      <3> QED BY <2>3, <2>4, <3>1 DEF EndSubscribe, OpIsLive
    <2>5. CASE IsSubedReadSubscribes \/ IsSubedReadNew
      <3>1. op' = NoOp \/ op'.conn = op.conn
        BY <2>1, <2>5 DEF IsSubedReadSubscribes, IsSubedReadNew, Decide, Op
      <3>2. UNCHANGED <<subscribes, newSubscribes>> /\ op # NoOp
        BY <2>5 DEF IsSubedReadSubscribes, IsSubedReadNew
      <3> QED BY <2>2, <2>3, <3>1, <3>2 DEF Orderly, Disjoint, OpIsLive, ServerUp
    <2> QED BY <1>3, <2>4, <2>5 DEF OpContinues, OpStep
  <1>4. CASE Joining
    BY <1>4 DEF Orderly, Joining, JoinClearActive, JoinStep, JoinTakeHandle, JoinThread, Disjoint,
       OpIsLive, ServerUp, HandleTaken, JoinedAfterExit, thread, TypeOK, TmplTypeOK
  <1>5. CASE RefreshVideoDisplay
    BY <1>5 DEF Orderly, RefreshVideoDisplay, tmplVars, thread, Disjoint, OpIsLive, ServerUp,
       HandleTaken, JoinedAfterExit
  <1>6. CASE Worker
    <2>1. /\ UNCHANGED <<active, handle, joiner, task, op>> /\ pc # "exited"
          /\ \/ UNCHANGED <<subscribes, newSubscribes>>
             \/ subscribes' = subscribes \cup newSubscribes /\ newSubscribes' = {}
      BY <1>6 DEF Worker, CheckActive, CheckSubscribed, NewEncoder, ClearRefresh, NoEncoder, CheckOk, Refresh,
         Switch, DisplayChanged, AnnounceSnapshot, AnnounceSwap, NoFrame, Frame, Snapshot, Peek,
         Swap, SendVideoFrame, EncodeFails, SwapNewSubscribes, tmplVars
    <2> QED BY <2>1 DEF Orderly, Disjoint, OpIsLive, ServerUp, HandleTaken, JoinedAfterExit
  <1>7. CASE UNCHANGED vars
    BY <1>7 DEF vars, Orderly, Disjoint, OpIsLive, ServerUp, HandleTaken, JoinedAfterExit
  <1> QED BY <1>1, <1>2, <1>3, <1>4, <1>5, <1>6, <1>7 DEF Next

(* Subscribing is one abstract step, or none for who is there already.     *)
LEMMA PromiseSubscribe ==
  ASSUME NEW c \in Conns, Orderly, ServerUp, task[c] = "live", OnSubscribe(c), NoteSubscribe(c),
         UNCHANGED <<joiner, task>>
  PROVE  Promise!Subscribe(c) \/ UNCHANGED Promise!state
  <1>1. UNCHANGED <<Gone, Status>> /\ c \notin Gone /\ Status = "open"
    BY DEF Gone, Status, ServerUp
  <1>2. got \in [Conns -> {"nothing", "key", "delta"}]
    BY DEF Orderly, TypeOK
  <1>3. CASE c \in subscribes \cup newSubscribes
    <2>1. got' = got
      BY <1>3 DEF NoteSubscribe, history
    <2>2. UNCHANGED <<subscribes, newSubscribes>>
      BY <1>3, VideoAssumption DEF OnSubscribe, Orderly, TypeOK, TmplTypeOK
    <2> QED BY <1>1, <2>1, <2>2 DEF Promise!state, Sent
  <1>4. CASE c \notin subscribes \cup newSubscribes
    <2>1. got' = [got EXCEPT ![c] = "nothing"]
      BY <1>4 DEF NoteSubscribe
    <2>2. Sent' = [Sent EXCEPT ![c] = "nothing"]
      BY <1>2, <2>1 DEF Sent
    <2> QED BY <1>1, <1>4, <2>2 DEF OnSubscribe, Promise!Subscribe
  <1> QED BY <1>3, <1>4

(* A step of a Server operation.                                           *)
LEMMA PromiseOp ==
  ASSUME Orderly, OpContinues
  PROVE  (\E c \in Conns : Promise!Subscribe(c) \/ Promise!Unsubscribe(c)) \/ UNCHANGED Promise!state
  <1>1. op # NoOp /\ op.conn \in Conns /\ ServerUp /\ task[op.conn] = "live"
    BY DEF Orderly, TypeOK, TmplTypeOK, Op, OpIsLive, OpContinues, OpStep,
           IsSubedReadSubscribes, IsSubedReadNew, EndSubscribe
  <1>2. UNCHANGED <<joiner, task>>
    BY DEF OpContinues, OpStep, IsSubedReadSubscribes, IsSubedReadNew, EndSubscribe
  <1>3. UNCHANGED <<Gone, Status>> /\ Status = "open"
    BY <1>1, <1>2 DEF Gone, Status, ServerUp
  <1>4. CASE EndSubscribe /\ op.sub
    BY <1>1, <1>2, <1>4, PromiseSubscribe DEF EndSubscribe, OpContinues
  <1>5. CASE EndSubscribe /\ ~op.sub
    <2>1. subscribes' = subscribes \ {op.conn} /\ newSubscribes' = newSubscribes \ {op.conn}
      BY <1>1, <1>5, OrderlyMaps DEF EndSubscribe
    <2>2. Sent' = Sent
      BY <1>5 DEF OpContinues, EndSubscribe, history, Sent
    <2>3. Promise!Unsubscribe(op.conn)
      BY <1>3, <2>1, <2>2 DEF Promise!Unsubscribe, Promise!Remove
    <2> QED BY <1>1, <2>3
  <1>6. CASE IsSubedReadSubscribes \/ IsSubedReadNew
    <2>1. op.at # "act"
      BY <1>6 DEF IsSubedReadSubscribes, IsSubedReadNew
    <2>2. UNCHANGED <<subscribes, newSubscribes, got>>
      BY <1>6, <2>1 DEF OpContinues, IsSubedReadSubscribes, IsSubedReadNew, history
    <2> QED BY <1>3, <2>2 DEF Promise!state, Sent
  <1> QED BY <1>1, <1>4, <1>5, <1>6 DEF OpContinues, OpStep, Orderly, TypeOK, TmplTypeOK, Op

(* A connection leaves: while the server is up it takes its subscription   *)
(* with it.                                                                *)
LEMMA PromiseLeave ==
  ASSUME NEW c \in Conns, Orderly, Leaving(c)
  PROVE  Promise!Leave(c)
  <1> USE DEF Leaving, RemoveConnection
  <1>1. c \notin Gone /\ Gone' = Gone \cup {c}
    BY DEF Gone, Orderly, TypeOK, TmplTypeOK
  <1>2. UNCHANGED <<Status, Sent>>
    BY DEF Status, ServerUp, history, Sent
  <1>3. CASE ServerUp
    <2>1. subscribes' = subscribes \ {c} /\ newSubscribes' = newSubscribes \ {c}
      BY <1>3, OrderlyMaps
    <2>2. Status = "open"
      BY <1>3 DEF Status
    <2> QED BY <1>1, <1>2, <2>1, <2>2 DEF Promise!Leave, Promise!Remove
  <1>4. CASE ~ServerUp
    <2>1. UNCHANGED <<subscribes, newSubscribes>> /\ Status # "open"
      BY <1>4 DEF Status
    <2> QED BY <1>1, <1>2, <2>1 DEF Promise!Leave
  <1> QED BY <1>3, <1>4

(* join closes the service and, once the thread is out, has stopped it.    *)
LEMMA PromiseJoin ==
  ASSUME Orderly, Joining
  PROVE  Promise!Close \/ Promise!Stop \/ UNCHANGED Promise!state
  <1>1. UNCHANGED <<subscribes, newSubscribes, Gone, Sent>>
    BY DEF Joining, JoinClearActive, JoinStep, JoinTakeHandle, JoinThread, Gone, Sent, history
  <1>2. CASE JoinClearActive
    <2>1. Status = "open" /\ Status' = "closing"
      BY <1>2 DEF JoinClearActive, Status, ServerUp
    <2> QED BY <1>1, <2>1 DEF Promise!Close
  <1>3. CASE JoinTakeHandle
    <2>1. Status = "closing" /\ Status' = "closing"
      BY <1>3 DEF JoinTakeHandle, Status, ServerUp, Orderly, HandleTaken
    <2> QED BY <1>1, <2>1 DEF Promise!state
  <1>4. CASE JoinThread(pc = "exited")
    <2>1. Status = "closing" /\ Status' = "stopped"
      BY <1>4 DEF JoinThread, Status, ServerUp
    <2> QED BY <1>1, <2>1 DEF Promise!Stop
  <1> QED BY <1>2, <1>3, <1>4 DEF Joining, JoinStep

(* The worker sends a frame or swaps; the rest of its steps are its own.   *)
LEMMA PromiseWorker ==
  ASSUME Orderly, Worker
  PROVE  Promise!Broadcast("frame") \/ Promise!Admit \/ UNCHANGED Promise!state
  <1>1. UNCHANGED <<joiner, task>> /\ pc # "exited"
    BY DEF Worker, CheckActive, CheckSubscribed, NewEncoder, ClearRefresh, NoEncoder, CheckOk, Refresh,
       Switch, DisplayChanged, AnnounceSnapshot, AnnounceSwap, NoFrame, Frame, Snapshot, Peek,
       Swap, SendVideoFrame, EncodeFails, tmplVars
  <1>2. UNCHANGED <<Gone, Status>> /\ Status # "stopped"
    BY <1>1 DEF Gone, Status, ServerUp, Orderly, JoinedAfterExit
  <1>3. CASE AnnounceSwap \/ Swap
    <2>1. subscribes' = subscribes \cup newSubscribes /\ newSubscribes' = {} /\ got' = got
      BY <1>3 DEF AnnounceSwap, Swap, SwapNewSubscribes, history
    <2> QED BY <1>2, <2>1 DEF Promise!Admit, Sent
  <1>4. CASE SendVideoFrame
    <2>1. UNCHANGED <<subscribes, newSubscribes>>
      BY <1>4 DEF SendVideoFrame, tmplVars
    <2>2. \A c \in Conns : got'[c] = IF c \in subscribes THEN FirstFrame(c) ELSE got[c]
      BY <1>4 DEF SendVideoFrame
    <2>3. \A c \in Conns : FirstFrame(c) # "nothing"
      BY DEF FirstFrame
    <2>4. Sent' = [c \in Conns |-> IF c \in subscribes THEN "frame" ELSE Sent[c]]
      BY <2>2, <2>3 DEF Sent
    <2> QED BY <1>2, <2>1, <2>4 DEF Promise!Broadcast, Promise!Tell
  <1>5. CASE ~(AnnounceSwap \/ Swap \/ SendVideoFrame)
    <2>1. UNCHANGED <<subscribes, newSubscribes, got>>
      BY <1>5 DEF Worker, CheckActive, CheckSubscribed, NewEncoder, ClearRefresh, NoEncoder, CheckOk, Refresh,
         Switch, DisplayChanged, AnnounceSnapshot, NoFrame, Frame, Snapshot, Peek, EncodeFails,
         tmplVars, history
    <2> QED BY <1>2, <2>1 DEF Promise!state, Sent
  <1> QED BY <1>3, <1>4, <1>5

(* The service begins as the abstract one does.                            *)
LEMMA PromiseInit == Init => Promise!Init /\ Orderly
  BY InitIInv DEF Init, TmplInit, Promise!Init, Gone, Status, ServerUp, Sent, IInv, Orderly,
     Disjoint, OpIsLive, HandleTaken, JoinedAfterExit

(* Every step is one of the abstract service, or a stutter.                *)
LEMMA PromiseNext == Orderly /\ [Next]_vars => [Promise!Next]_(Promise!state)
  <1> SUFFICES ASSUME Orderly, [Next]_vars PROVE Promise!Next \/ UNCHANGED Promise!state
    OBVIOUS
  <1>1. ASSUME NEW c \in Conns, Starting(c)
        PROVE  UNCHANGED Promise!state
    <2>1. Gone' = Gone
      BY <1>1 DEF Starting, StartTask, Gone, Orderly, TypeOK, TmplTypeOK
    <2> QED
      BY <1>1, <2>1 DEF Starting, StartTask, Status, ServerUp, history, Promise!state, Sent
  <1>2. ASSUME NEW c \in Conns, Subscribing(c)
        PROVE  Promise!Subscribe(c) \/ UNCHANGED Promise!state
    BY <1>2, PromiseSubscribe DEF Subscribing, AddConnection
  <1>3. ASSUME NEW c \in Conns, Leaving(c)
        PROVE  Promise!Leave(c)
    BY <1>3, PromiseLeave
  <1>4. ASSUME NEW c \in Conns, NEW sub \in BOOLEAN, CaptureDisplays(c, sub)
        PROVE  UNCHANGED Promise!state
    BY <1>4 DEF CaptureDisplays, BeginSubscribe, Gone, Status, ServerUp, history, Promise!state, Sent
  <1>5. CASE OpContinues
    BY <1>5, PromiseOp DEF Promise!Next
  <1>6. CASE Joining
    BY <1>6, PromiseJoin DEF Promise!Next
  <1>7. CASE RefreshVideoDisplay
    BY <1>7 DEF RefreshVideoDisplay, Gone, Status, ServerUp, tmplVars, history, Promise!state, Sent
  <1>8. CASE Worker
    BY <1>8, PromiseWorker DEF Promise!Next
  <1>9. CASE UNCHANGED vars
    BY <1>9 DEF vars, Gone, Status, ServerUp, Promise!state, Sent
  <1> QED
    BY <1>1, <1>2, <1>3, <1>4, <1>5, <1>6, <1>7, <1>8, <1>9 DEF Next, Promise!Next

(* A video service implements Subscription too: frames go to who is served *)
(* and to nobody else, and to nobody once the service has stopped.         *)
THEOREM Refinement == Spec => KeepsPromise
  <1>1. IInv => TypeOK
    BY DEF IInv
  <1> QED BY <1>1, InitIInv, NextIInv, OrderlyStep, PromiseInit, PromiseNext, PTL
             DEF Spec, KeepsPromise, Promise!Spec
-----------------------------------------------------------------------------
(***************************************************************************)
(* The display service: DisplayService, an instance of the same template   *)
(* with a thread and a list of its own.                                    *)
(***************************************************************************)
(* What a thread has read is a list of the system's.                       *)
HasRead ==
  /\ dpc \in {"update", "send"} => read # None
  /\ vpc = "update" => vread # None

(* Once one of them has been compared, so is the list that is kept.        *)
Compared ==
  /\ dpc \in {"get", "send"} => displays \in Lists
  /\ \A c \in Conns : task[c] = "live" /\ loginRead[c] = None => displays \in Lists

(* Who is served, or waits for it, has the list of its login.              *)
ServedHaveCopied == \A c \in subscribes \cup newSubscribes : Copied(c)

(* Changes are ignored while privacy mode is being turned off.             *)
IgnoredWhileHeld == ignore <=> holder = "holding"

Quiet == holder \in {"never", "none"}

(* Who is about to be served beside others will be sent the list: because  *)
(* a newcomer asked for it, or because changes were ignored and a message  *)
(* will be asked for at the end.                                           *)
JoinersAreSent == dpc = "swap" /\ (bail \/ (Quiet /\ subscribes # {})) => ~isSynced

(* Only the callback returns an error.                                     *)
BailsAtSwap == bail => dpc = "swap"

(* A message on its way has the list, unless it must be sent again.        *)
MessageIsCurrent == dpc = "send" /\ isSynced /\ Quiet => read = displays

DInv ==
  /\ DisplayTypeOK
  /\ HasRead
  /\ Compared
  /\ ServedHaveCopied
  /\ IgnoredWhileHeld
  /\ JoinersAreSent
  /\ BailsAtSwap
  /\ MessageIsCurrent
  /\ SyncedIsSent
-----------------------------------------------------------------------------
(* A step of the environment.                                              *)
LEMMA DisplayEnvironmentStep ==
  ASSUME DInv, ChangeDisplays \/ Hold \/ Release \/ Trigger
  PROVE  DInv'
  <1> USE DEF DInv, HasRead, Compared, ServedHaveCopied, Copied, IgnoredWhileHeld, Quiet,
              JoinersAreSent, BailsAtSwap, MessageIsCurrent, SyncedIsSent, tmplVars, sync,
              listThread, video, listHistory
  <1>1. CASE ChangeDisplays
    BY <1>1 DEF ChangeDisplays, DisplayTypeOK, TmplTypeOK
  <1>2. CASE Hold
    BY <1>2 DEF Hold, DisplayTypeOK, TmplTypeOK
  <1>3. CASE Release
    <2>1. /\ holder = "holding" /\ holder' = "releasing" /\ ignore' = FALSE /\ ignore' \in BOOLEAN
          /\ UNCHANGED <<tmplVars, sync, actual, listThread, loginRead, video, listHistory>>
      BY <1>3 DEF Release
    <2>2. DisplayTypeOK'
      BY <2>1 DEF DisplayTypeOK, TmplTypeOK
    <2> QED BY <2>1, <2>2
  <1>4. CASE Trigger
    <2>1. /\ holder = "releasing" /\ holder' = "none" /\ isSynced' = FALSE /\ isSynced' \in BOOLEAN
          /\ UNCHANGED <<tmplVars, displays, actual, ignore, listThread, loginRead, video, listHistory>>
      BY <1>4 DEF Trigger
    <2>2. DisplayTypeOK'
      BY <2>1 DEF DisplayTypeOK, TmplTypeOK
    <2> QED BY <2>1, <2>2
  <1> QED BY <1>1, <1>2, <1>3, <1>4

(* A connection logs in, subscribes or leaves.                             *)
LEMMA DisplayConnectionStep ==
  ASSUME DInv, NEW c \in Conns,
         LoginRead(c) \/ LoginUpdate(c) \/ LoginCopy(c) \/ DisplaySubscribing(c) \/ DisplayLeaving(c)
  PROVE  DInv'
  <1> USE DEF DInv, DisplayTypeOK, TmplTypeOK
  <1>1. CASE LoginRead(c)
    <2>1. /\ task' = [task EXCEPT ![c] = "live"] /\ loginRead' = [loginRead EXCEPT ![c] = actual]
          /\ actual \in Lists /\ actual # None
          /\ UNCHANGED <<subscribes, newSubscribes, active, handle, joiner, op, sync, actual, ignore, holder,
                         listThread, video, listHistory>>
      BY <1>1, ListsAssumption DEF LoginRead, StartTask
    <2> USE <2>1 DEF sync, listThread, video, listHistory
    <2>2. DisplayTypeOK'
      OBVIOUS
    <2>3. Compared'
      BY DEF Compared
    <2> QED BY <2>2, <2>3 DEF HasRead, ServedHaveCopied, Copied, IgnoredWhileHeld, Quiet,
         JoinersAreSent, BailsAtSwap, MessageIsCurrent, SyncedIsSent
  <1>2. CASE LoginUpdate(c)
    <2>1. /\ CheckChanged(loginRead[c]) /\ loginRead[c] \in Lists
          /\ loginRead' = [loginRead EXCEPT ![c] = None]
          /\ UNCHANGED <<tmplVars, actual, ignore, holder, listThread, video, listHistory>>
      BY <1>2 DEF LoginUpdate
    <2>2. displays' \in Lists /\ isSynced' \in BOOLEAN
      BY <2>1, ListsAssumption DEF CheckChanged
    <2>3. Quiet /\ isSynced' => displays' = displays /\ isSynced
      BY <2>1 DEF CheckChanged, IgnoredWhileHeld, Quiet
    <2> USE <2>1, <2>2, <2>3 DEF tmplVars, listThread, video, listHistory
    <2>4. DisplayTypeOK'
      OBVIOUS
    <2>5. (isSynced' => isSynced)
      BY <2>1 DEF CheckChanged
    <2> QED BY <2>4, <2>5 DEF HasRead, Compared, ServedHaveCopied, Copied, IgnoredWhileHeld,
         Quiet, JoinersAreSent, BailsAtSwap, MessageIsCurrent, SyncedIsSent
  <1>3. CASE LoginCopy(c)
    <2>1. /\ task[c] = "live" /\ loginRead[c] = None /\ seen[c] = None
          /\ seen' = [seen EXCEPT ![c] = displays]
          /\ UNCHANGED <<tmplVars, sync, others, listThread, video, alone>>
      BY <1>3 DEF LoginCopy, Copied
    <2>2. displays \in Lists /\ displays # None
      BY <2>1, ListsAssumption DEF Compared
    <2>3. c \notin subscribes /\ c \notin newSubscribes
      BY <2>1 DEF ServedHaveCopied, Copied
    <2> USE <2>1, <2>2, <2>3 DEF tmplVars, sync, others, listThread, video
    <2>4. DisplayTypeOK'
      OBVIOUS
    <2> QED BY <2>4 DEF HasRead, Compared, ServedHaveCopied, Copied, IgnoredWhileHeld, Quiet,
         JoinersAreSent, BailsAtSwap, MessageIsCurrent, SyncedIsSent
  <1>4. CASE DisplaySubscribing(c)
    <2>1. /\ seen[c] # None /\ subscribes' = subscribes /\ newSubscribes' \subseteq newSubscribes \cup {c}
          /\ UNCHANGED <<active, handle, joiner, task, op, sync, others, listThread, video, listHistory>>
      BY <1>4, DisplayAssumption DEF DisplaySubscribing, AddConnection, OnSubscribe, Copied
    <2> USE <2>1 DEF sync, others, listThread, video, listHistory
    <2>2. DisplayTypeOK'
      OBVIOUS
    <2> QED BY <2>2 DEF HasRead, Compared, ServedHaveCopied, Copied, IgnoredWhileHeld, Quiet,
         JoinersAreSent, BailsAtSwap, MessageIsCurrent, SyncedIsSent
  <1>5. CASE DisplayLeaving(c)
    <2>1. /\ subscribes' \subseteq subscribes /\ newSubscribes' \subseteq newSubscribes
          /\ task' = [task EXCEPT ![c] = "ended"]
          /\ UNCHANGED <<active, handle, joiner, op, sync, others, listThread, video, listHistory>>
      BY <1>5 DEF DisplayLeaving, RemoveConnection, OnUnsubscribe
    <2> USE <2>1 DEF sync, others, listThread, video, listHistory
    <2>2. DisplayTypeOK'
      OBVIOUS
    <2> QED BY <2>2 DEF HasRead, Compared, ServedHaveCopied, Copied, IgnoredWhileHeld, Quiet,
         JoinersAreSent, BailsAtSwap, MessageIsCurrent, SyncedIsSent
  <1> QED BY <1>1, <1>2, <1>3, <1>4, <1>5

(* The server is dropped.                                                  *)
LEMMA DisplayJoiningStep ==
  ASSUME DInv, DisplayJoining
  PROVE  DInv'
  <1>1. /\ UNCHANGED <<subscribes, newSubscribes, task, op, sync, others, listThread, video, listHistory>>
        /\ active' \in BOOLEAN /\ handle' \in BOOLEAN /\ joiner' \in {"idle", "flagged", "waiting", "joined"}
    BY DEF DisplayJoining, JoinClearActive, JoinStep, JoinTakeHandle, JoinThread, DInv,
       DisplayTypeOK, TmplTypeOK
  <1> USE <1>1 DEF DInv, sync, others, listThread, video, listHistory
  <1>2. DisplayTypeOK'
    BY DEF DisplayTypeOK, TmplTypeOK
  <1> QED BY <1>2 DEF HasRead, Compared, ServedHaveCopied, Copied, IgnoredWhileHeld, Quiet,
             JoinersAreSent, BailsAtSwap, MessageIsCurrent, SyncedIsSent

(* The service's thread goes on.                                           *)
LEMMA DisplayWorkerStep ==
  ASSUME DInv, DisplayWorker
  PROVE  DInv'
  <1> USE DEF DInv, HasRead, Compared, ServedHaveCopied, Copied, IgnoredWhileHeld, Quiet,
              JoinersAreSent, BailsAtSwap, MessageIsCurrent, SyncedIsSent, tmplVars, sync,
              listThread, others, video, listHistory, Elsewhere, Goto
  <1>1. CASE DisplayCheckActive \/ DisplayCheckSubscribed \/ DisplayCheckOk \/ DisplaySnapshot \/ ReadFails
    BY <1>1 DEF DisplayCheckActive, DisplayCheckSubscribed, DisplayCheckOk, DisplaySnapshot, ReadFails, DisplayTypeOK,
       TmplTypeOK
  <1>2. CASE NewSubscriber
    <2>1. /\ dpc' = "swap" /\ isSynced' = FALSE /\ isSynced' \in BOOLEAN /\ bail' = TRUE
          /\ UNCHANGED <<displays, read>>
          /\ UNCHANGED <<tmplVars, listHistory, others, video>>
      BY <1>2 DEF NewSubscriber, DisplayTypeOK
    <2>2. DisplayTypeOK'
      BY <2>1 DEF DisplayTypeOK, TmplTypeOK
    <2> QED BY <2>1, <2>2
  <1>3. CASE FirstSubscriber
    <2>1. /\ dpc' = "swap" /\ subscribes = {} /\ UNCHANGED <<sync, bail, read>>
          /\ UNCHANGED <<tmplVars, listHistory, others, video>>
      BY <1>3 DEF FirstSubscriber, DisplayTypeOK
    <2>2. DisplayTypeOK'
      BY <2>1 DEF DisplayTypeOK, TmplTypeOK
    <2> QED BY <2>1, <2>2
  <1>4. CASE IgnoredSubscriber
    <2>1. /\ dpc' = "swap" /\ ignore = TRUE /\ UNCHANGED <<sync, bail, read>>
          /\ UNCHANGED <<tmplVars, listHistory, others, video>>
      BY <1>4 DEF IgnoredSubscriber, DisplayTypeOK
    <2>2. DisplayTypeOK'
      BY <2>1 DEF DisplayTypeOK, TmplTypeOK
    <2> QED BY <2>1, <2>2
  <1>5. CASE DisplaySwap
    <2>1. /\ subscribes' = subscribes \cup newSubscribes /\ newSubscribes' = {}
          /\ bail' = FALSE /\ bail' \in BOOLEAN /\ dpc' \in {"active", "read"}
          /\ alone \subseteq alone' /\ alone' \subseteq Conns
          /\ ~bail /\ subscribes = {} => newSubscribes \subseteq alone'
          /\ UNCHANGED <<active, handle, joiner, task, op, sync, others, video, read, seen>>
      BY <1>5 DEF DisplaySwap, SwapNewSubscribes, DisplayTypeOK, TmplTypeOK
    <2>2. DisplayTypeOK'
      BY <2>1 DEF DisplayTypeOK, TmplTypeOK
    <2>3. SyncedIsSent'
      <3>1. CASE isSynced /\ Quiet
        <4>1. ~bail /\ subscribes = {}
          BY <1>5, <3>1 DEF DisplaySwap
        <4> QED BY <2>1, <4>1
      <3>2. CASE ~(isSynced /\ Quiet)
        BY <2>1, <3>2
      <3> QED BY <3>1, <3>2
    <2> QED BY <2>1, <2>2, <2>3
  <1>6. CASE ReadDisplays
    BY <1>6, ListsAssumption DEF ReadDisplays, DisplayTypeOK, TmplTypeOK
  <1>7. CASE Update
    <2>1. /\ displays' = read /\ read \in Lists
          /\ isSynced' \in BOOLEAN
          /\ isSynced' => isSynced
          /\ Quiet /\ isSynced' => displays' = displays
          /\ dpc = "update" /\ dpc' = "get" /\ read' = None
          /\ UNCHANGED <<tmplVars, bail, listHistory, others, video>>
      BY <1>7, ListsAssumption DEF Update, CheckChanged, DisplayTypeOK
    <2>2. DisplayTypeOK'
      BY <2>1 DEF DisplayTypeOK, TmplTypeOK
    <2> QED BY <2>1, <2>2
  <1>8. CASE GetUpdate
    BY <1>8, ListsAssumption DEF GetUpdate, DisplayTypeOK, TmplTypeOK
  <1>9. CASE Send
    BY <1>9 DEF Send, DisplayTypeOK, TmplTypeOK
  <1> QED BY <1>1, <1>2, <1>3, <1>4, <1>5, <1>6, <1>7, <1>8, <1>9 DEF DisplayWorker

(* The thread of a video service goes on.                                  *)
LEMMA DisplayVideoStep ==
  ASSUME DInv, Video
  PROVE  DInv'
  <1> USE DEF DInv, HasRead, Compared, ServedHaveCopied, Copied, IgnoredWhileHeld, Quiet,
              JoinersAreSent, BailsAtSwap, MessageIsCurrent, SyncedIsSent, tmplVars, sync,
              listThread, others, listHistory, Apart
  <1>1. CASE GetCapturer
    BY <1>1 DEF GetCapturer, DisplayTypeOK, TmplTypeOK
  <1>2. CASE RefreshCapturer \/ RefreshSwitch \/ SwitchCapturer
    BY <1>2, ListsAssumption DEF RefreshCapturer, RefreshSwitch, SwitchCapturer, DisplayTypeOK, TmplTypeOK
  <1>3. CASE RefreshUpdate
    <2>1. /\ displays' = vread /\ vread \in Lists
          /\ isSynced' \in BOOLEAN
          /\ isSynced' => isSynced
          /\ Quiet /\ isSynced' => displays' = displays
          /\ vpc' = "compare" /\ vread' = None
          /\ UNCHANGED <<cap, tmplVars, listThread, listHistory, others>>
      BY <1>3, ListsAssumption DEF RefreshUpdate, CheckChanged, DisplayTypeOK
    <2>2. DisplayTypeOK'
      BY <2>1 DEF DisplayTypeOK, TmplTypeOK
    <2> QED BY <2>1, <2>2
  <1> QED BY <1>1, <1>2, <1>3 DEF Video

(* The invariant the theorems below are read off.                          *)
THEOREM DisplayInvariance == DisplaySpec => []DInv
  <1>1. DisplayInit => DInv
    BY DEF DisplayInit, TmplInit, DInv, DisplayTypeOK, TmplTypeOK, HasRead, Compared, ServedHaveCopied,
       Copied, IgnoredWhileHeld, Quiet, JoinersAreSent, BailsAtSwap, MessageIsCurrent,
       SyncedIsSent
  <1>2. ASSUME DInv, [DisplayNext]_displayVars PROVE DInv'
    <2>1. CASE ChangeDisplays \/ Hold \/ Release \/ Trigger
      BY <1>2, <2>1, DisplayEnvironmentStep
    <2>2. CASE \E c \in Conns : LoginRead(c) \/ LoginUpdate(c) \/ LoginCopy(c)
                               \/ DisplaySubscribing(c) \/ DisplayLeaving(c)
      BY <1>2, <2>2, DisplayConnectionStep
    <2>3. CASE DisplayJoining
      BY <1>2, <2>3, DisplayJoiningStep
    <2>4. CASE DisplayWorker
      BY <1>2, <2>4, DisplayWorkerStep
    <2>5. CASE Video
      BY <1>2, <2>5, DisplayVideoStep
    <2>6. CASE UNCHANGED displayVars
      BY <1>2, <2>6 DEF displayVars, DInv, DisplayTypeOK, TmplTypeOK, HasRead, Compared,
         ServedHaveCopied, Copied, IgnoredWhileHeld, Quiet, JoinersAreSent, BailsAtSwap,
         MessageIsCurrent, SyncedIsSent, tmplVars
    <2> QED BY <1>2, <2>1, <2>2, <2>3, <2>4, <2>5, <2>6 DEF DisplayNext
  <1> QED BY <1>1, <1>2, PTL DEF DisplaySpec

(* Every variable of the display service keeps its type: who logs in is    *)
(* given a list the system had, never the one the service begins with.     *)
THEOREM DisplayTypeCorrect == DisplaySpec => []DisplayTypeOK
  <1>1. DInv => DisplayTypeOK
    BY DEF DInv
  <1> QED BY <1>1, DisplayInvariance, PTL

(* While the list counts as synchronised, with no message on its way and   *)
(* nobody ignoring changes, every subscriber has it, but for who was the   *)
(* first and has the list of its login: for any lists, logins and threads. *)
THEOREM Synced == DisplaySpec => []SyncedIsSent
  <1>1. DInv => SyncedIsSent
    BY DEF DInv
  <1> QED BY <1>1, DisplayInvariance, PTL
=============================================================================
