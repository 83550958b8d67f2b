---------------------------- MODULE ServiceTmpl ----------------------------
(***************************************************************************)
(* The part of src/server/service.rs every service shares, and the         *)
(* operations of src/server.rs that reach it.                              *)
(*                                                                         *)
(* A service holds its subscribers behind one RwLock; a worker thread sends *)
(* to them.  Connections reach the service through Server, whose own write *)
(* lock admits one connection at a time, but the worker thread does not    *)
(* take that lock: it interleaves with the steps of a Server operation.    *)
(* One step below is one critical section of the service's lock.           *)
(***************************************************************************)
EXTENDS Naturals, FiniteSets

CONSTANTS
  Conns,        \* connection ids; get_new_id never hands one out twice
  NeedSnapshot, \* ServiceInner.need_snapshot
  NoOp          \* no Server::subscribe is running

ASSUME NeedSnapshotAssumption == NeedSnapshot \in BOOLEAN
ASSUME NoOpAssumption == NoOp \notin [conn : Conns, sub : BOOLEAN, at : {"subs", "new", "act"}]

VARIABLES
  subscribes,     \* ServiceInner.subscribes: served by send
  newSubscribes,  \* ServiceInner.new_subscribes: waiting for a snapshot
  active,         \* ServiceInner.active
  handle,         \* ServiceInner.handle.is_some()
  joiner,         \* progress of Service::join
  task,           \* the connection's task: "none", "live" or "ended"
  op              \* the Server::subscribe under way

tmplVars == <<subscribes, newSubscribes, active, handle, joiner, task, op>>

Op == [conn : Conns, sub : BOOLEAN, at : {"subs", "new", "act"}]
TmplTypeOK ==
  /\ subscribes \subseteq Conns
  /\ newSubscribes \subseteq Conns
  /\ active \in BOOLEAN
  /\ handle \in BOOLEAN
  /\ joiner \in {"idle", "flagged", "waiting", "joined"}
  /\ task \in [Conns -> {"none", "live", "ended"}]
  /\ op \in Op \cup {NoOp}

TmplInit ==
  /\ subscribes = {}
  /\ newSubscribes = {}
  /\ active = TRUE
  /\ handle = TRUE
  /\ joiner = "idle"
  /\ task = [c \in Conns |-> "none"]
  /\ op = NoOp

HasSubscribes == subscribes # {} \/ newSubscribes # {}
Ok == active /\ HasSubscribes
-----------------------------------------------------------------------------
(* Service: the lock-protected operations.                                 *)

(* Slip: a subscriber is not recognised.                                   *)
SlipOnSubscribe(c) ==
  IF NeedSnapshot
  THEN newSubscribes' = newSubscribes \cup {c} /\ UNCHANGED subscribes
  ELSE subscribes' = subscribes \cup {c} /\ UNCHANGED newSubscribes

OnSubscribe(c) ==
  IF c \in subscribes
  THEN UNCHANGED <<subscribes, newSubscribes>>
  ELSE IF NeedSnapshot
  THEN newSubscribes' = newSubscribes \cup {c} /\ UNCHANGED subscribes
  ELSE subscribes' = subscribes \cup {c} /\ UNCHANGED newSubscribes

(* Slip: who waits for a snapshot is forgotten.                            *)
SlipOnUnsubscribe(c) == subscribes' = subscribes \ {c} /\ UNCHANGED newSubscribes

OnUnsubscribe(c) ==
  IF c \in subscribes
  THEN subscribes' = subscribes \ {c} /\ UNCHANGED newSubscribes
  ELSE newSubscribes' = newSubscribes \ {c} /\ UNCHANGED subscribes

(* Slip: the new subscribers are copied instead of drained.                *)
SlipSwapNewSubscribes ==
  /\ subscribes' = subscribes \cup newSubscribes
  /\ UNCHANGED newSubscribes

(* ServiceSwap is dropped when the snapshot callback returns, with Ok or   *)
(* with Err.                                                               *)
SwapNewSubscribes ==
  /\ subscribes' = subscribes \cup newSubscribes
  /\ newSubscribes' = {}
-----------------------------------------------------------------------------
(* Server: the connections' side.  op = NoOp is Server's write lock free.  *)
(* A connection holds the Server weakly: once it is being dropped, upgrade *)
(* fails and the connection ends without touching it.                      *)

ServerUp == joiner = "idle"

(* A connection is created (get_new_id, then Connection::start).           *)
StartTask(c) ==
  /\ task[c] = "none"
  /\ task' = [task EXCEPT ![c] = "live"]
  /\ UNCHANGED <<subscribes, newSubscribes, active, handle, joiner, op>>

(* Server::add_connection of a connection that may use this service.       *)
AddConnection(c) ==
  /\ ServerUp /\ op = NoOp
  /\ task[c] = "live"
  /\ OnSubscribe(c)
  /\ UNCHANGED <<active, handle, joiner, task, op>>

(* Server::remove_connection, the last thing the connection's task does.   *)
RemoveConnection(c) ==
  /\ op = NoOp
  /\ task[c] = "live"
  /\ IF ServerUp THEN OnUnsubscribe(c) ELSE UNCHANGED <<subscribes, newSubscribes>>
  /\ task' = [task EXCEPT ![c] = "ended"]
  /\ UNCHANGED <<active, handle, joiner, op>>

(* Server::subscribe(name, conn, sub) first asks is_subed, which reads     *)
(* the two sets under two read locks, one after the other.                 *)
BeginSubscribe(c, sub) ==
  /\ ServerUp /\ op = NoOp
  /\ task[c] = "live"
  /\ op' = [conn |-> c, sub |-> sub, at |-> "subs"]
  /\ UNCHANGED <<subscribes, newSubscribes, active, handle, joiner, task>>

Decide(found) == op' = IF found = op.sub THEN NoOp ELSE [op EXCEPT !.at = "act"]

IsSubedReadSubscribes ==
  /\ op # NoOp
  /\ op.at = "subs"
  /\ IF op.conn \in subscribes THEN Decide(TRUE) ELSE op' = [op EXCEPT !.at = "new"]
  /\ UNCHANGED <<subscribes, newSubscribes, active, handle, joiner, task>>

IsSubedReadNew ==
  /\ op # NoOp
  /\ op.at = "new"
  /\ Decide(op.conn \in newSubscribes)
  /\ UNCHANGED <<subscribes, newSubscribes, active, handle, joiner, task>>

EndSubscribe ==
  /\ op # NoOp
  /\ op.at = "act"
  /\ IF op.sub THEN OnSubscribe(op.conn) ELSE OnUnsubscribe(op.conn)
  /\ op' = NoOp
  /\ UNCHANGED <<active, handle, joiner, task>>

OpStep == IsSubedReadSubscribes \/ IsSubedReadNew \/ EndSubscribe

(* Drop for Server joins its services (a terminal connection joins its own *)
(* when it is dropped); the subscribers may still be there.  join clears   *)
(* active and takes the handle under two write locks, then waits for the   *)
(* thread.                                                                 *)
JoinClearActive ==
  /\ joiner = "idle"
  /\ op = NoOp
  /\ active' = FALSE
  /\ joiner' = "flagged"
  /\ UNCHANGED <<subscribes, newSubscribes, handle, task, op>>

(* Slip: the thread is not joined.                                         *)
SlipJoinTakeHandle ==
  /\ joiner = "flagged"
  /\ handle' = FALSE
  /\ joiner' = "joined"
  /\ UNCHANGED <<subscribes, newSubscribes, active, task, op>>

JoinTakeHandle ==
  /\ joiner = "flagged"
  /\ handle' = FALSE
  /\ joiner' = IF handle THEN "waiting" ELSE "joined"
  /\ UNCHANGED <<subscribes, newSubscribes, active, task, op>>

JoinThread(exited) ==
  /\ joiner = "waiting"
  /\ exited
  /\ joiner' = "joined"
  /\ UNCHANGED <<subscribes, newSubscribes, active, handle, task, op>>

JoinStep(exited) == JoinTakeHandle \/ JoinThread(exited)
=============================================================================
