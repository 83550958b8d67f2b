---------------------------- MODULE Subscription ----------------------------
(***************************************************************************)
(* What a service promises its subscribers, without its lock, its thread   *)
(* or the steps of a Server operation. A connection subscribes at once or  *)
(* not at all, waits or is served but never both, and is gone for good. A  *)
(* subscriber is sent what is broadcast while it is served and, while it   *)
(* waits, the value broadcast last: nothing older and nothing else. Once   *)
(* the service has stopped it sends nothing.                               *)
(***************************************************************************)
CONSTANTS
  Conns,
  WaitFirst,  \* a new subscriber waits for a snapshot
  Values,     \* what can be broadcast
  NoValue,    \* nothing broadcast yet
  Nothing     \* nothing sent to a subscriber yet

VARIABLES
  waiting, served, gone,
  status,  \* "open", "closing" (no operation is admitted) or "stopped"
  value,   \* broadcast last
  seen     \* sent last to each connection since it subscribed

state == <<waiting, served, gone, status, value, seen>>

Init ==
  /\ waiting = {}
  /\ served = {}
  /\ gone = {}
  /\ status = "open"
  /\ value = NoValue
  /\ seen = [c \in Conns |-> Nothing]

Subscribe(c) ==
  /\ status = "open"
  /\ c \notin gone \cup waiting \cup served
  /\ IF WaitFirst
     THEN waiting' = waiting \cup {c} /\ UNCHANGED served
     ELSE served' = served \cup {c} /\ UNCHANGED waiting
  /\ seen' = [seen EXCEPT ![c] = Nothing]
  /\ UNCHANGED <<gone, status, value>>

Remove(c) == waiting' = waiting \ {c} /\ served' = served \ {c}

Unsubscribe(c) ==
  /\ status = "open"
  /\ Remove(c)
  /\ UNCHANGED <<gone, status, value, seen>>

(* A closing service does not hear of it.                                  *)
Leave(c) ==
  /\ c \notin gone
  /\ gone' = gone \cup {c}
  /\ IF status = "open" THEN Remove(c) ELSE UNCHANGED <<waiting, served>>
  /\ UNCHANGED <<status, value, seen>>

Close ==
  /\ status = "open"
  /\ status' = "closing"
  /\ UNCHANGED <<waiting, served, gone, value, seen>>

Stop ==
  /\ status = "closing"
  /\ status' = "stopped"
  /\ UNCHANGED <<waiting, served, gone, value, seen>>

Tell(those, v) == seen' = [c \in Conns |-> IF c \in those THEN v ELSE seen[c]]

Broadcast(v) ==
  /\ status # "stopped"
  /\ value' = v
  /\ Tell(served, v)
  /\ UNCHANGED <<waiting, served, gone, status>>

Snapshot ==
  /\ status # "stopped"
  /\ Tell(waiting, value)
  /\ UNCHANGED <<waiting, served, gone, status, value>>

Admit ==
  /\ status # "stopped"
  /\ served' = served \cup waiting
  /\ waiting' = {}
  /\ UNCHANGED <<gone, status, value, seen>>

(* With nobody left the service starts over.                               *)
Reset ==
  /\ waiting \cup served = {}
  /\ value' = NoValue
  /\ UNCHANGED <<waiting, served, gone, status, seen>>

Next ==
  \/ \E c \in Conns : Subscribe(c) \/ Unsubscribe(c) \/ Leave(c)
  \/ Close \/ Stop
  \/ \E v \in Values : Broadcast(v)
  \/ Snapshot \/ Admit \/ Reset

Spec == Init /\ [][Next]_state
=============================================================================
