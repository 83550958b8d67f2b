---------------------------- MODULE MCFrameFlow ----------------------------
(* FrameFlow on a small instance: the monitor and the camera of one        *)
(* display index, a client that acknowledges and one that does not.        *)
EXTENDS FrameFlow
CONSTANTS monitor0, camera0, web, native

TwoServices == {monitor0, camera0}
SameIndex == [s \in Services |-> 0]
WebAcks == [c \in Conns |-> c = web]

(* Both clients watch the monitor, or one of them watches both.            *)
FewWatch ==
  \/ subs[camera0] = {}
  \/ \E c \in Conns : \A t \in Services : subs[t] \subseteq {c}
MCInit == Init /\ FewWatch
MCSpec == MCInit /\ [][Next]_vars /\ Fairness
=============================================================================
