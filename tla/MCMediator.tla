----------------------------- MODULE MCMediator -----------------------------
(* While two servers may be configured, one caller and the task of one of  *)
(* them change the servers; a connection and another caller come while     *)
(* there is one server, and then the service is stopped and started.       *)
EXTENDS Mediator
CONSTANTS first, other

Changing ==
  {r \in Callers : caller[r] # "idle"}
    \cup {s \in Servers : task[s] \in {"updating", "updated", "changed", "flagged"}}

FewAtOnce ==
  \/ /\ configured = {first} /\ using \subseteq {first}
     /\ Changing \subseteq Callers
  \/ /\ configured # Servers \ {first} /\ \A c \in Conns : conn[c] = "none"
     /\ Changing \subseteq {first} \cup (Callers \ {other})

MCInit == Init /\ FewAtOnce
MCSpec == MCInit /\ [][Next /\ FewAtOnce']_vars /\ Fairness
=============================================================================
