----------------------------- MODULE MCTerminal -----------------------------
(* Two connections at once share the first id, and the shell writes a      *)
(* second chunk only when one of them is gone, though perhaps not its      *)
(* thread; with two terminals, one of which writes for as long as it is    *)
(* there, the second connection comes when the first is gone, thread and   *)
(* all.                                                                    *)
EXTENDS Terminal, TLC

Attached == {c \in Conns : conn[c] = "open" \/ pass[c].at \notin {"none", "done"}}
Opened == {s \in Sessions : shell[s] # "unused"}

FewAtOnce ==
  /\ (\A c \in Conns : conn[c] = "open") => {written[s] : s \in Sessions} \subseteq {0, 1}
  /\ Cardinality(Attached) > 1 => \A i \in Ids \ {1} : terms[i] = None
  /\ Cardinality(Opened) > 1 =>
       /\ Cardinality(Attached) <= 1
       /\ {written[s] : s \in Opened} \subseteq {0, 1}
       /\ Cardinality({s \in Opened : written[s] = 1}) <= 1
       /\ \A s \in Opened : written[s] = 1 => s \in InService

Symmetry == Permutations(Conns) \cup Permutations(Sessions)
=============================================================================
