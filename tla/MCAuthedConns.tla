--------------------------- MODULE MCAuthedConns ---------------------------
(* One connection is a remote one, the other of any kind.                  *)
EXTENDS AuthedConns
CONSTANT first

MCInit == Init /\ kind[first] = "remote"
MCSpec == MCInit /\ [][Next]_vars /\ Fairness
=============================================================================
