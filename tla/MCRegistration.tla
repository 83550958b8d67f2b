--------------------------- MODULE MCRegistration ---------------------------
(* Registration on small instances: one server and a user who changes the  *)
(* id, one and a configuration that is taken over, or two servers that     *)
(* have a mismatch to solve.                                               *)
EXTENDS Registration
CONSTANTS a, b

TwoHosts == {a, b}
FewChange ==
  \/ Used = {a} /\ (IF changes = 0 THEN sync = "done" ELSE ~udp /\ sync = "new")
  \/ Used = {a, b} /\ sync = "done" /\ changes = MaxChanges
MCInit == RegInit /\ FewChange
MCSpec == MCInit /\ [][RegNext]_regVars /\ RegFairness
=============================================================================
