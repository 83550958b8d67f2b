------------------------------ MODULE MCLogin ------------------------------
(* Both passwords with and without the code; no password at all.           *)
EXTENDS Login, TLC

FewConfigs ==
  /\ config.approve = "both"
  /\ config.temporary = config.permanent
  /\ ~config.temporary => config.tfa

MCInit == Init /\ FewConfigs
MCSpec == MCInit /\ [][Next]_vars

Symmetry == Permutations(Conns)
=============================================================================
