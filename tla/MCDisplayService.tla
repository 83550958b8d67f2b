-------------------------- MODULE MCDisplayService --------------------------
(* DisplayService on a small instance.  Either two connections log in, the *)
(* first one first, while a second display comes and goes and privacy      *)
(* mode, which has changes ignored, is turned off now and then; or one     *)
(* logs in and a video service captures the first display, which changes   *)
(* too.                                                                    *)
EXTENDS DisplayService
CONSTANTS g, h, c1, c2

SomeLists == {<<g>>, <<g, h>>, <<h>>}
FewThreads == holder = "never" <=> vpc # "never"
FewLists == actual \in (IF vpc = "never" THEN {<<g>>, <<g, h>>} ELSE SomeLists)
LogIn(c) == task[c] = "none" /\ task'[c] = "live"
FewLogins == LogIn(c2) => vpc = "never" /\ task[c1] # "none"
MCInit == DisplayInit /\ FewThreads /\ FewLists
MCSpec == MCInit /\ [][DisplayNext /\ FewLogins /\ FewLists']_displayVars /\ DisplayFairness
=============================================================================
