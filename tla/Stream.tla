------------------------------- MODULE Stream -------------------------------
(***************************************************************************)
(* A terminal as the connection that opened it sees it, without channels,  *)
(* passes, sessions or locks.  Its output grows; whoever opens it is sent  *)
(* it from the beginning, or, if there is much of it, from some point near *)
(* the end, in order, nothing twice and nothing left out, and is told that *)
(* it has closed only with the end of it: after that nothing follows.      *)
(* Output is lost only when the terminal is stopped, and then only what    *)
(* was not sent.                                                           *)
(***************************************************************************)
EXTENDS Naturals, Sequences

CONSTANTS
  Conns,
  ReplayMax,  \* output that is always sent from its beginning
  None

VARIABLES
  opener,  \* who is sent the output, or None
  output,  \* chunks of output
  stopped, \* the terminal was stopped: it writes no more
  past,    \* the output the opener is past
  closed   \* the opener was told that the terminal has closed

state == <<opener, output, stopped, past, closed>>

IsPrefixOf(a, b) == Len(a) <= Len(b) /\ \A n \in 1..Len(a) : a[n] = b[n]

Init ==
  /\ opener = None
  /\ output = <<>> /\ stopped = FALSE
  /\ past = <<>> /\ closed = FALSE

Write ==
  /\ ~closed /\ ~stopped
  /\ Len(output') = Len(output) + 1
  /\ IsPrefixOf(output, output')
  /\ UNCHANGED <<opener, stopped, past, closed>>

(* The output stays, or the terminal is stopped and the end of it is lost. *)
Remain ==
  \/ UNCHANGED <<output, stopped>>
  \/ stopped' /\ IsPrefixOf(output', output)

Open(c) ==
  /\ opener' = c
  /\ IsPrefixOf(past', output)
  /\ Len(output) <= ReplayMax => past' = <<>>
  /\ output # <<>> => past' # output
  /\ closed' = FALSE
  /\ UNCHANGED <<output, stopped>>

Deliver ==
  /\ opener # None /\ ~closed
  /\ IsPrefixOf(past, past') /\ IsPrefixOf(past', output')
  /\ Remain
  /\ UNCHANGED <<opener, closed>>

Close ==
  /\ opener # None /\ ~closed
  /\ past' = output /\ output' = output
  /\ closed' = TRUE
  /\ Remain
  /\ UNCHANGED opener

Stop ==
  /\ stopped'
  /\ IsPrefixOf(past, output') /\ IsPrefixOf(output', output)
  /\ UNCHANGED <<opener, past, closed>>

(* Nobody is sent the output any more, until somebody opens the terminal.  *)
Forget ==
  /\ opener' = None
  /\ past' = <<>> /\ closed' = FALSE
  /\ Remain

Next ==
  \/ Deliver \/ Forget \/ Write \/ Close \/ Stop
  \/ \E c \in Conns : Open(c)

Spec == Init /\ [][Next]_state
=============================================================================
