------------------------------ MODULE Terminal ------------------------------
(***************************************************************************)
(* A terminal service (src/server/terminal_service.rs) and the connections *)
(* that use it one after the other, or, while an old one has not noticed   *)
(* that its peer is gone, at the same time.  The service outlives its      *)
(* connections if it is persistent.  Each connection has a thread that     *)
(* reads the outputs of all terminals every 30 ms and sends them to this   *)
(* connection; a terminal opened again is replayed the end of its history  *)
(* first.  What OutputBuffer drops of the beginning of the history (and    *)
(* that its count of bytes goes wrong in time) is not modelled.            *)
(***************************************************************************)
EXTENDS Naturals, Sequences, FiniteSets

CONSTANTS
  Conns,      \* connections; each attaches to the service once
  Ids,        \* terminal ids
  Sessions,   \* bound: the TerminalSession objects there can be
  None,
  ChanSize,   \* CHANNEL_BUFFER_SIZE
  ReplayMax,  \* DEFAULT_RECONNECT_BUFFER_BYTES, in chunks
  MaxOutput   \* bound: chunks a shell writes

ASSUME TerminalAssumption ==
  /\ Ids \subseteq Nat
  /\ None \notin Sessions \cup Conns /\ None \notin Seq(Nat)
  /\ IsFiniteSet(Conns)
  /\ {ChanSize, ReplayMax} \subseteq Nat \ {0} /\ MaxOutput \in Nat

VARIABLES
  exists,      \* the service is in TERMINAL_SERVICES
  gen,         \* how many have been
  persistent,  \* is_persistent
  needsSync,   \* needs_session_sync
  terms,       \* sessions: [Ids -> Sessions or None]
  shell,       \* what runs in each session
  written,     \* chunks each shell has written
  chan,        \* output_rx
  buffer,      \* output_buffer
  active,      \* SessionState::Active
  pending,     \* pending_buffer, None where there is none
  reported,    \* closed_message_sent
  conn,        \* where each connection is
  pass,        \* where the reading thread of each connection is
  past,        \* history: how much of its output the opener of a session is
               \* past: it was sent it, or it was too old to be replayed
  told,        \* history: the sessions whose opener was told they are closed
  opener,      \* history: who opened the session last
  taken,       \* history: sessions some of whose output another was sent
  missed       \* history: the last connection left before its thread began

service == <<exists, gen, persistent, needsSync, terms>>
sessions == <<shell, written, chan, buffer, active, pending, reported>>
history == <<past, told, opener, taken>>
vars == <<service, sessions, conn, pass, history, missed>>

Chunks == Seq(1..MaxOutput)
IdleAt(at) == [at |-> at, gen |-> 0, persistent |-> FALSE, todo |-> {}, cur |-> <<>>,
         out |-> [s \in Sessions |-> <<>>], found |-> {}]

TypeOK ==
  /\ {exists, persistent, needsSync} \subseteq BOOLEAN
  /\ gen \in 0..Cardinality(Conns)
  /\ terms \in [Ids -> Sessions \cup {None}]
  /\ shell \in [Sessions -> {"unused", "running", "exited", "stopped"}]
  /\ written \in [Sessions -> 0..MaxOutput]
  /\ chan \in [Sessions -> Chunks] /\ \A s \in Sessions : Len(chan[s]) <= ChanSize
  /\ buffer \in [Sessions -> Chunks]
  /\ active \in [Sessions -> BOOLEAN]
  /\ pending \in [Sessions -> {None} \cup Chunks]
  /\ reported \subseteq Sessions
  /\ conn \in [Conns -> {"out", "open", "gone"}]
  /\ \A c \in Conns :
       /\ pass[c].at \in {"none", "idle", "head", "begin", "read", "remove", "done"}
       /\ pass[c].todo \subseteq Ids \X Sessions
       /\ pass[c].found \subseteq Ids \X Sessions
  /\ past \in [Sessions -> Chunks]
  /\ told \subseteq Sessions
  /\ opener \in [Sessions -> Conns \cup {None}]
  /\ taken \subseteq Sessions
  /\ missed \in BOOLEAN

Init ==
  /\ exists = FALSE /\ gen = 0 /\ persistent = FALSE
  /\ needsSync = FALSE
  /\ terms = [i \in Ids |-> None]
  /\ shell = [s \in Sessions |-> "unused"]
  /\ written = [s \in Sessions |-> 0]
  /\ chan = [s \in Sessions |-> <<>>]
  /\ buffer = [s \in Sessions |-> <<>>]
  /\ active = [s \in Sessions |-> FALSE]
  /\ pending = [s \in Sessions |-> None]
  /\ reported = {}
  /\ conn = [c \in Conns |-> "out"]
  /\ pass = [c \in Conns |-> IdleAt("none")]
  /\ past = [s \in Sessions |-> <<>>]
  /\ told = {}
  /\ opener = [s \in Sessions |-> None]
  /\ taken = {}
  /\ missed = FALSE

InService == {terms[i] : i \in Ids} \ {None}
Locked(s) == \E c \in Conns : pass[c].cur # <<>> /\ pass[c].cur.session = s

(* The thread of c has the session in the list it is working through.      *)
Holds(c, s) ==
  \/ \E i \in Ids : <<i, s>> \in pass[c].todo
  \/ pass[c].cur # <<>> /\ pass[c].cur.session = s
At(c, at) == pass' = [pass EXCEPT ![c] = IdleAt(at)]

(* The sessions are nobody's until they are opened again.                  *)
Forget(ss) ==
  /\ opener' = [s \in Sessions |-> IF s \in ss THEN None ELSE opener[s]]
  /\ past' = [s \in Sessions |-> IF s \in ss THEN <<>> ELSE past[s]]
  /\ told' = told \ ss
  /\ taken' = taken \ ss

Deactivate(ss) ==
  /\ active' = [s \in Sessions |-> active[s] /\ s \notin ss]
  /\ pending' = [s \in Sessions |-> IF s \in ss THEN None ELSE pending[s]]

(* stop() of the given sessions, whose locks it takes.                     *)
Stop(ss) ==
  /\ \A s \in ss : ~Locked(s)
  /\ shell' = [s \in Sessions |-> IF s \in ss THEN "stopped" ELSE shell[s]]
  /\ chan' = [s \in Sessions |-> IF s \in ss THEN <<>> ELSE chan[s]]
  /\ Deactivate(ss)
  /\ UNCHANGED <<written, buffer, reported>>

RemoveService ==
  /\ Stop(IF exists THEN InService ELSE {})
  /\ Forget(IF exists THEN InService ELSE {})
  /\ exists' = FALSE
  /\ terms' = [i \in Ids |-> None]
  /\ UNCHANGED <<gen, persistent, needsSync, conn, missed>>

(* cleanup_inactive_services.  Time is not modelled: a service that is not *)
(* persistent is removed whether or not it has a connection.               *)
CleanupInactive ==
  /\ exists
  /\ ~persistent \/ InService = {}
  /\ RemoveService
  /\ UNCHANGED pass
-----------------------------------------------------------------------------
(* The shells.  Their readers drop what the channel has no room for.       *)

Output(s) ==
  /\ shell[s] = "running"
  /\ written[s] < MaxOutput
  /\ written' = [written EXCEPT ![s] = @ + 1]
  /\ chan' = [chan EXCEPT ![s] = IF Len(@) < ChanSize THEN Append(@, written[s] + 1) ELSE @]
  /\ UNCHANGED <<service, shell, buffer, active, pending, reported, conn, pass, history, missed>>

ShellExits(s) ==
  /\ shell[s] = "running"
  /\ shell' = [shell EXCEPT ![s] = "exited"]
  /\ UNCHANGED <<service, written, chan, buffer, active, pending, reported, conn, pass, history, missed>>
-----------------------------------------------------------------------------
(* The connection: init_terminal_service and handle_terminal_action.       *)

ResetStatus(p) ==
  /\ \A s \in InService : ~Locked(s)
  /\ persistent' = p
  /\ needsSync' = TRUE
  /\ Deactivate(InService)
  /\ Forget(InService)

(* get_or_create_service, which MAX_SERVICES others may keep from creating *)
(* one; the thread is started all the same.                                *)
Attach(c, p) ==
  /\ conn[c] = "out"
  /\ conn' = [conn EXCEPT ![c] = "open"]
  /\ At(c, "idle")
  /\ \/ /\ exists' = TRUE
        /\ gen' = IF exists THEN gen ELSE gen + 1
        /\ missed' = FALSE
        /\ ResetStatus(p)
        /\ UNCHANGED terms
     \/ ~exists /\ UNCHANGED <<service, active, pending, history, missed>>
  /\ UNCHANGED <<shell, written, chan, buffer, reported>>

Lowest == CHOOSE i \in Ids : terms[i] # None /\ \A j \in Ids : terms[j] # None => i <= j

(* The lowest surviving terminal gets the id the client asks for.          *)
Remapped(i) ==
  IF terms[i] = None /\ needsSync /\ InService # {}
  THEN [terms EXCEPT ![i] = terms[Lowest], ![Lowest] = None]
  ELSE terms

InFlight(c, s) == pass[c].out[s]
Reading(c, s) == InFlight(c, s) # <<>> \/ \E d \in Conns, i \in Ids : <<i, s>> \in pass[d].found

(* Slip: nothing is replayed.                                              *)
SlipReopen(c, i) ==
  LET s == Remapped(i)[i] IN
  /\ s # None
  /\ ~Locked(s)
  /\ active' = [active EXCEPT ![s] = TRUE]
  /\ pending' = [pending EXCEPT ![s] = None]
  /\ opener' = [opener EXCEPT ![s] = c]
  /\ past' = [past EXCEPT ![s] = <<>>]
  /\ taken' = IF Reading(c, s) THEN taken \cup {s} ELSE taken \ {s}
  /\ told' = told \ {s}
  /\ UNCHANGED <<shell, written, chan, buffer, reported>>

(* get_recent: as many whole lines from the end as there is room for, or   *)
(* the end of the last one.  The lengths of what is left out of a replay.  *)
LeftOut(s) ==
  IF Len(buffer[s]) <= ReplayMax THEN {0}
  ELSE {n \in 0..Len(buffer[s]) : Len(buffer[s]) - n \in 1..ReplayMax}

(* handle_open of a terminal there is.  (What the connection's own thread  *)
(* still holds of it, if the client opens it a second time, comes twice.)  *)
Reopen(c, i) ==
  LET s == Remapped(i)[i] IN
  /\ s # None
  /\ ~Locked(s)
  /\ active' = [active EXCEPT ![s] = TRUE]
  /\ \E n \in LeftOut(s) :
       /\ pending' = [pending EXCEPT ![s] = IF buffer[s] = <<>> THEN None
                                            ELSE SubSeq(buffer[s], n + 1, Len(buffer[s]))]
       /\ past' = [past EXCEPT ![s] = SubSeq(buffer[s], 1, n)]
  /\ opener' = [opener EXCEPT ![s] = c]
  /\ taken' = IF Reading(c, s) THEN taken \cup {s} ELSE taken \ {s}
  /\ told' = told \ {s}
  /\ UNCHANGED <<shell, written, chan, buffer, reported>>

OpenNew(c, s) ==
  /\ shell[s] = "unused"
  /\ shell' = [shell EXCEPT ![s] = "running"]
  /\ active' = [active EXCEPT ![s] = TRUE]
  /\ opener' = [opener EXCEPT ![s] = c]
  /\ UNCHANGED <<written, chan, buffer, pending, reported, past, told, taken>>

HandleOpen(c, i) ==
  /\ conn[c] = "open" /\ exists
  /\ \/ Reopen(c, i) /\ terms' = Remapped(i)
     \/ Remapped(i)[i] = None /\ \E s \in Sessions : OpenNew(c, s) /\ terms' = [terms EXCEPT ![i] = s]
  /\ needsSync' = FALSE
  /\ UNCHANGED <<exists, gen, persistent, conn, pass, missed>>

(* handle_close: the shell is killed.  The session is stopped as it is     *)
(* dropped, unless a thread has it in its list: then its reader ends by    *)
(* itself (ShellExits), and the thread stops it.                           *)
HandleClose(c, i) ==
  LET s == terms[i] IN
  /\ conn[c] = "open" /\ exists
  /\ s # None /\ ~Locked(s)
  /\ terms' = [terms EXCEPT ![i] = None]
  /\ Stop({t \in {s} : \A d \in Conns : ~Holds(d, t)})
  /\ UNCHANGED <<exists, gen, persistent, needsSync, conn, pass, history, missed>>

SetPersistent(c, p) ==
  /\ conn[c] = "open" /\ exists
  /\ persistent' = p
  /\ UNCHANGED <<exists, gen, needsSync, terms, sessions, conn, pass, history, missed>>

(* The connection is dropped, when its thread has ended (join).            *)
Disconnect(c) ==
  /\ conn[c] = "open"
  /\ conn' = [conn EXCEPT ![c] = "gone"]
  /\ UNCHANGED <<service, sessions, pass, history, missed>>
-----------------------------------------------------------------------------
(* The reading thread of a connection: ServiceTmpl::run, whose loop enters *)
(* the callback when the connection has subscribed; run and read_outputs.  *)

Enter(c) ==
  /\ pass[c].at = "idle"
  /\ conn[c] = "open"
  /\ At(c, "head")
  /\ UNCHANGED <<service, sessions, conn, history, missed>>

Serving == {c \in Conns : conn[c] = "open" \/ pass[c].at \notin {"none", "done"}}

(* A connection that leaves before that ends the thread, and nothing is    *)
(* removed.                                                                *)
Miss(c) ==
  /\ pass[c].at = "idle"
  /\ conn[c] = "gone"
  /\ At(c, "done")
  /\ missed' = (missed \/ Serving = {c})
  /\ UNCHANGED <<service, sessions, conn, history>>

(* TerminalServiceProxy::new.                                              *)
ReadPersistence(c) ==
  /\ pass[c].at = "head"
  /\ conn[c] = "open"
  /\ pass' = [pass EXCEPT ![c].at = "begin", ![c].persistent = exists /\ persistent]
  /\ UNCHANGED <<service, sessions, conn, history, missed>>

(* get_service and the list of its sessions.  (A service that is removed   *)
(* between the two has only stopped sessions.)                             *)
ListSessions(c) ==
  /\ pass[c].at = "begin"
  /\ IF exists
     THEN pass' = [pass EXCEPT ![c].at = "read", ![c].gen = gen,
                               ![c].todo = {<<i, terms[i]>> : i \in {j \in Ids : terms[j] # None}}]
     ELSE At(c, "head")
  /\ UNCHANGED <<service, sessions, conn, history, missed>>

(* try_lock skips what another thread has locked.  Whether the reader has  *)
(* ended is looked at before its channel is emptied.                       *)
CheckFinished(c, i, s) ==
  LET finished == shell[s] = "exited" /\ s \notin reported IN
  /\ pass[c].at = "read" /\ pass[c].cur = <<>>
  /\ <<i, s>> \in pass[c].todo
  /\ IF Locked(s)
     THEN /\ pass' = [pass EXCEPT ![c].todo = @ \ {<<i, s>>}]
          /\ UNCHANGED reported
     ELSE /\ pass' = [pass EXCEPT ![c].todo = @ \ {<<i, s>>},
                                  ![c].cur = [id |-> i, session |-> s],
                                  ![c].found = IF finished THEN @ \cup {<<i, s>>} ELSE @]
          /\ reported' = IF finished THEN reported \cup {s} ELSE reported
  /\ UNCHANGED <<service, shell, written, chan, buffer, active, pending, conn, history, missed>>

(* What has been received goes into the history, and is sent after what is *)
(* to be replayed; if the session is not active, it is not sent.  Then the *)
(* thread lets go of the session: it is stopped, if it is in no list.      *)
Take(c, s, received) ==
  LET sends == (IF pending[s] = None THEN <<>> ELSE pending[s]) \o received
      dropped == s \notin InService /\ \A d \in Conns \ {c} : ~Holds(d, s) IN
  /\ buffer' = [buffer EXCEPT ![s] = @ \o received]
  /\ IF active[s]
     THEN /\ pass' = [pass EXCEPT ![c].cur = <<>>, ![c].out[s] = sends]
          /\ pending' = [pending EXCEPT ![s] = None]
          /\ taken' = IF opener[s] # c /\ sends # <<>> THEN taken \cup {s} ELSE taken
     ELSE pass' = [pass EXCEPT ![c].cur = <<>>] /\ UNCHANGED <<pending, taken>>
  /\ shell' = [shell EXCEPT ![s] = IF dropped THEN "stopped" ELSE @]
  /\ active' = [active EXCEPT ![s] = @ /\ ~dropped]
  /\ UNCHANGED <<service, written, reported, conn, past, told, opener, missed>>

(* Slip: what has closed is not read any more.                             *)
SlipDrain(c) ==
  LET s == pass[c].cur.session
      closed == \E f \in pass[c].found : f[2] = s IN
  /\ pass[c].cur # <<>>
  /\ Take(c, s, IF closed THEN <<>> ELSE chan[s])
  /\ chan' = [chan EXCEPT ![s] = IF closed THEN @ ELSE <<>>]

(* All that has arrived is received.                                       *)
Drain(c) ==
  LET s == pass[c].cur.session IN
  /\ pass[c].cur # <<>>
  /\ Take(c, s, chan[s])
  /\ chan' = [chan EXCEPT ![s] = <<>>]

Processed(c) == pass[c].at = "read" /\ pass[c].cur = <<>> /\ pass[c].todo = {}

(* The responses are sent, data first, then what has closed.               *)
SendResponses(c) ==
  /\ past' = [s \in Sessions |-> IF opener[s] = c THEN past[s] \o InFlight(c, s) ELSE past[s]]
  /\ told' = told \cup {s \in {f[2] : f \in pass[c].found} : opener[s] = c}
  /\ At(c, "head")

Respond(c) ==
  /\ Processed(c)
  /\ pass[c].found = {} \/ pass[c].persistent
  /\ SendResponses(c)
  /\ UNCHANGED <<service, sessions, conn, opener, taken, missed>>

(* What closed is removed, by its id, unless the service was persistent    *)
(* when the pass began.  A session of that id is stopped as it is dropped, *)
(* unless another thread has it in its list.                               *)
CleanClosed(c) ==
  LET ids == IF exists /\ pass[c].gen = gen THEN {f[1] : f \in pass[c].found} ELSE {}
      dropped == {terms[i] : i \in ids} \ {None} IN
  /\ Processed(c)
  /\ pass[c].found # {} /\ ~pass[c].persistent
  /\ \A s \in dropped : ~Locked(s)
  /\ Stop({s \in dropped : \A d \in Conns : ~Holds(d, s)})
  /\ terms' = [i \in Ids |-> IF i \in ids THEN None ELSE terms[i]]
  /\ SendResponses(c)
  /\ UNCHANGED <<exists, gen, persistent, needsSync, conn, opener, taken, missed>>

(* Slip: what the last pass has read of it.                                *)
SlipExit(c) ==
  /\ pass[c].at = "head"
  /\ conn[c] = "gone"
  /\ At(c, IF exists /\ ~persistent /\ InService # {} THEN "remove" ELSE "done")
  /\ UNCHANGED <<service, sessions, conn, history, missed>>

(* The end of run: a service that is not persistent is removed.            *)
Exit(c) ==
  /\ pass[c].at = "head"
  /\ conn[c] = "gone"
  /\ At(c, IF exists /\ ~persistent THEN "remove" ELSE "done")
  /\ UNCHANGED <<service, sessions, conn, history, missed>>

RemoveAtExit(c) ==
  /\ pass[c].at = "remove"
  /\ RemoveService
  /\ At(c, "done")

Thread(c) ==
  \/ Enter(c) \/ Miss(c) \/ ReadPersistence(c) \/ ListSessions(c)
  \/ \E i \in Ids, s \in Sessions : CheckFinished(c, i, s)
  \/ Drain(c) \/ Respond(c) \/ CleanClosed(c)
  \/ Exit(c) \/ RemoveAtExit(c)
-----------------------------------------------------------------------------
Next ==
  \/ \E s \in Sessions : Output(s) \/ ShellExits(s)
  \/ \E c \in Conns :
       \/ \E p \in BOOLEAN : Attach(c, p) \/ SetPersistent(c, p)
       \/ \E i \in Ids : HandleOpen(c, i) \/ HandleClose(c, i)
       \/ Disconnect(c) \/ Thread(c)
  \/ CleanupInactive

Spec == Init /\ [][Next]_vars
-----------------------------------------------------------------------------
(* What a connection is sent of a terminal is the output of the terminal,  *)
(* from where the replay begins, without a gap and without anything twice; *)
(* unless the thread of another connection, still running, took some of    *)
(* it, or the same client opened it again.                                 *)
StreamIsWhole ==
  \A s \in Sessions :
    LET c == opener[s]
        replay == IF pending[s] = None THEN <<>> ELSE pending[s] IN
    (c # None /\ active[s] /\ s \notin taken) =>
      past[s] \o InFlight(c, s) \o replay = buffer[s]

(* Who is told by its thread that a terminal has closed has been sent all  *)
(* its shell wrote from where the replay began, but for what the channel   *)
(* had no room for.                                                        *)
DataBeforeClosed ==
  \A s \in Sessions :
    (opener[s] # None /\ s \notin taken /\ s \in told) =>
      chan[s] = <<>> /\ pending[s] = None /\ past[s] = buffer[s]

(* Whoever opened a terminal is sent its output as Stream says, as long as *)
(* no other connection's thread takes some of it.                          *)
Followed(s) == opener[s] # None /\ s \notin taken
Stream(s) == INSTANCE Stream WITH
  opener <- IF Followed(s) THEN opener[s] ELSE None,
  output <- buffer[s] \o chan[s],
  stopped <- shell[s] = "stopped",
  past <- IF Followed(s) THEN past[s] ELSE <<>>,
  closed <- Followed(s) /\ s \in told
IsStream ==
  /\ \A s \in Sessions : Stream(s)!Init
  /\ [][\A s \in Sessions : UNCHANGED Stream(s)!state \/ Stream(s)!Next]_vars

(* A service that is not persistent does not outlive its connections,      *)
(* unless the last one left before its thread had begun: that one is left  *)
(* to the hourly clean-up.                                                 *)
NonPersistentIsServed == exists /\ ~persistent /\ ~missed => Serving # {}
=============================================================================
