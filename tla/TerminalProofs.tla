--------------------------- MODULE TerminalProofs ---------------------------
(***************************************************************************)
(* What a terminal's output goes through, for any number of connections,   *)
(* terminals and shells: nothing is sent twice or left out, whichever       *)
(* connection's thread reads it.                                           *)
(***************************************************************************)
EXTENDS Terminal, FiniteSetTheorems, SequenceTheorems, TLAPS

Pass ==
  [at : {"none", "idle", "head", "begin", "read", "remove", "done"}, gen : Nat, persistent : BOOLEAN,
   todo : SUBSET (Ids \X Sessions), cur : {<<>>} \cup [id : Ids, session : Sessions],
   out : [Sessions -> Chunks], found : SUBSET (Ids \X Sessions)]

IsCur(c, s) == pass[c].cur # <<>> /\ pass[c].cur.session = s

(* A thread holds nothing but while it is in a pass, and runs as long as   *)
(* its connection is open.                                                 *)
Threads ==
  /\ pass \in [Conns -> Pass]
  /\ \A c \in Conns :
       /\ pass[c].at # "read" =>
            /\ pass[c].todo = {} /\ pass[c].found = {} /\ pass[c].cur = <<>>
            /\ \A s \in Sessions : pass[c].out[s] = <<>>
       /\ conn[c] = "out" => pass[c].at = "none"
       /\ conn[c] = "open" => pass[c].at \in {"idle", "head", "begin", "read"}

(* Each connection makes at most one service.                              *)
Generations == gen <= Cardinality({c \in Conns : conn[c] # "out"})

(* A session has one id, however terminals are renumbered.                 *)
OneId == \A i, j \in Ids : terms[i] = terms[j] /\ terms[i] # None => i = j

UnusedIsFresh ==
  \A s \in Sessions : shell[s] = "unused" =>
    /\ chan[s] = <<>> /\ buffer[s] = <<>> /\ past[s] = <<>> /\ pending[s] = None
    /\ s \notin InService \cup told \cup taken
    /\ opener[s] = None
    /\ \A c \in Conns : /\ pass[c].out[s] = <<>> /\ ~IsCur(c, s)
                        /\ \A i \in Ids : <<i, s>> \notin pass[c].todo \cup pass[c].found

(* A pass comes to each session once.                                      *)
ReadOnce ==
  \A c \in Conns, s \in Sessions :
    /\ IsCur(c, s) => pass[c].out[s] = <<>>
    /\ \A i \in Ids : <<i, s>> \in pass[c].todo =>
         /\ \A j \in Ids : <<j, s>> \in pass[c].todo => j = i
         /\ \A j \in Ids : <<j, s>> \notin pass[c].found
         /\ ~IsCur(c, s) /\ pass[c].out[s] = <<>>

(* Only what is active is replayed; a session somebody opened is only left *)
(* inactive when it is stopped.                                            *)
Replays ==
  \A s \in Sessions :
    /\ pending[s] # None => active[s]
    /\ opener[s] # None /\ ~active[s] => shell[s] = "stopped"

Replay(s) == IF pending[s] = None THEN <<>> ELSE pending[s]

(* All there is of the session is sent to its opener, or about to be.      *)
Settled(s) ==
  /\ chan[s] = <<>> /\ pending[s] = None
  /\ past[s] \o InFlight(opener[s], s) = buffer[s]

(* What a pass found to have closed has been read to its end.              *)
FoundIsRead ==
  \A c \in Conns, i \in Ids, s \in Sessions : <<i, s>> \in pass[c].found =>
    /\ shell[s] \in {"exited", "stopped"}
    /\ IsCur(c, s) => shell[s] = "exited"
    /\ opener[s] = c /\ s \notin taken /\ ~IsCur(c, s) => Settled(s)

ToldIsSent ==
  \A s \in Sessions : s \in told =>
    /\ shell[s] \in {"exited", "stopped"}
    /\ opener[s] # None /\ s \notin taken => Settled(s) /\ InFlight(opener[s], s) = <<>>

IInv ==
  /\ TypeOK /\ Threads /\ Generations /\ OneId /\ UnusedIsFresh /\ ReadOnce
  /\ Replays /\ StreamIsWhole /\ FoundIsRead /\ ToldIsSent /\ NonPersistentIsServed
-----------------------------------------------------------------------------
(* Chunks that follow each other.                                          *)
LEMMA ChunksLemma ==
  /\ <<>> \in Chunks
  /\ \A a, b \in Chunks : a \o b \in Chunks /\ (a \o b = <<>> => a = <<>> /\ b = <<>>)
  /\ \A a \in Chunks : a \o <<>> = a /\ <<>> \o a = a
  BY EmptySeq, ConcatProperties, ConcatEmptySeq, ConcatEqualIffEmpty DEF Chunks

(* Concatenation is associative.                                           *)
LEMMA ChunksAssociate ==
  \A a, b, c \in Chunks : (a \o b) \o c = a \o (b \o c)
  <1> SUFFICES ASSUME NEW a \in Chunks, NEW b \in Chunks, NEW c \in Chunks
               PROVE  (a \o b) \o c = a \o (b \o c)
    OBVIOUS
  <1> DEFINE S == 1..MaxOutput
  <1>1. a \in Seq(S) /\ b \in Seq(S) /\ c \in Seq(S)
    BY DEF Chunks
  <1> HIDE DEF S
  <1> QED BY <1>1

(* A nonempty set of ids has a lowest one.                                 *)
LEMMA LeastNat ==
  ASSUME NEW S, S \subseteq Nat, S # {}
  PROVE  \E x \in S : \A y \in S : x <= y
  <1> DEFINE T == {0..(n-1) : n \in S}
  <1>1. T \subseteq FiniteSubsetsOf(Nat) /\ T # {}
    <2>1. ASSUME NEW n \in S
          PROVE  0..(n-1) \in SUBSET Nat /\ IsFiniteSet(0..(n-1))
      <3>1. 0 \in Int /\ n-1 \in Int
        OBVIOUS
      <3> QED BY <3>1, FS_Interval
    <2> QED BY <2>1 DEF FiniteSubsetsOf
  <1>2. PICK m \in T : \A l \in T : <<l, m>> \notin StrictSubsetOrdering(Nat)
    <2> HIDE DEF T
    <2> QED BY <1>1, FS_StrictSubsetOrderingWellFounded, WFMin
  <1>3. PICK x \in S : m = 0..(x-1)
    BY <1>2
  <1>4. ASSUME NEW y \in S, y < x PROVE FALSE
    <2>1. <<0..(y-1), m>> \notin StrictSubsetOrdering(Nat)
      BY <1>2
    <2>2. 0..(y-1) \in SUBSET Nat /\ m \in SUBSET Nat /\ 0..(y-1) \subseteq m
      BY <1>3, <1>4
    <2>3. y \in m /\ y \notin 0..(y-1)
      BY <1>3, <1>4
    <2> QED BY <2>1, <2>2, <2>3 DEF StrictSubsetOrdering
  <1> QED BY <1>4

(* A service with sessions has a lowest id.                                *)
LEMMA LowestLemma ==
  ASSUME TypeOK, InService # {}
  PROVE  Lowest \in Ids /\ terms[Lowest] # None
  <1>1. {i \in Ids : terms[i] # None} \subseteq Nat /\ {i \in Ids : terms[i] # None} # {}
    BY TerminalAssumption DEF InService
  <1>2. \E i \in Ids : terms[i] # None /\ \A j \in Ids : terms[j] # None => i <= j
    BY <1>1, LeastNat
  <1> QED BY <1>2 DEF Lowest

(* Renumbering keeps the sessions, each under one id.                      *)
LEMMA RemappedLemma ==
  ASSUME TypeOK, OneId, NEW i \in Ids
  PROVE  /\ Remapped(i) \in [Ids -> Sessions \cup {None}]
         /\ \A j, k \in Ids : Remapped(i)[j] = Remapped(i)[k] /\ Remapped(i)[j] # None => j = k
         /\ \A j \in Ids : Remapped(i)[j] \in InService \cup {None}
  <1>1. CASE terms[i] = None /\ needsSync /\ InService # {}
    <2>1. Lowest \in Ids /\ terms[Lowest] # None
      BY <1>1, LowestLemma
    <2>2. Remapped(i) = [terms EXCEPT ![i] = terms[Lowest], ![Lowest] = None]
      BY <1>1 DEF Remapped
    <2> DEFINE l == Lowest
    <2> HIDE DEF l
    <2>3. l \in Ids /\ terms[l] # None /\ Remapped(i) = [terms EXCEPT ![i] = terms[l], ![l] = None]
      BY <2>1, <2>2 DEF l
    <2>4. terms \in [Ids -> Sessions \cup {None}]
      BY DEF TypeOK
    <2>5. Remapped(i) \in [Ids -> Sessions \cup {None}]
      BY <2>3, <2>4
    <2>6. \A j \in Ids : Remapped(i)[j] = IF j = l THEN None ELSE IF j = i THEN terms[l] ELSE terms[j]
      BY <2>3, <2>4
    <2>7. \A j, k \in Ids : Remapped(i)[j] = Remapped(i)[k] /\ Remapped(i)[j] # None => j = k
      BY <2>3, <2>6 DEF OneId
    <2>8. \A j \in Ids : Remapped(i)[j] \in InService \cup {None}
      BY <2>3, <2>6 DEF InService
    <2> QED BY <2>5, <2>7, <2>8
  <1>2. CASE ~(terms[i] = None /\ needsSync /\ InService # {})
    <2>1. Remapped(i) = terms
      BY <1>2 DEF Remapped
    <2> QED BY <2>1 DEF TypeOK, OneId, InService
  <1> QED BY <1>1, <1>2
-----------------------------------------------------------------------------
(* Of a closed session nothing is lost while nobody reads or opens it.     *)
LEMMA ClosedStays ==
  ASSUME IInv, UNCHANGED <<buffer, pending, pass, history>>,
         \A s \in Sessions : shell[s] \in {"exited", "stopped"} =>
           shell'[s] = shell[s] /\ chan'[s] = chan[s]
  PROVE  FoundIsRead' /\ ToldIsSent'
  <1>1. \A s \in Sessions : shell[s] \in {"exited", "stopped"} /\ Settled(s) => Settled(s)'
    BY DEF Settled, InFlight, history
  <1>2. \A c \in Conns, s \in Sessions : (IsCur(c, s)' <=> IsCur(c, s)) /\ InFlight(c, s)' = InFlight(c, s)
    BY DEF IsCur, InFlight
  <1>3. FoundIsRead'
    BY <1>1, <1>2 DEF IInv, FoundIsRead, history
  <1>4. ToldIsSent'
    BY <1>1 DEF IInv, ToldIsSent, history, InFlight
  <1> QED BY <1>3, <1>4

(* The shell writes; what the channel cannot take is dropped.              *)
LEMMA OutputStep ==
  ASSUME IInv, NEW s \in Sessions, Output(s)
  PROVE  IInv'
  <1>1. /\ shell[s] = "running" /\ written[s] < MaxOutput
        /\ written' = [written EXCEPT ![s] = @ + 1]
        /\ chan' = [chan EXCEPT ![s] = IF Len(@) < ChanSize THEN Append(@, written[s] + 1) ELSE @]
        /\ UNCHANGED <<service, shell, buffer, active, pending, reported, conn, pass, history, missed>>
    BY DEF Output
  <1>2. TypeOK'
    <2>1. /\ written \in [Sessions -> 0..MaxOutput] /\ chan \in [Sessions -> Chunks]
          /\ \A t \in Sessions : Len(chan[t]) <= ChanSize
      BY DEF IInv, TypeOK
    <2>2. written[s] + 1 \in 1..MaxOutput
      BY <1>1, <2>1, TerminalAssumption
    <2>3. written' \in [Sessions -> 0..MaxOutput]
      BY <1>1, <2>1, <2>2
    <2>4. chan[s] \in Chunks /\ Len(chan[s]) <= ChanSize
      BY <2>1
    <2>5. Append(chan[s], written[s] + 1) \in Chunks /\ Len(Append(chan[s], written[s] + 1)) = Len(chan[s]) + 1
          /\ Len(chan[s]) \in Nat
      BY <2>2, <2>4 DEF Chunks
    <2>6. chan'[s] \in Chunks /\ Len(chan'[s]) <= ChanSize
      BY <1>1, <2>1, <2>4, <2>5, TerminalAssumption
    <2>7. chan' \in [Sessions -> Chunks] /\ \A t \in Sessions : Len(chan'[t]) <= ChanSize
      BY <1>1, <2>1, <2>6
    <2> QED BY <1>1, <2>3, <2>7 DEF IInv, TypeOK, service, history
  <1>3. \A t \in Sessions : t # s => chan'[t] = chan[t]
    BY <1>1 DEF IInv, TypeOK
  <1>4. Threads' /\ Generations' /\ OneId' /\ ReadOnce' /\ NonPersistentIsServed'
    BY <1>1 DEF IInv, Threads, Generations, OneId, ReadOnce, NonPersistentIsServed, Serving, IsCur, service
  <1>5. UnusedIsFresh'
    BY <1>1, <1>3 DEF IInv, UnusedIsFresh, IsCur, InService, service, history
  <1>6. Replays' /\ StreamIsWhole'
    BY <1>1 DEF IInv, Replays, StreamIsWhole, InFlight, service, history
  <1>7. FoundIsRead' /\ ToldIsSent'
    BY <1>1, <1>3, ClosedStays DEF history
  <1> QED BY <1>2, <1>4, <1>5, <1>6, <1>7 DEF IInv

(* The shell ends by itself.                                               *)
LEMMA ShellExitsStep ==
  ASSUME IInv, NEW s \in Sessions, ShellExits(s)
  PROVE  IInv'
  <1>1. /\ shell[s] = "running"
        /\ shell' = [shell EXCEPT ![s] = "exited"]
        /\ UNCHANGED <<service, written, chan, buffer, active, pending, reported, conn, pass, history, missed>>
    BY DEF ShellExits
  <1>2. TypeOK'
    BY <1>1 DEF IInv, TypeOK, service, history
  <1>3. \A t \in Sessions : shell'[t] = IF t = s THEN "exited" ELSE shell[t]
    BY <1>1 DEF IInv, TypeOK
  <1>4. Threads' /\ Generations' /\ OneId' /\ ReadOnce' /\ NonPersistentIsServed'
    BY <1>1 DEF IInv, Threads, Generations, OneId, ReadOnce, NonPersistentIsServed, Serving, IsCur, service
  <1>5. UnusedIsFresh'
    BY <1>1, <1>3 DEF IInv, UnusedIsFresh, IsCur, InService, service, history
  <1>6. Replays' /\ StreamIsWhole'
    BY <1>1, <1>3 DEF IInv, Replays, StreamIsWhole, InFlight, service, history
  <1>7. FoundIsRead' /\ ToldIsSent'
    BY <1>1, <1>3, ClosedStays DEF history
  <1> QED BY <1>2, <1>4, <1>5, <1>6, <1>7 DEF IInv

(* A connection sets the persistence of the service.                       *)
LEMMA SetPersistentStep ==
  ASSUME IInv, NEW c \in Conns, NEW p \in BOOLEAN, SetPersistent(c, p)
  PROVE  IInv'
  <1>1. /\ conn[c] = "open" /\ persistent' = p
        /\ UNCHANGED <<exists, gen, needsSync, terms, sessions, conn, pass, history, missed>>
    BY DEF SetPersistent
  <1>2. TypeOK'
    BY <1>1 DEF IInv, TypeOK, sessions, history
  <1>3. NonPersistentIsServed'
    BY <1>1 DEF NonPersistentIsServed, Serving
  <1>4. FoundIsRead' /\ ToldIsSent'
    BY <1>1, ClosedStays DEF sessions, history
  <1>5. Threads' /\ Generations' /\ OneId' /\ UnusedIsFresh' /\ ReadOnce'
    BY <1>1 DEF IInv, Threads, Generations, OneId, UnusedIsFresh, ReadOnce, IsCur, InService, sessions, history
  <1>6. Replays' /\ StreamIsWhole'
    BY <1>1 DEF IInv, Replays, StreamIsWhole, InFlight, sessions, history
  <1> QED BY <1>2, <1>3, <1>4, <1>5, <1>6 DEF IInv

(* Sessions are stopped: they are closed for good, and hold nothing.       *)
LEMMA StopLemma ==
  ASSUME TypeOK, NEW ss, Stop(ss)
  PROVE  /\ \A s \in Sessions :
              /\ shell'[s] = IF s \in ss THEN "stopped" ELSE shell[s]
              /\ chan'[s] = IF s \in ss THEN <<>> ELSE chan[s]
              /\ active'[s] <=> active[s] /\ s \notin ss
              /\ pending'[s] = IF s \in ss THEN None ELSE pending[s]
              /\ s \in ss => \A c \in Conns : ~IsCur(c, s)
         /\ shell' \in [Sessions -> {"unused", "running", "exited", "stopped"}]
         /\ chan' \in [Sessions -> Chunks] /\ \A s \in Sessions : Len(chan'[s]) <= ChanSize
         /\ active' \in [Sessions -> BOOLEAN]
         /\ pending' \in [Sessions -> {None} \cup Chunks]
         /\ UNCHANGED <<written, buffer, reported>>
  <1>1. /\ \A s \in ss : ~Locked(s)
        /\ shell' = [s \in Sessions |-> IF s \in ss THEN "stopped" ELSE shell[s]]
        /\ chan' = [s \in Sessions |-> IF s \in ss THEN <<>> ELSE chan[s]]
        /\ active' = [s \in Sessions |-> active[s] /\ s \notin ss]
        /\ pending' = [s \in Sessions |-> IF s \in ss THEN None ELSE pending[s]]
        /\ UNCHANGED <<written, buffer, reported>>
    BY DEF Stop, Deactivate
  <1>2. \A s \in ss, c \in Conns : ~IsCur(c, s)
    BY <1>1 DEF Locked, IsCur
  <1>3. shell' \in [Sessions -> {"unused", "running", "exited", "stopped"}]
    BY <1>1 DEF TypeOK
  <1>4. chan' \in [Sessions -> Chunks]
    BY <1>1, ChunksLemma DEF TypeOK
  <1>5. \A s \in Sessions : Len(chan'[s]) <= ChanSize
    <2>1. Len(<<>>) = 0 /\ 0 <= ChanSize
      BY TerminalAssumption
    <2>2. \A s \in Sessions : chan'[s] = <<>> \/ chan'[s] = chan[s]
      BY <1>1
    <2> QED BY <2>1, <2>2 DEF TypeOK
  <1>6. active' \in [Sessions -> BOOLEAN]
    BY <1>1 DEF TypeOK
  <1>7. pending' \in [Sessions -> {None} \cup Chunks]
    BY <1>1 DEF TypeOK
  <1>8. \A s \in Sessions :
              /\ shell'[s] = IF s \in ss THEN "stopped" ELSE shell[s]
              /\ chan'[s] = IF s \in ss THEN <<>> ELSE chan[s]
              /\ active'[s] <=> active[s] /\ s \notin ss
              /\ pending'[s] = IF s \in ss THEN None ELSE pending[s]
    BY <1>1
  <1> QED BY <1>1, <1>2, <1>3, <1>4, <1>5, <1>6, <1>7, <1>8

(* A client closes a terminal: it is stopped, or a thread still holds it.  *)
LEMMA HandleCloseStep ==
  ASSUME IInv, NEW c \in Conns, NEW i \in Ids, HandleClose(c, i)
  PROVE  IInv'
  <1> DEFINE ss == {t \in {terms[i]} : \A d \in Conns : ~Holds(d, t)}
  <1>1. /\ terms' = [terms EXCEPT ![i] = None] /\ Stop(ss)
        /\ UNCHANGED <<exists, gen, persistent, needsSync, conn, pass, history, missed>>
    BY DEF HandleClose
  <1> HIDE DEF ss
  <1>2. TypeOK
    BY DEF IInv
  <1>3. /\ \A t \in Sessions :
             /\ shell'[t] = IF t \in ss THEN "stopped" ELSE shell[t]
             /\ chan'[t] = IF t \in ss THEN <<>> ELSE chan[t]
             /\ active'[t] <=> active[t] /\ t \notin ss
             /\ pending'[t] = IF t \in ss THEN None ELSE pending[t]
             /\ t \in ss => \A d \in Conns : ~IsCur(d, t)
        /\ shell' \in [Sessions -> {"unused", "running", "exited", "stopped"}]
        /\ chan' \in [Sessions -> Chunks] /\ \A t \in Sessions : Len(chan'[t]) <= ChanSize
        /\ active' \in [Sessions -> BOOLEAN]
        /\ pending' \in [Sessions -> {None} \cup Chunks]
        /\ UNCHANGED <<written, buffer, reported>>
    BY <1>1, <1>2, StopLemma
  <1>4. \A j \in Ids : terms'[j] = IF j = i THEN None ELSE terms[j]
    BY <1>1, <1>2 DEF TypeOK
  <1>5. TypeOK'
    <2>1. terms' \in [Ids -> Sessions \cup {None}]
      BY <1>1, <1>2 DEF TypeOK
    <2> QED BY <1>1, <1>2, <1>3, <2>1 DEF TypeOK, history
  <1>6. InService' \subseteq InService
    BY <1>4 DEF InService
  <1>7. Threads' /\ Generations' /\ ReadOnce' /\ NonPersistentIsServed'
    BY <1>1 DEF IInv, Threads, Generations, ReadOnce, NonPersistentIsServed, Serving, IsCur
  <1>8. OneId'
    BY <1>4 DEF IInv, OneId
  <1>9. \A d \in Conns, t \in Sessions : (IsCur(d, t)' <=> IsCur(d, t)) /\ InFlight(d, t)' = InFlight(d, t)
    BY <1>1 DEF IsCur, InFlight
  <1>10. UnusedIsFresh'
    BY <1>1, <1>3, <1>6, <1>9 DEF IInv, UnusedIsFresh, history
  <1>11. Replays'
    BY <1>1, <1>3 DEF IInv, Replays, history
  <1>12. StreamIsWhole'
    BY <1>1, <1>3 DEF IInv, StreamIsWhole, InFlight, history
  <1>13. \A t \in Sessions : Settled(t) => Settled(t)'
    BY <1>1, <1>3 DEF Settled, InFlight, history
  <1>14. FoundIsRead'
    BY <1>1, <1>3, <1>9, <1>13 DEF IInv, FoundIsRead, history
  <1>15. ToldIsSent'
    BY <1>1, <1>3, <1>13 DEF IInv, ToldIsSent, InFlight, history
  <1> QED BY <1>5, <1>7, <1>8, <1>10, <1>11, <1>12, <1>14, <1>15 DEF IInv

(* A connection ends; its thread will find out.                            *)
LEMMA DisconnectStep ==
  ASSUME IInv, NEW c \in Conns, Disconnect(c)
  PROVE  IInv'
  <1>1. /\ conn[c] = "open" /\ conn' = [conn EXCEPT ![c] = "gone"]
        /\ UNCHANGED <<service, sessions, pass, history, missed>>
    BY DEF Disconnect
  <1>2. TypeOK'
    BY <1>1 DEF IInv, TypeOK, service, sessions, history
  <1>3. \A d \in Conns : conn'[d] = IF d = c THEN "gone" ELSE conn[d]
    BY <1>1 DEF IInv, TypeOK
  <1>4. Threads'
    BY <1>1, <1>3 DEF IInv, Threads
  <1>5. Generations'
    <2>1. {d \in Conns : conn'[d] # "out"} = {d \in Conns : conn[d] # "out"}
      BY <1>1, <1>3
    <2> QED BY <1>1, <2>1 DEF IInv, Generations, service
  <1>6. NonPersistentIsServed'
    BY <1>1, <1>3 DEF IInv, Threads, NonPersistentIsServed, Serving, service
  <1>7. OneId' /\ UnusedIsFresh' /\ ReadOnce'
    BY <1>1 DEF IInv, OneId, UnusedIsFresh, ReadOnce, IsCur, InService, service, sessions, history
  <1>8. Replays' /\ StreamIsWhole'
    BY <1>1 DEF IInv, Replays, StreamIsWhole, InFlight, sessions, history
  <1>9. FoundIsRead' /\ ToldIsSent'
    BY <1>1, ClosedStays DEF sessions, history
  <1> QED BY <1>2, <1>4, <1>5, <1>6, <1>7, <1>8, <1>9 DEF IInv
-----------------------------------------------------------------------------
(* A thread outside of a pass holds nothing.                               *)
LEMMA IdleLemma ==
  ASSUME NEW at \in {"none", "idle", "head", "begin", "read", "remove", "done"}
  PROVE  /\ IdleAt(at) \in Pass /\ IdleAt(at).at = at /\ IdleAt(at).cur = <<>>
         /\ IdleAt(at).todo = {} /\ IdleAt(at).found = {}
         /\ \A s \in Sessions : IdleAt(at).out[s] = <<>>
  BY ChunksLemma DEF IdleAt, Pass

(* A thread between two passes holds nothing.                              *)
LEMMA AtRest ==
  ASSUME IInv, NEW c \in Conns, pass[c].at # "read"
  PROVE  /\ pass[c].found = {} /\ pass[c].todo = {} /\ pass[c].cur = <<>>
         /\ \A s \in Sessions : pass[c].out[s] = <<>> /\ ~IsCur(c, s)
  BY DEF IInv, Threads, IsCur

(* A thread that goes where it holds nothing, whichever terminals are in   *)
(* the service afterwards: the part of IInv that is about threads.         *)
LEMMA IdleStep ==
  ASSUME IInv, NEW c \in Conns, NEW at \in {"idle", "head", "remove", "done"}, At(c, at),
         conn' \in [Conns -> {"out", "open", "gone"}],
         \A d \in Conns : d # c => conn'[d] = conn[d],
         conn'[c] # "out", conn'[c] = "open" => at \in {"idle", "head"}
  PROVE  /\ Threads' /\ ReadOnce' /\ \A d \in Conns : pass'[d] \in Pass
         /\ pass'[c].at = at /\ pass'[c].found = {} /\ pass'[c].todo = {} /\ pass'[c].cur = <<>>
         /\ \A s \in Sessions : pass'[c].out[s] = <<>>
         /\ \A d \in Conns : d # c => pass'[d] = pass[d]
         /\ \A d \in Conns, s \in Sessions : IsCur(d, s)' <=> d # c /\ IsCur(d, s)
  <1>1. pass \in [Conns -> Pass] /\ pass' = [pass EXCEPT ![c] = IdleAt(at)]
    BY DEF IInv, Threads, At
  <1>2. pass' \in [Conns -> Pass] /\ pass'[c] = IdleAt(at) /\ \A d \in Conns : d # c => pass'[d] = pass[d]
    BY <1>1, IdleLemma
  <1>3. /\ pass'[c].at = at /\ pass'[c].found = {} /\ pass'[c].todo = {} /\ pass'[c].cur = <<>>
        /\ \A s \in Sessions : pass'[c].out[s] = <<>>
    BY <1>2, IdleLemma
  <1>4. \A d \in Conns, s \in Sessions : IsCur(d, s)' <=> d # c /\ IsCur(d, s)
    BY <1>2, <1>3 DEF IsCur
  <1>5. Threads'
    <2> SUFFICES ASSUME NEW d \in Conns
                 PROVE  /\ pass'[d].at # "read" =>
                             /\ pass'[d].todo = {} /\ pass'[d].found = {} /\ pass'[d].cur = <<>>
                             /\ \A s \in Sessions : pass'[d].out[s] = <<>>
                        /\ conn'[d] = "out" => pass'[d].at = "none"
                        /\ conn'[d] = "open" => pass'[d].at \in {"idle", "head", "begin", "read"}
      BY <1>2 DEF Threads
    <2>1. CASE d = c
      BY <1>2, <1>3, <2>1
    <2>2. CASE d # c
      BY <1>2, <2>2 DEF IInv, Threads
    <2> QED BY <2>1, <2>2
  <1>6. ReadOnce'
    <2> SUFFICES ASSUME NEW d \in Conns, NEW s \in Sessions
                 PROVE  /\ IsCur(d, s)' => pass'[d].out[s] = <<>>
                        /\ \A i \in Ids : <<i, s>> \in pass'[d].todo =>
                             /\ \A j \in Ids : <<j, s>> \in pass'[d].todo => j = i
                             /\ \A j \in Ids : <<j, s>> \notin pass'[d].found
                             /\ ~IsCur(d, s)' /\ pass'[d].out[s] = <<>>
      BY DEF ReadOnce
    <2>1. CASE d = c
      BY <1>3, <1>4, <2>1
    <2>2. CASE d # c
      BY <1>2, <1>4, <2>2 DEF IInv, ReadOnce
    <2> QED BY <2>1, <2>2
  <1> QED BY <1>2, <1>3, <1>4, <1>5, <1>6

(* A thread goes on and holds what it held.                                *)
LEMMA PassKeeps ==
  ASSUME IInv, UNCHANGED <<service, sessions, conn, history>>, missed' \in BOOLEAN,
         pass' \in [Conns -> Pass], Threads', NonPersistentIsServed',
         \A d \in Conns :
           /\ pass'[d].todo = pass[d].todo /\ pass'[d].found = pass[d].found /\ pass'[d].cur = pass[d].cur
           /\ \A s \in Sessions : pass'[d].out[s] = pass[d].out[s]
  PROVE  IInv'
  <1>1. \A d \in Conns, s \in Sessions : (IsCur(d, s)' <=> IsCur(d, s)) /\ InFlight(d, s)' = InFlight(d, s)
    BY DEF IsCur, InFlight
  <1>2. opener \in [Sessions -> Conns \cup {None}]
    BY DEF IInv, TypeOK
  <1>3. TypeOK'
    <2>1. \A d \in Conns : pass'[d] \in Pass
      OBVIOUS
    <2> QED BY <2>1 DEF IInv, TypeOK, Pass, service, sessions, history
  <1>4. Generations' /\ OneId'
    BY DEF IInv, Generations, OneId, service
  <1>5. UnusedIsFresh'
    <2>1. InService' = InService
      BY DEF InService, service
    <2> QED BY <1>1, <2>1 DEF IInv, UnusedIsFresh, sessions, history
  <1>6. ReadOnce'
    BY <1>1 DEF IInv, ReadOnce
  <1>7. Replays'
    BY DEF IInv, Replays, sessions, history
  <1>8. StreamIsWhole'
    BY <1>1, <1>2 DEF IInv, StreamIsWhole, sessions, history
  <1>9. \A s \in Sessions : opener[s] # None /\ Settled(s) => Settled(s)'
    BY <1>1, <1>2 DEF Settled, sessions, history
  <1>10. FoundIsRead'
    BY <1>1, <1>9, TerminalAssumption DEF IInv, FoundIsRead, sessions, history
  <1>11. ToldIsSent'
    BY <1>1, <1>2, <1>9 DEF IInv, ToldIsSent, sessions, history
  <1> QED BY <1>3, <1>4, <1>5, <1>6, <1>7, <1>8, <1>10, <1>11 DEF IInv

(* A thread that holds nothing goes where it holds nothing.                *)
LEMMA LoopStep ==
  ASSUME IInv, NEW c \in Conns, NEW at \in {"idle", "head", "remove", "done"},
         pass[c].at # "read", At(c, at), UNCHANGED <<service, sessions, conn, history>>,
         missed' \in BOOLEAN, conn[c] # "out", conn[c] = "open" => at \in {"idle", "head"},
         (\A d \in Conns : d # c => pass'[d] = pass[d]) /\ pass'[c].at = at => NonPersistentIsServed'
  PROVE  IInv'
  <1>1. conn' \in [Conns -> {"out", "open", "gone"}]
    BY DEF IInv, TypeOK
  <1>2. /\ Threads' /\ \A d \in Conns : pass'[d] \in Pass
        /\ pass'[c].at = at /\ pass'[c].found = {} /\ pass'[c].todo = {} /\ pass'[c].cur = <<>>
        /\ \A s \in Sessions : pass'[c].out[s] = <<>>
        /\ \A d \in Conns : d # c => pass'[d] = pass[d]
    BY <1>1, IdleStep
  <1>3. /\ pass[c].found = {} /\ pass[c].todo = {} /\ pass[c].cur = <<>>
        /\ \A s \in Sessions : pass[c].out[s] = <<>>
    BY AtRest
  <1>4. pass' \in [Conns -> Pass]
    BY <1>2 DEF Threads
  <1>5. \A d \in Conns :
           /\ pass'[d].todo = pass[d].todo /\ pass'[d].found = pass[d].found /\ pass'[d].cur = pass[d].cur
           /\ \A s \in Sessions : pass'[d].out[s] = pass[d].out[s]
    BY <1>2, <1>3
  <1>6. NonPersistentIsServed'
    BY <1>2
  <1> QED BY <1>2, <1>4, <1>5, <1>6, PassKeeps

(* The thread enters its loop.                                             *)
LEMMA EnterStep ==
  ASSUME IInv, NEW c \in Conns, Enter(c)
  PROVE  IInv'
  <1>1. /\ pass[c].at = "idle" /\ conn[c] = "open" /\ At(c, "head")
        /\ UNCHANGED <<service, sessions, conn, history, missed>>
    BY DEF Enter
  <1>2. NonPersistentIsServed'
    BY <1>1 DEF NonPersistentIsServed, Serving
  <1>3. missed' \in BOOLEAN
    BY <1>1 DEF IInv, TypeOK
  <1> QED BY <1>1, <1>2, <1>3, LoopStep

(* The thread ends before it entered its loop.                             *)
LEMMA MissStep ==
  ASSUME IInv, NEW c \in Conns, Miss(c)
  PROVE  IInv'
  <1>1. /\ pass[c].at = "idle" /\ conn[c] = "gone" /\ At(c, "done")
        /\ missed' = (missed \/ Serving = {c})
        /\ UNCHANGED <<service, sessions, conn, history>>
    BY DEF Miss
  <1>2. missed' \in BOOLEAN
    BY <1>1 DEF IInv, TypeOK
  <1>3. ASSUME \A d \in Conns : d # c => pass'[d] = pass[d]
        PROVE  NonPersistentIsServed'
    <2> SUFFICES ASSUME exists, ~persistent, ~missed, Serving # {c}
                 PROVE  Serving' # {}
      BY <1>1 DEF NonPersistentIsServed, service
    <2>1. PICK d \in Serving : d # c
      BY DEF IInv, NonPersistentIsServed
    <2>2. d \in Conns /\ (conn[d] = "open" \/ pass[d].at \notin {"none", "done"})
      BY DEF Serving
    <2>3. conn'[d] = "open" \/ pass'[d].at \notin {"none", "done"}
      BY <1>1, <1>3, <2>1, <2>2
    <2> QED BY <2>2, <2>3 DEF Serving
  <1> QED BY <1>1, <1>2, <1>3, LoopStep

(* A pass begins with the persistence of the service.                      *)
LEMMA ReadPersistenceStep ==
  ASSUME IInv, NEW c \in Conns, ReadPersistence(c)
  PROVE  IInv'
  <1> DEFINE p == exists /\ persistent
             r == [pass[c] EXCEPT !.at = "begin", !.persistent = p]
  <1>1. /\ pass[c].at = "head" /\ conn[c] = "open"
        /\ pass' = [pass EXCEPT ![c].at = "begin", ![c].persistent = p]
        /\ UNCHANGED <<service, sessions, conn, history, missed>>
    BY DEF ReadPersistence
  <1>2. pass \in [Conns -> Pass] /\ pass[c] \in Pass /\ p \in BOOLEAN /\ missed \in BOOLEAN
    BY DEF IInv, Threads, TypeOK
  <1> HIDE DEF p
  <1>3. /\ r \in Pass /\ r.at = "begin" /\ r.todo = pass[c].todo /\ r.found = pass[c].found
        /\ r.cur = pass[c].cur /\ r.out = pass[c].out
    BY <1>2 DEF Pass
  <1>4. pass' = [pass EXCEPT ![c] = r]
    BY <1>1, <1>2
  <1> HIDE DEF r
  <1>5. pass' \in [Conns -> Pass] /\ pass'[c] = r /\ \A d \in Conns : d # c => pass'[d] = pass[d]
    BY <1>2, <1>3, <1>4
  <1>6. \A d \in Conns :
           /\ pass'[d].todo = pass[d].todo /\ pass'[d].found = pass[d].found /\ pass'[d].cur = pass[d].cur
           /\ \A s \in Sessions : pass'[d].out[s] = pass[d].out[s]
    BY <1>3, <1>5
  <1>7. Threads'
    BY <1>1, <1>3, <1>5 DEF IInv, Threads
  <1>8. NonPersistentIsServed'
    BY <1>1 DEF NonPersistentIsServed, Serving
  <1> QED BY <1>1, <1>2, <1>5, <1>6, <1>7, <1>8, PassKeeps

(* Then come the sessions there are, if there is a service.                *)
LEMMA ListSessionsStep ==
  ASSUME IInv, NEW c \in Conns, ListSessions(c)
  PROVE  IInv'
  <1> DEFINE todo == {<<i, terms[i]>> : i \in {j \in Ids : terms[j] # None}}
  <1>0. CASE ~exists
    <2>1. /\ pass[c].at = "begin" /\ At(c, "head")
          /\ UNCHANGED <<service, sessions, conn, history, missed>>
      BY <1>0 DEF ListSessions
    <2>2. conn[c] # "out" /\ missed' \in BOOLEAN
      BY <2>1 DEF IInv, Threads, TypeOK
    <2>3. NonPersistentIsServed'
      BY <1>0, <2>1 DEF NonPersistentIsServed, service
    <2> QED BY <2>1, <2>2, <2>3, LoopStep
  <1> SUFFICES ASSUME exists
               PROVE  IInv'
    BY <1>0
  <1>1. /\ pass[c].at = "begin"
        /\ pass' = [pass EXCEPT ![c].at = "read", ![c].gen = gen, ![c].todo = todo]
        /\ UNCHANGED <<service, sessions, conn, history, missed>>
    BY DEF ListSessions
  <1>2. /\ pass \in [Conns -> Pass] /\ pass[c].found = {} /\ pass[c].cur = <<>>
        /\ \A s \in Sessions : pass[c].out[s] = <<>>
    BY <1>1, AtRest DEF IInv, Threads
  <1>3. /\ todo \subseteq Ids \X Sessions
        /\ \A i \in Ids, s \in Sessions : <<i, s>> \in todo <=> terms[i] = s
    <2>1. terms \in [Ids -> Sessions \cup {None}]
      BY DEF IInv, TypeOK
    <2> QED BY <2>1, TerminalAssumption
  <1> HIDE DEF todo
  <1>4. gen \in Nat
    BY DEF IInv, TypeOK
  <1>5. /\ pass' \in [Conns -> Pass]
        /\ pass'[c].at = "read" /\ pass'[c].todo = todo /\ pass'[c].cur = <<>>
        /\ pass'[c].found = {} /\ \A s \in Sessions : pass'[c].out[s] = <<>>
        /\ \A d \in Conns : d # c => pass'[d] = pass[d]
    <2>1. pass \in [Conns -> Pass]
      BY <1>2
    <2>2. pass' \in [Conns -> Pass]
      <3> DEFINE r == [pass[c] EXCEPT !.at = "read", !.gen = gen, !.todo = todo]
      <3>1. pass[c] \in Pass
        BY <2>1
      <3>2. r \in Pass
        BY <1>3, <1>4, <3>1 DEF Pass
      <3>3. pass' = [pass EXCEPT ![c] = r]
        BY <1>1, <2>1
      <3> HIDE DEF r
      <3> QED BY <2>1, <3>2, <3>3
    <2>3. /\ pass'[c].at = "read" /\ pass'[c].todo = todo /\ pass'[c].cur = pass[c].cur
          /\ pass'[c].found = pass[c].found /\ pass'[c].out = pass[c].out
          /\ \A d \in Conns : d # c => pass'[d] = pass[d]
      BY <1>1, <2>1 DEF Pass
    <2> QED BY <1>2, <2>2, <2>3
  <1>6. /\ \A d \in Conns, s \in Sessions : (IsCur(d, s)' <=> IsCur(d, s)) /\ InFlight(d, s)' = InFlight(d, s)
        /\ \A d \in Conns : pass'[d].found = pass[d].found
    BY <1>2, <1>5 DEF IsCur, InFlight
  <1>7. TypeOK'
    <2>1. \A d \in Conns : pass'[d] \in Pass
      BY <1>5
    <2> QED BY <1>1, <2>1 DEF IInv, TypeOK, Pass, service, sessions, history
  <1>8. Threads'
    BY <1>1, <1>5 DEF IInv, Threads
  <1>9. Generations' /\ OneId'
    BY <1>1 DEF IInv, Generations, OneId, service
  <1>10. UnusedIsFresh'
    <2>1. \A s \in Sessions : shell[s] = "unused" => \A i \in Ids : <<i, s>> \notin todo
      <3>1. \A i \in Ids : terms[i] # None => terms[i] \in InService
        BY DEF InService
      <3>2. \A s \in Sessions : shell[s] = "unused" => s \notin InService
        BY DEF IInv, UnusedIsFresh
      <3> QED BY <1>3, <3>1, <3>2, TerminalAssumption
    <2>2. InService' = InService
      BY <1>1 DEF InService, service
    <2> QED BY <1>1, <1>5, <1>6, <2>1, <2>2 DEF IInv, UnusedIsFresh, sessions, history, InFlight
  <1>11. ReadOnce'
    <2>1. \A d \in Conns, s \in Sessions : (IsCur(d, s)' <=> IsCur(d, s)) /\ pass'[d].out[s] = pass[d].out[s]
      BY <1>6 DEF InFlight
    <2>2. \A i, j \in Ids, s \in Sessions : <<i, s>> \in todo /\ <<j, s>> \in todo => i = j
      BY <1>3, TerminalAssumption DEF IInv, OneId
    <2>3. \A s \in Sessions : ~IsCur(c, s)
      BY <1>2 DEF IsCur
    <2> SUFFICES ASSUME NEW d \in Conns, NEW s \in Sessions
                 PROVE  /\ IsCur(d, s)' => pass'[d].out[s] = <<>>
                        /\ \A i \in Ids : <<i, s>> \in pass'[d].todo =>
                             /\ \A j \in Ids : <<j, s>> \in pass'[d].todo => j = i
                             /\ \A j \in Ids : <<j, s>> \notin pass'[d].found
                             /\ ~IsCur(d, s)' /\ pass'[d].out[s] = <<>>
      BY DEF ReadOnce
    <2>4. CASE d = c
      BY <1>5, <2>1, <2>2, <2>3, <2>4
    <2>5. CASE d # c
      BY <1>5, <2>1, <2>5 DEF IInv, ReadOnce
    <2> QED BY <2>4, <2>5
  <1>12. Replays' /\ StreamIsWhole'
    <2>1. Replays'
      BY <1>1 DEF IInv, Replays, sessions, history
    <2>2. opener \in [Sessions -> Conns \cup {None}]
      BY DEF IInv, TypeOK
    <2> QED BY <1>1, <1>6, <2>1, <2>2 DEF IInv, StreamIsWhole, sessions, history
  <1>13. FoundIsRead' /\ ToldIsSent'
    <2>1. opener \in [Sessions -> Conns \cup {None}]
      BY DEF IInv, TypeOK
    <2>2. \A s \in Sessions : opener[s] # None /\ Settled(s) => Settled(s)'
      BY <1>1, <1>6, <2>1 DEF Settled, sessions, history
    <2>3. FoundIsRead'
      BY <1>1, <1>6, <2>2, TerminalAssumption DEF IInv, FoundIsRead, sessions, history
    <2>4. ToldIsSent'
      BY <1>1, <1>6, <2>1, <2>2 DEF IInv, ToldIsSent, sessions, history
    <2> QED BY <2>3, <2>4
  <1>14. NonPersistentIsServed'
    <2>1. pass'[c].at = "read"
      BY <1>5
    <2> QED BY <2>1 DEF NonPersistentIsServed, Serving
  <1> QED BY <1>7, <1>8, <1>9, <1>10, <1>11, <1>12, <1>13, <1>14 DEF IInv

(* A pass comes to a session and looks whether its shell has exited.       *)
LEMMA CheckFinishedStep ==
  ASSUME IInv, NEW c \in Conns, NEW i \in Ids, NEW s \in Sessions, CheckFinished(c, i, s)
  PROVE  IInv'
  <1> DEFINE finished == shell[s] = "exited" /\ s \notin reported
  <1>1. /\ pass[c].at = "read" /\ pass[c].cur = <<>> /\ <<i, s>> \in pass[c].todo
        /\ UNCHANGED <<service, shell, written, chan, buffer, active, pending, conn, history, missed>>
    BY DEF CheckFinished
  <1>2. pass \in [Conns -> Pass] /\ pass[c] \in Pass
    BY DEF IInv, Threads
  <1>3. \/ /\ pass' = [pass EXCEPT ![c].todo = @ \ {<<i, s>>}]
           /\ UNCHANGED reported
        \/ /\ pass' = [pass EXCEPT ![c].todo = @ \ {<<i, s>>},
                                    ![c].cur = [id |-> i, session |-> s],
                                    ![c].found = IF finished THEN @ \cup {<<i, s>>} ELSE @]
           /\ reported' = IF finished THEN reported \cup {s} ELSE reported
    BY DEF CheckFinished
  <1>4. /\ pass' \in [Conns -> Pass] /\ reported' \subseteq Sessions
        /\ pass'[c].at = "read" /\ pass'[c].out = pass[c].out
        /\ pass'[c].todo = pass[c].todo \ {<<i, s>>}
        /\ \A d \in Conns : d # c => pass'[d] = pass[d]
        /\ \/ pass'[c].cur = <<>> /\ pass'[c].found = pass[c].found
           \/ /\ pass'[c].cur = [id |-> i, session |-> s]
              /\ pass'[c].found = IF finished THEN pass[c].found \cup {<<i, s>>} ELSE pass[c].found
    <2>1. reported \subseteq Sessions
      BY DEF IInv, TypeOK
    <2>2. CASE /\ pass' = [pass EXCEPT ![c].todo = @ \ {<<i, s>>}]
               /\ UNCHANGED reported
      BY <1>1, <1>2, <2>1, <2>2 DEF Pass
    <2>3. CASE /\ pass' = [pass EXCEPT ![c].todo = @ \ {<<i, s>>},
                                       ![c].cur = [id |-> i, session |-> s],
                                       ![c].found = IF finished THEN @ \cup {<<i, s>>} ELSE @]
               /\ reported' = IF finished THEN reported \cup {s} ELSE reported
      <3> DEFINE f == IF finished THEN pass[c].found \cup {<<i, s>>} ELSE pass[c].found
                 r == [pass[c] EXCEPT !.todo = pass[c].todo \ {<<i, s>>},
                                      !.cur = [id |-> i, session |-> s], !.found = f]
      <3>1. f \subseteq Ids \X Sessions /\ pass[c].todo \ {<<i, s>>} \subseteq Ids \X Sessions
        BY <1>2 DEF Pass
      <3> HIDE DEF f
      <3>2. r \in Pass /\ r.at = "read" /\ r.out = pass[c].out /\ r.todo = pass[c].todo \ {<<i, s>>}
            /\ r.cur = [id |-> i, session |-> s] /\ r.found = f
        BY <1>1, <1>2, <3>1 DEF Pass
      <3>3. pass' = [pass EXCEPT ![c] = r]
        BY <1>2, <2>3 DEF f
      <3> HIDE DEF r
      <3>4. reported' \subseteq Sessions
        BY <2>1, <2>3
      <3> QED BY <1>2, <3>2, <3>3, <3>4 DEF f
    <2> QED BY <1>3, <2>2, <2>3
  <1> HIDE DEF finished
  <1>5. /\ \A d \in Conns, t \in Sessions : InFlight(d, t)' = InFlight(d, t)
        /\ \A d \in Conns, t \in Sessions : IsCur(d, t)' => IsCur(d, t) \/ (d = c /\ t = s)
        /\ \A d \in Conns, t \in Sessions : IsCur(d, t) => IsCur(d, t)'
        /\ \A d \in Conns, j \in Ids, t \in Sessions :
             <<j, t>> \in pass'[d].found /\ <<j, t>> \notin pass[d].found =>
               d = c /\ j = i /\ t = s /\ shell[s] = "exited" /\ IsCur(c, s)'
    <2>1. [id |-> i, session |-> s] # <<>>
      OBVIOUS
    <2>2. \A d \in Conns, t \in Sessions : InFlight(d, t)' = InFlight(d, t)
      BY <1>4 DEF InFlight
    <2>3. pass'[c].cur = [id |-> i, session |-> s] => \A t \in Sessions : IsCur(c, t)' <=> t = s
      BY <2>1 DEF IsCur
    <2>4. pass'[c].cur = <<>> => \A t \in Sessions : ~IsCur(c, t)'
      BY DEF IsCur
    <2>5. \A t \in Sessions : ~IsCur(c, t)
      BY <1>1 DEF IsCur
    <2>6. \A d \in Conns, t \in Sessions : d # c => (IsCur(d, t)' <=> IsCur(d, t))
      BY <1>4 DEF IsCur
    <2> QED BY <1>4, <2>2, <2>3, <2>4, <2>5, <2>6 DEF finished
  <1>6. TypeOK'
    <2>1. \A d \in Conns : pass'[d] \in Pass
      BY <1>4
    <2> QED BY <1>1, <1>4, <2>1 DEF IInv, TypeOK, Pass, service, history
  <1>7. Threads'
    BY <1>1, <1>4 DEF IInv, Threads
  <1>8. Generations' /\ OneId'
    BY <1>1 DEF IInv, Generations, OneId, service
  <1>9. shell[s] # "unused"
    BY <1>1 DEF IInv, UnusedIsFresh
  <1>10. UnusedIsFresh'
    <2>1. InService' = InService
      BY <1>1 DEF InService, service
    <2>2. \A d \in Conns, t \in Sessions : pass'[d].out[t] = pass[d].out[t]
      BY <1>5 DEF InFlight
    <2>3. \A d \in Conns, j \in Ids, t \in Sessions : <<j, t>> \in pass'[d].todo => <<j, t>> \in pass[d].todo
      BY <1>4
    <2> QED BY <1>1, <1>5, <1>9, <2>1, <2>2, <2>3 DEF IInv, UnusedIsFresh, history
  <1>11. ReadOnce'
    <2> SUFFICES ASSUME NEW d \in Conns, NEW t \in Sessions
                 PROVE  /\ IsCur(d, t)' => pass'[d].out[t] = <<>>
                        /\ \A k \in Ids : <<k, t>> \in pass'[d].todo =>
                             /\ \A j \in Ids : <<j, t>> \in pass'[d].todo => j = k
                             /\ \A j \in Ids : <<j, t>> \notin pass'[d].found
                             /\ ~IsCur(d, t)' /\ pass'[d].out[t] = <<>>
      BY DEF ReadOnce
    <2>1. pass'[d].out[t] = pass[d].out[t]
      BY <1>4
    <2>2. \A j \in Ids : <<j, t>> \in pass'[d].todo => <<j, t>> \in pass[d].todo
      BY <1>4
    <2>3. \A j \in Ids : <<j, s>> \notin pass'[c].todo
      BY <1>1, <1>4 DEF IInv, ReadOnce
    <2>4. pass[c].out[s] = <<>>
      BY <1>1 DEF IInv, ReadOnce
    <2> QED BY <1>5, <2>1, <2>2, <2>3, <2>4 DEF IInv, ReadOnce
  <1>12. Replays' /\ StreamIsWhole'
    <2>1. Replays'
      BY <1>1 DEF IInv, Replays, history
    <2>2. opener \in [Sessions -> Conns \cup {None}]
      BY DEF IInv, TypeOK
    <2> QED BY <1>1, <1>5, <2>1, <2>2 DEF IInv, StreamIsWhole, history
  <1>13. FoundIsRead' /\ ToldIsSent'
    <2>1. opener \in [Sessions -> Conns \cup {None}]
      BY DEF IInv, TypeOK
    <2>2. \A t \in Sessions : opener[t] # None /\ Settled(t) => Settled(t)'
      BY <1>1, <1>5, <2>1 DEF Settled, history
    <2>3. FoundIsRead'
      <3> SUFFICES ASSUME NEW d \in Conns, NEW k \in Ids, NEW t \in Sessions, <<k, t>> \in pass'[d].found
                   PROVE  /\ shell[t] \in {"exited", "stopped"}
                          /\ IsCur(d, t)' => shell[t] = "exited"
                          /\ opener[t] = d /\ t \notin taken /\ ~IsCur(d, t)' => Settled(t)'
        BY <1>1 DEF FoundIsRead, history
      <3>1. CASE <<k, t>> \notin pass[d].found
        BY <1>5, <3>1
      <3>2. CASE <<k, t>> \in pass[d].found
        <4>1. ~(d = c /\ t = s)
          BY <1>1, <3>2 DEF IInv, ReadOnce
        <4> QED BY <1>5, <2>2, <3>2, <4>1, TerminalAssumption DEF IInv, FoundIsRead
      <3> QED BY <3>1, <3>2
    <2>4. ToldIsSent'
      BY <1>1, <1>5, <2>1, <2>2 DEF IInv, ToldIsSent, history
    <2> QED BY <2>3, <2>4
  <1>14. NonPersistentIsServed'
    <2>1. \A d \in Conns : pass'[d].at = pass[d].at
      BY <1>1, <1>4
    <2> QED BY <1>1, <2>1 DEF IInv, NonPersistentIsServed, Serving, service
  <1> QED BY <1>6, <1>7, <1>8, <1>10, <1>11, <1>12, <1>13, <1>14 DEF IInv

(* A pass takes the output of a session: the history first, if it was      *)
(* opened again.                                                           *)
LEMMA DrainStep ==
  ASSUME IInv, NEW c \in Conns, Drain(c)
  PROVE  /\ IInv'
         /\ \A t \in Sessions : opener[t] # None /\ active[t] /\ t \notin taken' =>
              past[t] \o InFlight(opener[t], t)' \o Replay(t)' = buffer'[t]
         /\ \A t \in Sessions : ~active[t] => \A d \in Conns : InFlight(d, t)' = InFlight(d, t)
         /\ \A t \in Sessions : \/ buffer'[t] = buffer[t] \o chan[t] /\ chan'[t] = <<>>
                                \/ buffer'[t] = buffer[t] /\ chan'[t] = chan[t]
         /\ \A t \in Sessions : t \in taken => t \in taken'
         /\ \A t \in Sessions : shell'[t] = shell[t] \/ shell'[t] = "stopped"
         /\ UNCHANGED <<past, told, opener>>
  <1>0. PICK s \in Sessions : s = pass[c].cur.session
    BY DEF IInv, Threads, Pass, Drain
  <1> DEFINE replay == IF pending[s] = None THEN <<>> ELSE pending[s]
             sends == replay \o chan[s]
             dropped == s \notin InService /\ \A d \in Conns \ {c} : ~Holds(d, s)
  <1>1. /\ pass[c].cur # <<>>
        /\ buffer' = [buffer EXCEPT ![s] = @ \o chan[s]]
        /\ chan' = [chan EXCEPT ![s] = <<>>]
        /\ shell' = [shell EXCEPT ![s] = IF dropped THEN "stopped" ELSE @]
        /\ active' = [active EXCEPT ![s] = @ /\ ~dropped]
        /\ UNCHANGED <<service, written, reported, conn, past, told, opener, missed>>
    BY <1>0 DEF Drain, Take
  <1>2. /\ active[s] => /\ pass' = [pass EXCEPT ![c].cur = <<>>, ![c].out[s] = sends]
                        /\ pending' = [pending EXCEPT ![s] = None]
                        /\ taken' = IF opener[s] # c /\ sends # <<>> THEN taken \cup {s} ELSE taken
        /\ ~active[s] => pass' = [pass EXCEPT ![c].cur = <<>>] /\ UNCHANGED <<pending, taken>>
    <2> DEFINE u == pass[c].cur.session
               v == (IF pending[u] = None THEN <<>> ELSE pending[u]) \o chan[u]
    <2>1. /\ active[u] => /\ pass' = [pass EXCEPT ![c].cur = <<>>, ![c].out[u] = v]
                          /\ pending' = [pending EXCEPT ![u] = None]
                          /\ taken' = IF opener[u] # c /\ v # <<>> THEN taken \cup {u} ELSE taken
          /\ ~active[u] => pass' = [pass EXCEPT ![c].cur = <<>>] /\ UNCHANGED <<pending, taken>>
      BY Zenon DEF Drain, Take
    <2>2. u = s /\ v = sends
      BY <1>0
    <2> HIDE DEF u, v, sends, replay, dropped
    <2> QED BY <2>1, <2>2
  <1>3. /\ pass \in [Conns -> Pass] /\ pass[c] \in Pass /\ s \in Sessions /\ pass[c].out \in [Sessions -> Chunks]
        /\ pass[c].at = "read"
    <2>1. pass \in [Conns -> Pass] /\ pass[c] \in Pass
      BY DEF IInv, Threads
    <2>2. pass[c].out \in [Sessions -> Chunks]
      BY <2>1 DEF Pass
    <2>3. pass[c].at # "read" => pass[c].cur = <<>>
      BY <2>1, IdleLemma DEF IInv, Threads, Pass
    <2> QED BY <1>1, <2>1, <2>2, <2>3
  <1>4. IsCur(c, s)
    BY <1>0, <1>1 DEF IsCur
  <1>5. /\ chan \in [Sessions -> Chunks] /\ buffer \in [Sessions -> Chunks] /\ past \in [Sessions -> Chunks]
        /\ replay \in Chunks /\ sends \in Chunks /\ opener \in [Sessions -> Conns \cup {None}]
        /\ taken \subseteq Sessions
    BY <1>3, ChunksLemma DEF IInv, TypeOK
  <1>a. dropped \in BOOLEAN /\ (dropped => \A d \in Conns : d # c => ~IsCur(d, s))
    BY DEF Holds, IsCur
  <1> HIDE DEF sends, replay, dropped
  <1>6. /\ pass' \in [Conns -> Pass]
        /\ pass'[c].at = pass[c].at /\ pass'[c].cur = <<>> /\ pass'[c].todo = pass[c].todo
        /\ pass'[c].found = pass[c].found
        /\ pass'[c].out = IF active[s] THEN [pass[c].out EXCEPT ![s] = sends] ELSE pass[c].out
        /\ \A d \in Conns : d # c => pass'[d] = pass[d]
    <2>1. CASE active[s]
      <3> DEFINE o == [pass[c].out EXCEPT ![s] = sends]
                 r == [pass[c] EXCEPT !.cur = <<>>, !.out = o]
      <3>1. o \in [Sessions -> Chunks]
        BY <1>3, <1>5
      <3>2. pass' = [pass EXCEPT ![c] = r]
        <4>1. pass' = [pass EXCEPT ![c].cur = <<>>, ![c].out[s] = sends]
          BY <1>2, <2>1
        <4>2. [pass[c] EXCEPT !.cur = <<>>].out = pass[c].out
          BY <1>3 DEF Pass
        <4> QED BY <1>3, <4>1, <4>2
      <3> HIDE DEF o
      <3>3. r \in Pass /\ r.at = pass[c].at /\ r.cur = <<>> /\ r.todo = pass[c].todo /\ r.found = pass[c].found /\ r.out = o
        BY <1>3, <3>1 DEF Pass
      <3> HIDE DEF r
      <3> QED BY <1>3, <2>1, <3>2, <3>3 DEF o
    <2>2. CASE ~active[s]
      BY <1>2, <1>3, <2>2 DEF Pass
    <2> QED BY <2>1, <2>2
  <1>7. /\ \A t \in Sessions : t # s => buffer'[t] = buffer[t] /\ chan'[t] = chan[t] /\ pending'[t] = pending[t]
        /\ buffer'[s] = buffer[s] \o chan[s] /\ chan'[s] = <<>>
        /\ pending'[s] = IF active[s] THEN None ELSE pending[s]
        /\ \A d \in Conns, t \in Sessions : t # s \/ d # c => InFlight(d, t)' = InFlight(d, t)
        /\ InFlight(c, s)' = IF active[s] THEN sends ELSE InFlight(c, s)
        /\ \A d \in Conns, t \in Sessions : IsCur(d, t)' <=> IsCur(d, t) /\ d # c
        /\ \A t \in Sessions : t # s => (t \in taken' <=> t \in taken)
        /\ s \in taken' <=> s \in taken \/ (active[s] /\ opener[s] # c /\ sends # <<>>)
        /\ \A t \in Sessions : shell'[t] = IF t = s /\ dropped THEN "stopped" ELSE shell[t]
        /\ \A t \in Sessions : active'[t] <=> active[t] /\ ~(t = s /\ dropped)
    <2>1. pending \in [Sessions -> {None} \cup Chunks]
      BY DEF IInv, TypeOK
    <2>2. \A t \in Sessions : t # s => buffer'[t] = buffer[t] /\ chan'[t] = chan[t]
      BY <1>1, <1>5
    <2>3. buffer'[s] = buffer[s] \o chan[s] /\ chan'[s] = <<>>
      BY <1>1, <1>3, <1>5
    <2>4. /\ \A t \in Sessions : t # s => pending'[t] = pending[t]
          /\ pending'[s] = IF active[s] THEN None ELSE pending[s]
      BY <1>2, <1>3, <2>1
    <2>5. /\ \A d \in Conns, t \in Sessions : t # s \/ d # c => InFlight(d, t)' = InFlight(d, t)
          /\ InFlight(c, s)' = IF active[s] THEN sends ELSE InFlight(c, s)
      <3>1. /\ \A t \in Sessions : t # s => pass'[c].out[t] = pass[c].out[t]
            /\ pass'[c].out[s] = IF active[s] THEN sends ELSE pass[c].out[s]
        BY <1>3, <1>5, <1>6
      <3>2. \A d \in Conns : d # c => pass'[d].out = pass[d].out
        BY <1>6
      <3>3. \A d \in Conns, t \in Sessions : t # s \/ d # c => pass'[d].out[t] = pass[d].out[t]
        BY <3>1, <3>2
      <3> QED BY <3>1, <3>3 DEF InFlight
    <2>6. \A d \in Conns, t \in Sessions : IsCur(d, t)' <=> IsCur(d, t) /\ d # c
      BY <1>6 DEF IsCur
    <2>7. /\ \A t \in Sessions : t # s => (t \in taken' <=> t \in taken)
          /\ s \in taken' <=> s \in taken \/ (active[s] /\ opener[s] # c /\ sends # <<>>)
      BY <1>2, <1>5
    <2>8. /\ \A t \in Sessions : shell'[t] = IF t = s /\ dropped THEN "stopped" ELSE shell[t]
          /\ \A t \in Sessions : active'[t] <=> active[t] /\ ~(t = s /\ dropped)
      BY <1>1, <1>3, <1>a DEF IInv, TypeOK
    <2> QED BY <2>2, <2>3, <2>4, <2>5, <2>6, <2>7, <2>8
  <1>8. shell[s] # "unused"
    BY <1>3, <1>4 DEF IInv, UnusedIsFresh
  <1>9. TypeOK'
    <2>1. \A d \in Conns : pass'[d] \in Pass
      BY <1>6
    <2>2. buffer[s] \o chan[s] \in Chunks /\ <<>> \in Chunks
      BY <1>3, <1>5, ChunksLemma
    <2>3. buffer' \in [Sessions -> Chunks] /\ chan' \in [Sessions -> Chunks]
      BY <1>1, <1>5, <2>2
    <2>4. \A t \in Sessions : Len(chan'[t]) <= ChanSize
      <3>1. Len(<<>>) = 0 /\ 0 <= ChanSize
        BY TerminalAssumption
      <3> QED BY <1>7, <3>1 DEF IInv, TypeOK
    <2>5. pending' \in [Sessions -> {None} \cup Chunks] /\ taken' \subseteq Sessions
      BY <1>2, <1>3, <1>5 DEF IInv, TypeOK
    <2>6. shell' \in [Sessions -> {"unused", "running", "exited", "stopped"}] /\ active' \in [Sessions -> BOOLEAN]
      BY <1>1, <1>3, <1>a DEF IInv, TypeOK
    <2> QED BY <1>1, <2>1, <2>3, <2>4, <2>5, <2>6 DEF IInv, TypeOK, Pass, service
  <1>10. Threads'
    BY <1>1, <1>3, <1>6 DEF IInv, Threads
  <1>11. Generations' /\ OneId'
    BY <1>1 DEF IInv, Generations, OneId, service
  <1>12. UnusedIsFresh'
    <2>1. InService' = InService
      BY <1>1 DEF InService, service
    <2>2. \A d \in Conns, j \in Ids, t \in Sessions :
            <<j, t>> \in pass'[d].todo \cup pass'[d].found => <<j, t>> \in pass[d].todo \cup pass[d].found
      BY <1>6
    <2> SUFFICES ASSUME NEW t \in Sessions, shell'[t] = "unused"
                 PROVE  /\ chan'[t] = <<>> /\ buffer'[t] = <<>> /\ past'[t] = <<>> /\ pending'[t] = None
                        /\ t \notin (InService \cup told \cup taken)' /\ opener'[t] = None
                        /\ \A d \in Conns : /\ pass'[d].out[t] = <<>> /\ ~IsCur(d, t)'
                                            /\ \A i \in Ids : <<i, t>> \notin pass'[d].todo \cup pass'[d].found
      BY <1>1 DEF UnusedIsFresh
    <2>3. t # s /\ shell[t] = "unused"
      BY <1>7, <1>8
    <2>4. \A d \in Conns : pass'[d].out[t] = pass[d].out[t]
      BY <1>7, <2>3 DEF InFlight
    <2> QED BY <1>1, <1>7, <2>1, <2>2, <2>3, <2>4 DEF IInv, UnusedIsFresh
  <1>13. ReadOnce'
    <2> SUFFICES ASSUME NEW d \in Conns, NEW t \in Sessions
                 PROVE  /\ IsCur(d, t)' => pass'[d].out[t] = <<>>
                        /\ \A i \in Ids : <<i, t>> \in pass'[d].todo =>
                             /\ \A j \in Ids : <<j, t>> \in pass'[d].todo => j = i
                             /\ \A j \in Ids : <<j, t>> \notin pass'[d].found
                             /\ ~IsCur(d, t)' /\ pass'[d].out[t] = <<>>
      BY DEF ReadOnce
    <2>1. d # c \/ t # s => pass'[d].out[t] = pass[d].out[t]
      BY <1>7 DEF InFlight
    <2>2. \A j \in Ids : <<j, s>> \notin pass[c].todo
      BY <1>3, <1>4 DEF IInv, ReadOnce
    <2>3. pass'[d].todo = pass[d].todo /\ pass'[d].found = pass[d].found
      BY <1>6
    <2> QED BY <1>7, <2>1, <2>2, <2>3 DEF IInv, ReadOnce
  <1>14. Replays'
    <2>1. pending[s] # None => active[s]
      BY <1>3 DEF IInv, Replays
    <2> QED BY <1>1, <1>7, <2>1 DEF IInv, Replays
  <1>15. pending[s] # None => active[s]
    BY <1>3 DEF IInv, Replays
  <1>16. sends = <<>> => chan[s] = <<>> /\ replay = <<>>
    BY <1>3, <1>5, ChunksLemma DEF sends
  <1>17. InFlight(c, s) = <<>>
    BY <1>3, <1>4 DEF IInv, ReadOnce, InFlight
  (* What was active, even if it is dropped now.                           *)
  <1>b. ASSUME NEW t \in Sessions, opener[t] # None, active[t], t \notin taken'
        PROVE  past[t] \o InFlight(opener[t], t)' \o Replay(t)' = buffer'[t]
    <2>1. opener[t] \in Conns
      BY <1>5, <1>b
    <2>2. past[t] \o InFlight(opener[t], t) \o Replay(t) = buffer[t]
      BY <1>7, <1>b DEF IInv, StreamIsWhole, Replay
    <2>3. CASE t # s
      <3>1. Replay(t)' = Replay(t)
        BY <1>7, <2>3 DEF Replay
      <3>2. InFlight(opener[t], t)' = InFlight(opener[t], t)'
        OBVIOUS
      <3>3. InFlight(opener[t], t)' = pass'[opener[t]].out[t]
        BY <1>1 DEF InFlight
      <3>4. InFlight(opener[t], t) = pass[opener[t]].out[t] /\ pass'[opener[t]].out[t] = pass[opener[t]].out[t]
        BY <1>7, <2>1, <2>3 DEF InFlight
      <3> QED BY <1>7, <2>2, <2>3, <3>1, <3>3, <3>4
    <2>4. CASE t = s /\ opener[t] = c
      <3>1. past[s] \o replay = buffer[s]
        <4>1. past[s] \o <<>> = past[s]
          BY <1>3, <1>5, ChunksLemma
        <4> QED BY <1>17, <2>2, <2>4, <4>1 DEF Replay, replay
      <3>2. (past[s] \o replay) \o chan[s] = past[s] \o (replay \o chan[s])
        <4>1. past[s] \in Chunks /\ chan[s] \in Chunks
          BY <1>3, <1>5
        <4>2. \E a, b, d \in Chunks : a = past[s] /\ b = replay /\ d = chan[s]
          BY <1>5, <4>1
        <4>3. PICK a \in Chunks, b \in Chunks, d \in Chunks : a = past[s] /\ b = replay /\ d = chan[s]
          BY <4>2
        <4>4. (a \o b) \o d = a \o (b \o d)
          BY ChunksAssociate
        <4> QED BY <4>3, <4>4
      <3>3. past[s] \o sends = buffer[s] \o chan[s]
        BY <3>1, <3>2 DEF sends
      <3>4. Replay(t)' = <<>> /\ InFlight(opener[t], t)' = sends
        BY <1>1, <1>7, <1>b, <2>4 DEF InFlight, Replay
      <3>5. (past[s] \o sends) \o <<>> = past[s] \o sends
        BY <1>3, <1>5, ChunksLemma
      <3> QED BY <1>7, <2>4, <3>3, <3>4, <3>5
    <2>5. CASE t = s /\ opener[t] # c
      <3>1. chan[s] = <<>> /\ replay = <<>>
        BY <1>7, <1>16, <1>b, <2>5
      <3>2. buffer'[s] = buffer[s]
        BY <1>3, <1>5, <1>7, <3>1, ChunksLemma
      <3>3. Replay(t) = <<>> /\ Replay(t)' = <<>>
        BY <1>7, <1>b, <2>5, <3>1 DEF Replay, replay
      <3>4. InFlight(opener[t], t)' = InFlight(opener[t], t)
        <4>1. opener'[t] = opener[t]
          BY <1>1
        <4>2. pass'[opener[t]].out[t] = pass[opener[t]].out[t]
          BY <1>7, <2>1, <2>5 DEF InFlight
        <4> QED BY <4>1, <4>2 DEF InFlight
      <3> QED BY <2>2, <2>5, <3>2, <3>3, <3>4
    <2> QED BY <2>3, <2>4, <2>5
  <1>18. StreamIsWhole'
    <2> SUFFICES ASSUME NEW t \in Sessions, opener[t] # None, active'[t], t \notin taken'
                 PROVE  past[t] \o InFlight(opener[t], t)' \o Replay(t)' = buffer'[t]
      BY <1>1 DEF StreamIsWhole, Replay
    <2> QED BY <1>7, <1>b
  (* Of a session that is settled there is nothing to drain.               *)
  <1>19. ASSUME NEW t \in Sessions, opener[t] # None, Settled(t)
         PROVE  Settled(t)' /\ InFlight(opener[t], t)' = InFlight(opener[t], t)
    <2>1. opener[t] \in Conns
      BY <1>5, <1>19
    <2>2. CASE t # s
      BY <1>1, <1>7, <1>19, <2>1, <2>2 DEF Settled
    <2>3. CASE t = s
      <3>1. chan[s] = <<>> /\ pending[s] = None
        BY <1>19, <2>3 DEF Settled
      <3>2. sends = <<>> /\ buffer'[s] = buffer[s]
        BY <1>3, <1>5, <1>7, <3>1, ChunksLemma DEF sends, replay
      <3>3. InFlight(opener[t], t)' = InFlight(opener[t], t)
        BY <1>1, <1>7, <1>17, <2>1, <2>3, <3>2 DEF InFlight
      <3> QED BY <1>1, <1>7, <1>19, <2>3, <3>1, <3>2, <3>3 DEF Settled
    <2> QED BY <2>2, <2>3
  <1>20. FoundIsRead'
    <2> SUFFICES ASSUME NEW d \in Conns, NEW i \in Ids, NEW t \in Sessions, <<i, t>> \in pass[d].found
                 PROVE  /\ shell'[t] \in {"exited", "stopped"}
                        /\ IsCur(d, t)' => shell'[t] = "exited"
                        /\ opener[t] = d /\ t \notin taken' /\ ~IsCur(d, t)' => Settled(t)'
      BY <1>1, <1>6 DEF FoundIsRead
    <2>1. shell[t] \in {"exited", "stopped"} /\ (IsCur(d, t) => shell[t] = "exited")
      BY DEF IInv, FoundIsRead
    <2>2. opener[t] = d /\ t \notin taken /\ ~IsCur(d, t) => Settled(t)
      BY DEF IInv, FoundIsRead
    <2>3. ASSUME opener[t] = d, t \notin taken', ~IsCur(d, t)' PROVE Settled(t)'
      <3>1. CASE ~IsCur(d, t)
        BY <1>7, <1>19, <2>2, <2>3, <3>1, TerminalAssumption
      <3>2. CASE IsCur(d, t)
        <4>1. d = c /\ t = s
          <5>1. IsCur(d, t)' <=> IsCur(d, t) /\ d # c
            BY <1>7
          <5>2. d = c
            BY <2>3, <3>2, <5>1
          <5>3. t = s
            BY <1>0, <3>2, <5>2 DEF IsCur
          <5> QED BY <5>2, <5>3
        <4>2. active[s]
          BY <1>3, <2>1, <2>3, <3>2, <4>1, TerminalAssumption DEF IInv, Replays
        <4>3. pending'[s] = None /\ chan'[s] = <<>>
          BY <1>7, <4>2
        <4>4. past[s] \o InFlight(opener[s], s)' \o Replay(s)' = buffer'[s]
          BY <1>3, <1>b, <2>3, <4>1, <4>2, TerminalAssumption
        <4>5. Replay(s)' = <<>> /\ InFlight(opener[s], s)' = pass'[c].out[s] /\ pass'[c].out[s] \in Chunks
          BY <1>1, <1>3, <1>6, <2>3, <4>1, <4>3 DEF Replay, InFlight, Pass
        <4>6. past[s] \o pass'[c].out[s] = buffer'[s]
          <5>1. (past[s] \o pass'[c].out[s]) \o <<>> = past[s] \o pass'[c].out[s]
            BY <1>3, <1>5, <4>5, ChunksLemma
          <5> QED BY <4>4, <4>5, <5>1
        <4> QED BY <1>1, <2>3, <4>1, <4>3, <4>5, <4>6 DEF Settled, InFlight
      <3> QED BY <3>1, <3>2
    <2> QED BY <1>7, <1>a, <2>1, <2>3
  <1>21. ToldIsSent'
    BY <1>1, <1>7, <1>19 DEF IInv, ToldIsSent
  <1>22. NonPersistentIsServed'
    <2>1. \A d \in Conns : pass'[d].at = pass[d].at
      BY <1>6
    <2> QED BY <1>1, <2>1 DEF IInv, NonPersistentIsServed, Serving, service
  <1>23. IInv'
    BY <1>9, <1>10, <1>11, <1>12, <1>13, <1>14, <1>18, <1>20, <1>21, <1>22 DEF IInv
  <1>24. \A t \in Sessions : ~active[t] => \A d \in Conns : InFlight(d, t)' = InFlight(d, t)
    BY <1>7
  <1>25. /\ \A t \in Sessions : \/ buffer'[t] = buffer[t] \o chan[t] /\ chan'[t] = <<>>
                                \/ buffer'[t] = buffer[t] /\ chan'[t] = chan[t]
         /\ \A t \in Sessions : t \in taken => t \in taken'
         /\ \A t \in Sessions : shell'[t] = shell[t] \/ shell'[t] = "stopped"
    BY <1>7
  <1> QED BY <1>1, <1>b, <1>23, <1>24, <1>25
-----------------------------------------------------------------------------
(* The responses of a pass: what was on its way has arrived, and who is    *)
(* told that a session has closed is the one who opened it.                *)
LEMMA ResponsesLemma ==
  ASSUME IInv, NEW c \in Conns, Processed(c), SendResponses(c), conn' = conn
  PROVE  /\ past' \in [Sessions -> Chunks] /\ told' \subseteq Sessions
         /\ \A s \in Sessions : opener[s] # c => past'[s] = past[s]
         /\ \A s \in Sessions : opener[s] = c => past'[s] = past[s] \o pass[c].out[s]
         /\ \A s \in told' : s \in told \/ (opener[s] = c /\ \E i \in Ids : <<i, s>> \in pass[c].found)
         /\ told \subseteq told'
         /\ \A s \in Sessions : opener[s] # None =>
              past'[s] \o pass'[opener[s]].out[s] = past[s] \o pass[opener[s]].out[s]
  <1>1. /\ past' = [s \in Sessions |-> IF opener[s] = c THEN past[s] \o InFlight(c, s) ELSE past[s]]
        /\ told' = told \cup {s \in {f[2] : f \in pass[c].found} : opener[s] = c}
        /\ At(c, "head")
    BY DEF SendResponses
  <1>2. /\ pass[c].at = "read" /\ pass[c].cur = <<>> /\ pass[c].found \subseteq Ids \X Sessions
        /\ \A d \in Conns : pass[d].out \in [Sessions -> Chunks]
    BY DEF Processed, IInv, Threads, Pass
  <1>3. /\ conn \in [Conns -> {"out", "open", "gone"}] /\ conn[c] # "out"
        /\ opener \in [Sessions -> Conns \cup {None}] /\ past \in [Sessions -> Chunks]
        /\ told \subseteq Sessions
    BY <1>2 DEF IInv, TypeOK, Threads
  <1>4. /\ \A s \in Sessions : pass'[c].out[s] = <<>>
        /\ \A d \in Conns : d # c => pass'[d] = pass[d]
    BY <1>1, <1>3, IdleStep
  <1>5. /\ past' \in [Sessions -> Chunks] /\ told' \subseteq Sessions
        /\ \A s \in Sessions : opener[s] # c => past'[s] = past[s]
        /\ \A s \in Sessions : opener[s] = c => past'[s] = past[s] \o pass[c].out[s]
        /\ \A s \in told' : s \in told \/ (opener[s] = c /\ \E i \in Ids : <<i, s>> \in pass[c].found)
    <2>1. \A s \in Sessions : past[s] \o InFlight(c, s) \in Chunks
      BY <1>2, <1>3, ChunksLemma DEF InFlight
    <2>2. past' \in [Sessions -> Chunks]
      BY <1>1, <1>3, <2>1
    <2>3. \A f \in pass[c].found : f = <<f[1], f[2]>> /\ f[1] \in Ids /\ f[2] \in Sessions
      BY <1>2
    <2>4. /\ told' \subseteq Sessions
          /\ \A s \in told' : s \in told \/ (opener[s] = c /\ \E i \in Ids : <<i, s>> \in pass[c].found)
      <3>1. ASSUME NEW s \in told', s \notin told
            PROVE  s \in Sessions /\ opener[s] = c /\ \E i \in Ids : <<i, s>> \in pass[c].found
        <4>1. PICK f \in pass[c].found : s = f[2] /\ opener[s] = c
          BY <1>1, <3>1
        <4>2. f = <<f[1], s>> /\ f[1] \in Ids /\ s \in Sessions
          BY <2>3, <4>1
        <4> QED BY <4>1, <4>2
      <3> QED BY <1>3, <3>1
    <2>5. /\ \A s \in Sessions : opener[s] # c => past'[s] = past[s]
          /\ \A s \in Sessions : opener[s] = c => past'[s] = past[s] \o pass[c].out[s]
      BY <1>1 DEF InFlight
    <2> QED BY <2>2, <2>4, <2>5
  (* What was on its way has arrived.                                      *)
  <1>6. \A s \in Sessions : opener[s] # None =>
          past'[s] \o pass'[opener[s]].out[s] = past[s] \o pass[opener[s]].out[s]
    <2> SUFFICES ASSUME NEW s \in Sessions, opener[s] # None
                 PROVE  past'[s] \o pass'[opener[s]].out[s] = past[s] \o pass[opener[s]].out[s]
      OBVIOUS
    <2>1. CASE opener[s] = c
      <3>1. past[s] \o pass[c].out[s] \in Chunks
        BY <1>2, <1>3, ChunksLemma
      <3>2. (past[s] \o pass[c].out[s]) \o <<>> = past[s] \o pass[c].out[s]
        BY <3>1, ChunksLemma
      <3> QED BY <1>4, <1>5, <2>1, <3>2
    <2>2. CASE opener[s] # c
      BY <1>3, <1>4, <1>5, <2>2
    <2> QED BY <2>1, <2>2
  <1> QED BY <1>1, <1>5, <1>6

(* A pass ends: its responses are sent, and what has closed may be taken   *)
(* out of the service.                                                     *)
LEMMA ResponsesStep ==
  ASSUME IInv, NEW c \in Conns, Processed(c), SendResponses(c),
         NEW ss \in SUBSET InService, Stop(ss),
         NEW ids \in SUBSET Ids, terms' = [i \in Ids |-> IF i \in ids THEN None ELSE terms[i]],
         UNCHANGED <<exists, gen, persistent, needsSync, conn, opener, taken, missed>>
  PROVE  IInv'
  <1>1. At(c, "head")
    BY DEF SendResponses
  <1>2. /\ pass[c].at = "read" /\ pass[c].cur = <<>> /\ pass[c].found \subseteq Ids \X Sessions
        /\ \A d \in Conns : pass[d].out \in [Sessions -> Chunks]
        /\ \A d \in Conns : pass[d].found \subseteq Ids \X Sessions
    BY DEF Processed, IInv, Threads, Pass
  <1>3. ss \subseteq Sessions
    BY DEF IInv, TypeOK, InService
  <1>4. TypeOK
    BY DEF IInv
  <1>5. /\ conn \in [Conns -> {"out", "open", "gone"}] /\ conn[c] # "out"
        /\ opener \in [Sessions -> Conns \cup {None}] /\ past \in [Sessions -> Chunks]
        /\ terms \in [Ids -> Sessions \cup {None}] /\ told \subseteq Sessions
    BY <1>2 DEF IInv, TypeOK, Threads
  <1>6. /\ Threads' /\ ReadOnce' /\ \A d \in Conns : pass'[d] \in Pass
        /\ pass'[c].at = "head" /\ pass'[c].found = {} /\ pass'[c].todo = {} /\ pass'[c].cur = <<>>
        /\ \A s \in Sessions : pass'[c].out[s] = <<>>
        /\ \A d \in Conns : d # c => pass'[d] = pass[d]
        /\ \A d \in Conns, s \in Sessions : IsCur(d, s)' <=> d # c /\ IsCur(d, s)
    BY <1>1, <1>5, IdleStep
  <1>7. /\ past' \in [Sessions -> Chunks] /\ told' \subseteq Sessions
        /\ \A s \in Sessions : opener[s] # c => past'[s] = past[s]
        /\ \A s \in Sessions : opener[s] = c => past'[s] = past[s] \o pass[c].out[s]
        /\ \A s \in told' : s \in told \/ (opener[s] = c /\ \E i \in Ids : <<i, s>> \in pass[c].found)
    BY ResponsesLemma
  (* What was on its way has arrived.                                      *)
  <1>8. \A s \in Sessions : opener[s] # None =>
          past'[s] \o pass'[opener[s]].out[s] = past[s] \o pass[opener[s]].out[s]
    BY ResponsesLemma
  <1>9. /\ \A s \in Sessions :
             /\ shell'[s] = IF s \in ss THEN "stopped" ELSE shell[s]
             /\ chan'[s] = IF s \in ss THEN <<>> ELSE chan[s]
             /\ active'[s] <=> active[s] /\ s \notin ss
             /\ pending'[s] = IF s \in ss THEN None ELSE pending[s]
             /\ s \in ss => \A d \in Conns : ~IsCur(d, s)
        /\ shell' \in [Sessions -> {"unused", "running", "exited", "stopped"}]
        /\ chan' \in [Sessions -> Chunks] /\ \A s \in Sessions : Len(chan'[s]) <= ChanSize
        /\ active' \in [Sessions -> BOOLEAN]
        /\ pending' \in [Sessions -> {None} \cup Chunks]
        /\ UNCHANGED <<written, buffer, reported>>
    BY <1>4, StopLemma
  <1>10. TypeOK'
    <2>1. terms' \in [Ids -> Sessions \cup {None}]
      BY <1>5
    <2> QED BY <1>6, <1>7, <1>9, <2>1 DEF IInv, TypeOK, Pass
  <1>11. Generations' /\ OneId' /\ NonPersistentIsServed'
    BY <1>5, <1>6 DEF IInv, Generations, OneId, NonPersistentIsServed, Serving
  <1>12. \A s \in Sessions : opener[s] # None /\ Settled(s) => Settled(s)'
    BY <1>8, <1>9 DEF Settled, InFlight
  <1>13. UnusedIsFresh'
    <2> SUFFICES ASSUME NEW s \in Sessions, shell'[s] = "unused"
                 PROVE  /\ chan'[s] = <<>> /\ buffer'[s] = <<>> /\ past'[s] = <<>> /\ pending'[s] = None
                        /\ s \notin (InService \cup told \cup taken)' /\ opener'[s] = None
                        /\ \A d \in Conns : /\ pass'[d].out[s] = <<>> /\ ~IsCur(d, s)'
                                            /\ \A i \in Ids : <<i, s>> \notin pass'[d].todo \cup pass'[d].found
      BY DEF UnusedIsFresh
    <2>1. shell[s] = "unused"
      BY <1>9
    <2>2. /\ chan[s] = <<>> /\ buffer[s] = <<>> /\ past[s] = <<>> /\ pending[s] = None
          /\ s \notin InService \cup told \cup taken /\ opener[s] = None
          /\ \A d \in Conns : /\ pass[d].out[s] = <<>> /\ ~IsCur(d, s)
                              /\ \A i \in Ids : <<i, s>> \notin pass[d].todo \cup pass[d].found
      BY <2>1 DEF IInv, UnusedIsFresh
    <2>3. InService' \subseteq InService
      BY <1>5 DEF InService
    <2>4. \A d \in Conns : /\ pass'[d].out[s] = <<>>
                           /\ \A i \in Ids : <<i, s>> \notin pass'[d].todo \cup pass'[d].found
      BY <1>6, <2>2
    <2> QED BY <1>6, <1>7, <1>9, <2>2, <2>3, <2>4, TerminalAssumption
  <1>14. Replays'
    BY <1>9 DEF IInv, Replays
  <1>15. StreamIsWhole'
    <2> SUFFICES ASSUME NEW s \in Sessions, opener[s] # None, active'[s], s \notin taken
                 PROVE  past'[s] \o pass'[opener[s]].out[s] \o Replay(s)' = buffer[s]
      BY <1>9 DEF StreamIsWhole, InFlight, Replay
    <2>1. active[s] /\ Replay(s)' = Replay(s)
      BY <1>9 DEF Replay
    <2>2. past[s] \o pass[opener[s]].out[s] \o Replay(s) = buffer[s]
      BY <2>1 DEF IInv, StreamIsWhole, InFlight, Replay
    <2> QED BY <1>8, <2>1, <2>2
  <1>16. FoundIsRead'
    <2> SUFFICES ASSUME NEW d \in Conns, NEW i \in Ids, NEW s \in Sessions, <<i, s>> \in pass'[d].found
                 PROVE  /\ shell'[s] \in {"exited", "stopped"}
                        /\ IsCur(d, s)' => shell'[s] = "exited"
                        /\ opener[s] = d /\ s \notin taken /\ ~IsCur(d, s)' => Settled(s)'
      BY DEF FoundIsRead
    <2>1. d # c /\ <<i, s>> \in pass[d].found
      BY <1>6
    <2>2. /\ shell[s] \in {"exited", "stopped"}
          /\ IsCur(d, s) => shell[s] = "exited"
          /\ opener[s] = d /\ s \notin taken /\ ~IsCur(d, s) => Settled(s)
      BY <2>1 DEF IInv, FoundIsRead
    <2> QED BY <1>6, <1>9, <1>12, <2>1, <2>2, TerminalAssumption
  <1>17. ToldIsSent'
    <2> SUFFICES ASSUME NEW s \in Sessions, s \in told'
                 PROVE  /\ shell'[s] \in {"exited", "stopped"}
                        /\ opener[s] # None /\ s \notin taken => Settled(s)' /\ pass'[opener[s]].out[s] = <<>>
      BY DEF ToldIsSent, InFlight
    <2>1. CASE s \in told
      <3>1. /\ shell[s] \in {"exited", "stopped"}
            /\ opener[s] # None /\ s \notin taken => Settled(s) /\ pass[opener[s]].out[s] = <<>>
        BY <2>1 DEF IInv, ToldIsSent, InFlight
      <3>2. pass'[opener[s]].out[s] = pass[opener[s]].out[s] \/ pass'[opener[s]].out[s] = <<>> \/ opener[s] = None
        BY <1>5, <1>6
      <3> QED BY <1>9, <1>12, <3>1, <3>2
    <2>2. CASE opener[s] = c /\ \E i \in Ids : <<i, s>> \in pass[c].found
      <3>1. ~IsCur(c, s)
        BY <1>2 DEF IsCur
      <3>2. shell[s] \in {"exited", "stopped"} /\ (s \notin taken => Settled(s))
        BY <2>2, <3>1 DEF IInv, FoundIsRead
      <3> QED BY <1>6, <1>9, <1>12, <2>2, <3>2
    <2> QED BY <1>7, <2>1, <2>2
  <1> QED BY <1>6, <1>10, <1>11, <1>13, <1>14, <1>15, <1>16, <1>17 DEF IInv

(* A pass ends: what it took is sent, what it found to have closed is      *)
(* told.                                                                   *)
LEMMA RespondStep ==
  ASSUME IInv, NEW c \in Conns, Respond(c)
  PROVE  IInv'
  <1>1. /\ Processed(c) /\ SendResponses(c)
        /\ UNCHANGED <<service, sessions, conn, opener, taken, missed>>
    BY DEF Respond
  <1>2. Stop({})
    BY <1>1 DEF Stop, Deactivate, sessions, IInv, TypeOK
  <1>3. terms' = [i \in Ids |-> IF i \in {} THEN None ELSE terms[i]]
    BY <1>1 DEF service, IInv, TypeOK
  <1> QED BY <1>1, <1>2, <1>3, ResponsesStep DEF service

(* A pass ends and removes the terminals it found to have closed, by their *)
(* ids.                                                                    *)
LEMMA CleanClosedStep ==
  ASSUME IInv, NEW c \in Conns, CleanClosed(c)
  PROVE  IInv'
  <1> DEFINE ids == IF exists /\ pass[c].gen = gen THEN {f[1] : f \in pass[c].found} ELSE {}
             dropped == {terms[i] : i \in ids} \ {None}
             ss == {s \in dropped : \A d \in Conns : ~Holds(d, s)}
  <1>1. /\ Processed(c) /\ SendResponses(c) /\ Stop(ss)
        /\ terms' = [i \in Ids |-> IF i \in ids THEN None ELSE terms[i]]
        /\ UNCHANGED <<exists, gen, persistent, needsSync, conn, opener, taken, missed>>
    BY Zenon DEF CleanClosed
  <1>2. ids \in SUBSET Ids
    <2>1. pass[c].found \subseteq Ids \X Sessions
      BY DEF IInv, Threads, Pass
    <2> QED BY <2>1
  <1> HIDE DEF ids
  <1>3. ss \in SUBSET InService
    BY <1>2 DEF InService
  <1> HIDE DEF ss
  <1> QED BY <1>1, <1>2, <1>3, ResponsesStep
-----------------------------------------------------------------------------
(* Sessions are nobody's for a while, stopped or not, and the threads hold *)
(* what they held.                                                         *)
LEMMA ForgetStep ==
  ASSUME IInv, NEW ss \in SUBSET InService, Forget(ss),
         \A s \in Sessions : shell'[s] = shell[s] \/ (s \in ss /\ shell'[s] = "stopped" /\ \A c \in Conns : ~IsCur(c, s)),
         \A s \in Sessions : s \notin ss => /\ chan'[s] = chan[s] /\ pending'[s] = pending[s]
                                            /\ active'[s] <=> active[s],
         \A s \in Sessions : s \in ss => ~active'[s] /\ pending'[s] = None,
         buffer' = buffer, InService' \subseteq InService,
         \A d \in Conns : pass'[d].todo \subseteq pass[d].todo /\ pass'[d].found = pass[d].found,
         \A d \in Conns, s \in Sessions : pass'[d].out[s] = pass[d].out[s] /\ (IsCur(d, s)' <=> IsCur(d, s))
  PROVE  /\ opener' \in [Sessions -> Conns \cup {None}] /\ past' \in [Sessions -> Chunks]
         /\ told' \subseteq Sessions /\ taken' \subseteq Sessions
         /\ UnusedIsFresh' /\ Replays' /\ StreamIsWhole' /\ FoundIsRead' /\ ToldIsSent'
  <1>1. /\ opener' = [s \in Sessions |-> IF s \in ss THEN None ELSE opener[s]]
        /\ past' = [s \in Sessions |-> IF s \in ss THEN <<>> ELSE past[s]]
        /\ told' = told \ ss /\ taken' = taken \ ss
    BY DEF Forget
  <1>2. /\ opener \in [Sessions -> Conns \cup {None}] /\ past \in [Sessions -> Chunks]
        /\ told \subseteq Sessions /\ taken \subseteq Sessions
    BY DEF IInv, TypeOK
  <1>3. opener' \in [Sessions -> Conns \cup {None}] /\ told' \subseteq Sessions /\ taken' \subseteq Sessions
    BY <1>1, <1>2
  <1>4. past' \in [Sessions -> Chunks]
    BY <1>1, <1>2, ChunksLemma
  <1>5. \A s \in Sessions : opener'[s] # None => s \notin ss /\ opener'[s] = opener[s]
    BY <1>1
  <1>6. \A s \in Sessions : s \notin ss =>
          /\ opener'[s] = opener[s] /\ past'[s] = past[s]
          /\ s \in told' <=> s \in told
          /\ s \in taken' <=> s \in taken
    BY <1>1
  <1>7. \A s \in Sessions : s \notin ss /\ opener[s] # None /\ Settled(s) => Settled(s)'
    <2> SUFFICES ASSUME NEW s \in Sessions, s \notin ss, opener[s] # None, Settled(s)
                 PROVE  Settled(s)'
      OBVIOUS
    <2>1. opener[s] \in Conns /\ opener'[s] = opener[s] /\ past'[s] = past[s]
      BY <1>2, <1>6
    <2> QED BY <2>1 DEF Settled, InFlight
  <1>8. UnusedIsFresh'
    <2> SUFFICES ASSUME NEW s \in Sessions, shell'[s] = "unused"
                 PROVE  /\ chan'[s] = <<>> /\ buffer'[s] = <<>> /\ past'[s] = <<>> /\ pending'[s] = None
                        /\ s \notin (InService \cup told \cup taken)' /\ opener'[s] = None
                        /\ \A d \in Conns : /\ pass'[d].out[s] = <<>> /\ ~IsCur(d, s)'
                                            /\ \A i \in Ids : <<i, s>> \notin pass'[d].todo \cup pass'[d].found
      BY DEF UnusedIsFresh
    <2>1. shell[s] = "unused"
      OBVIOUS
    <2>2. /\ chan[s] = <<>> /\ buffer[s] = <<>> /\ past[s] = <<>> /\ pending[s] = None
          /\ s \notin InService \cup told \cup taken /\ opener[s] = None
          /\ \A d \in Conns : /\ pass[d].out[s] = <<>> /\ ~IsCur(d, s)
                              /\ \A i \in Ids : <<i, s>> \notin pass[d].todo \cup pass[d].found
      BY <2>1 DEF IInv, UnusedIsFresh
    <2> QED BY <1>6, <2>2
  <1>9. Replays'
    BY <1>5, <1>6 DEF IInv, Replays
  <1>10. StreamIsWhole'
    <2> SUFFICES ASSUME NEW s \in Sessions, opener'[s] # None, active'[s], s \notin taken'
                 PROVE  past'[s] \o pass'[opener'[s]].out[s] \o Replay(s)' = buffer'[s]
      BY DEF StreamIsWhole, InFlight, Replay
    <2>1. s \notin ss /\ opener'[s] = opener[s] /\ past'[s] = past[s] /\ opener[s] \in Conns /\ s \notin taken
      BY <1>2, <1>5, <1>6
    <2>2. active[s] /\ Replay(s)' = Replay(s)
      BY <2>1 DEF Replay
    <2>3. past[s] \o pass[opener[s]].out[s] \o Replay(s) = buffer[s]
      BY <2>1, <2>2, TerminalAssumption DEF IInv, StreamIsWhole, InFlight, Replay
    <2>4. pass'[opener[s]].out[s] = pass[opener[s]].out[s]
      BY <2>1
    <2> QED BY <2>1, <2>2, <2>3, <2>4
  <1>11. FoundIsRead'
    <2> SUFFICES ASSUME NEW d \in Conns, NEW i \in Ids, NEW s \in Sessions, <<i, s>> \in pass'[d].found
                 PROVE  /\ shell'[s] \in {"exited", "stopped"}
                        /\ IsCur(d, s)' => shell'[s] = "exited"
                        /\ opener'[s] = d /\ s \notin taken' /\ ~IsCur(d, s)' => Settled(s)'
      BY DEF FoundIsRead
    <2>1. /\ shell[s] \in {"exited", "stopped"}
          /\ IsCur(d, s) => shell[s] = "exited"
          /\ opener[s] = d /\ s \notin taken /\ ~IsCur(d, s) => Settled(s)
      BY DEF IInv, FoundIsRead
    <2> QED BY <1>5, <1>6, <1>7, <2>1, TerminalAssumption
  <1>12. ToldIsSent'
    <2> SUFFICES ASSUME NEW s \in Sessions, s \in told'
                 PROVE  /\ shell'[s] \in {"exited", "stopped"}
                        /\ opener'[s] # None /\ s \notin taken' => Settled(s)' /\ pass'[opener'[s]].out[s] = <<>>
      BY DEF ToldIsSent, InFlight
    <2>1. s \in told /\ s \notin ss
      BY <1>1
    <2>2. /\ shell[s] \in {"exited", "stopped"}
          /\ opener[s] # None /\ s \notin taken => Settled(s) /\ pass[opener[s]].out[s] = <<>>
      BY <2>1 DEF IInv, ToldIsSent, InFlight
    <2> QED BY <1>2, <1>6, <1>7, <2>1, <2>2
  <1> QED BY <1>3, <1>4, <1>8, <1>9, <1>10, <1>11, <1>12

(* Nothing is forgotten when no session is removed.                        *)
LEMMA ForgetNothing ==
  ASSUME TypeOK, UNCHANGED history
  PROVE  Forget({})
  BY DEF Forget, history, TypeOK

(* A thread leaves its loop and decides whether the service goes.          *)
LEMMA ExitStep ==
  ASSUME IInv, NEW c \in Conns, Exit(c)
  PROVE  IInv'
  <1> DEFINE at == IF exists /\ ~persistent THEN "remove" ELSE "done"
  <1>1. /\ pass[c].at = "head" /\ conn[c] = "gone" /\ At(c, at)
        /\ UNCHANGED <<service, sessions, conn, history, missed>>
    BY DEF Exit
  <1>2. at \in {"idle", "head", "remove", "done"} /\ (exists /\ ~persistent => at = "remove")
    OBVIOUS
  <1> HIDE DEF at
  <1>3. missed' \in BOOLEAN
    BY <1>1 DEF IInv, TypeOK
  <1>4. ASSUME pass'[c].at = at
        PROVE  NonPersistentIsServed'
    BY <1>1, <1>2, <1>4 DEF NonPersistentIsServed, Serving, service
  <1> QED BY <1>1, <1>2, <1>3, <1>4, LoopStep

(* The service goes, with all its sessions.                                *)
LEMMA RemoveStep ==
  ASSUME IInv, RemoveService, Threads', ReadOnce', \A d \in Conns : pass'[d] \in Pass,
         \A d \in Conns : pass'[d].todo \subseteq pass[d].todo /\ pass'[d].found = pass[d].found,
         \A d \in Conns, s \in Sessions : pass'[d].out[s] = pass[d].out[s] /\ (IsCur(d, s)' <=> IsCur(d, s))
  PROVE  IInv'
  <1> DEFINE ss == IF exists THEN InService ELSE {}
  <1>1. /\ Stop(ss) /\ Forget(ss) /\ exists' = FALSE /\ terms' = [i \in Ids |-> None]
        /\ UNCHANGED <<gen, persistent, needsSync, conn, missed>>
    BY DEF RemoveService
  <1>2. ss \in SUBSET InService
    OBVIOUS
  <1> HIDE DEF ss
  <1>3. TypeOK
    BY DEF IInv
  <1>4. /\ \A s \in Sessions :
             /\ shell'[s] = IF s \in ss THEN "stopped" ELSE shell[s]
             /\ chan'[s] = IF s \in ss THEN <<>> ELSE chan[s]
             /\ active'[s] <=> active[s] /\ s \notin ss
             /\ pending'[s] = IF s \in ss THEN None ELSE pending[s]
             /\ s \in ss => \A d \in Conns : ~IsCur(d, s)
        /\ shell' \in [Sessions -> {"unused", "running", "exited", "stopped"}]
        /\ chan' \in [Sessions -> Chunks] /\ \A s \in Sessions : Len(chan'[s]) <= ChanSize
        /\ active' \in [Sessions -> BOOLEAN]
        /\ pending' \in [Sessions -> {None} \cup Chunks]
        /\ UNCHANGED <<written, buffer, reported>>
    BY <1>1, <1>3, StopLemma
  <1>5. InService' \subseteq InService
    BY <1>1 DEF InService
  <1>6. /\ opener' \in [Sessions -> Conns \cup {None}] /\ past' \in [Sessions -> Chunks]
        /\ told' \subseteq Sessions /\ taken' \subseteq Sessions
        /\ UnusedIsFresh' /\ Replays' /\ StreamIsWhole' /\ FoundIsRead' /\ ToldIsSent'
    <2>1. \A s \in Sessions : shell'[s] = shell[s] \/ (s \in ss /\ shell'[s] = "stopped" /\ \A c \in Conns : ~IsCur(c, s))
      BY <1>4
    <2>2. \A s \in Sessions : s \notin ss => /\ chan'[s] = chan[s] /\ pending'[s] = pending[s]
                                             /\ active'[s] <=> active[s]
      BY <1>4
    <2>3. \A s \in Sessions : s \in ss => ~active'[s] /\ pending'[s] = None
      BY <1>4
    <2> QED BY <1>1, <1>2, <1>4, <1>5, <2>1, <2>2, <2>3, ForgetStep
  <1>7. TypeOK'
    BY <1>1, <1>3, <1>4, <1>6 DEF TypeOK, Pass
  <1>8. Generations' /\ OneId' /\ NonPersistentIsServed'
    BY <1>1 DEF IInv, Generations, OneId, NonPersistentIsServed, Serving
  <1> QED BY <1>6, <1>7, <1>8 DEF IInv

(* It removes the service.                                                 *)
LEMMA RemoveAtExitStep ==
  ASSUME IInv, NEW c \in Conns, RemoveAtExit(c)
  PROVE  IInv'
  <1>1. pass[c].at = "remove" /\ RemoveService /\ At(c, "done") /\ conn' = conn
    BY DEF RemoveAtExit, RemoveService
  <1>2. conn' \in [Conns -> {"out", "open", "gone"}] /\ conn[c] = "gone"
    BY <1>1 DEF IInv, TypeOK, Threads
  <1>3. /\ Threads' /\ ReadOnce' /\ \A d \in Conns : pass'[d] \in Pass
        /\ pass'[c].at = "done" /\ pass'[c].found = {} /\ pass'[c].todo = {} /\ pass'[c].cur = <<>>
        /\ \A s \in Sessions : pass'[c].out[s] = <<>>
        /\ \A d \in Conns : d # c => pass'[d] = pass[d]
        /\ \A d \in Conns, s \in Sessions : IsCur(d, s)' <=> d # c /\ IsCur(d, s)
    BY <1>1, <1>2, IdleStep
  <1>4. /\ pass[c].found = {} /\ pass[c].todo = {}
        /\ \A s \in Sessions : pass[c].out[s] = <<>> /\ ~IsCur(c, s)
    BY <1>1, AtRest
  <1>5. /\ \A d \in Conns : pass'[d].todo \subseteq pass[d].todo /\ pass'[d].found = pass[d].found
        /\ \A d \in Conns, s \in Sessions : pass'[d].out[s] = pass[d].out[s] /\ (IsCur(d, s)' <=> IsCur(d, s))
    BY <1>3, <1>4
  <1> QED BY <1>1, <1>3, <1>5, RemoveStep

(* The clean-up removes a service nobody used.                             *)
LEMMA CleanupInactiveStep ==
  ASSUME IInv, CleanupInactive
  PROVE  IInv'
  <1>1. RemoveService /\ pass' = pass /\ conn' = conn
    BY DEF CleanupInactive, RemoveService
  <1>2. Threads' /\ ReadOnce' /\ \A d \in Conns : pass'[d] \in Pass
    BY <1>1 DEF IInv, Threads, ReadOnce, IsCur
  <1>3. \A d \in Conns, s \in Sessions : IsCur(d, s)' <=> IsCur(d, s)
    BY <1>1 DEF IsCur
  <1> QED BY <1>1, <1>2, <1>3, RemoveStep

(* A connection comes to the service, or makes it.                         *)
LEMMA AttachStep ==
  ASSUME IInv, NEW c \in Conns, NEW p \in BOOLEAN, Attach(c, p)
  PROVE  IInv'
  <1>1. /\ conn[c] = "out" /\ conn' = [conn EXCEPT ![c] = "open"] /\ At(c, "idle")
        /\ UNCHANGED <<shell, written, chan, buffer, reported>>
    BY DEF Attach
  <1>2. TypeOK
    BY DEF IInv
  <1>3. PICK ss \in SUBSET InService :
          /\ Deactivate(ss) /\ Forget(ss) /\ terms' = terms
          /\ {exists', persistent', needsSync'} \subseteq BOOLEAN
          /\ gen' \in {gen, gen + 1} /\ missed' \in BOOLEAN
    <2>1. CASE /\ exists' = TRUE /\ gen' = (IF exists THEN gen ELSE gen + 1) /\ missed' = FALSE
               /\ ResetStatus(p) /\ UNCHANGED terms
      BY <2>1 DEF ResetStatus
    <2>2. CASE ~exists /\ UNCHANGED <<service, active, pending, history, missed>>
      <3>1. Forget({})
        BY <1>2, <2>2, ForgetNothing
      <3>2. Deactivate({})
        BY <1>2, <2>2 DEF Deactivate, TypeOK
      <3> QED BY <1>2, <2>2, <3>1, <3>2 DEF service, TypeOK
    <2> QED BY <2>1, <2>2 DEF Attach
  <1>4. conn' \in [Conns -> {"out", "open", "gone"}] /\ conn'[c] = "open"
        /\ \A d \in Conns : d # c => conn'[d] = conn[d]
    BY <1>1, <1>2 DEF TypeOK
  <1>5. /\ Threads' /\ ReadOnce' /\ \A d \in Conns : pass'[d] \in Pass
        /\ pass'[c].at = "idle" /\ pass'[c].found = {} /\ pass'[c].todo = {} /\ pass'[c].cur = <<>>
        /\ \A s \in Sessions : pass'[c].out[s] = <<>>
        /\ \A d \in Conns : d # c => pass'[d] = pass[d]
        /\ \A d \in Conns, s \in Sessions : IsCur(d, s)' <=> d # c /\ IsCur(d, s)
    BY <1>1, <1>4, IdleStep
  <1>6. /\ pass[c].found = {} /\ pass[c].todo = {}
        /\ \A s \in Sessions : pass[c].out[s] = <<>> /\ ~IsCur(c, s)
    <2>1. pass[c].at # "read"
      BY <1>1 DEF IInv, Threads
    <2> QED BY <2>1, AtRest
  <1>7. /\ \A d \in Conns : pass'[d].todo \subseteq pass[d].todo /\ pass'[d].found = pass[d].found
        /\ \A d \in Conns, s \in Sessions : pass'[d].out[s] = pass[d].out[s] /\ (IsCur(d, s)' <=> IsCur(d, s))
    BY <1>5, <1>6
  <1>8. /\ active' = [s \in Sessions |-> active[s] /\ s \notin ss]
        /\ pending' = [s \in Sessions |-> IF s \in ss THEN None ELSE pending[s]]
    BY <1>3 DEF Deactivate
  <1>9. /\ opener' \in [Sessions -> Conns \cup {None}] /\ past' \in [Sessions -> Chunks]
        /\ told' \subseteq Sessions /\ taken' \subseteq Sessions
        /\ UnusedIsFresh' /\ Replays' /\ StreamIsWhole' /\ FoundIsRead' /\ ToldIsSent'
    <2>1. \A s \in Sessions : s \notin ss => /\ chan'[s] = chan[s] /\ pending'[s] = pending[s]
                                             /\ active'[s] <=> active[s]
      BY <1>1, <1>8
    <2>2. \A s \in Sessions : s \in ss => ~active'[s] /\ pending'[s] = None
      BY <1>8
    <2>3. InService' = InService
      BY <1>3 DEF InService
    <2> QED BY <1>1, <1>3, <1>7, <2>1, <2>2, <2>3, ForgetStep
  (* This connection is one more that may have made a service.             *)
  <1>10. Generations' /\ gen' \in 0..Cardinality(Conns)
    <2> DEFINE D == {d \in Conns : conn[d] # "out"}
               E == {d \in Conns : conn'[d] # "out"}
    <2>1. E = D \cup {c} /\ c \notin D /\ D \subseteq Conns /\ E \subseteq Conns
      BY <1>1, <1>4
    <2>2. gen \in Nat /\ gen <= Cardinality(D) /\ gen' \in Nat
      <3>1. IsFiniteSet(Conns)
        BY TerminalAssumption
      <3>2. Cardinality(Conns) \in Nat
        BY <3>1, FS_CardinalityType
      <3>3. gen \in 0..Cardinality(Conns) /\ gen <= Cardinality(D)
        BY DEF IInv, TypeOK, Generations
      <3> HIDE DEF D, E
      <3> QED BY <1>3, <3>2, <3>3
    <2> HIDE DEF D, E
    <2>3. IsFiniteSet(Conns) /\ IsFiniteSet(D) /\ IsFiniteSet(E)
      BY <2>1, FS_Subset, TerminalAssumption
    <2>4. /\ Cardinality(E) = Cardinality(D) + 1 /\ Cardinality(D) \in Nat
          /\ Cardinality(E) <= Cardinality(Conns) /\ Cardinality(Conns) \in Nat
      BY <2>1, <2>3, FS_AddElement, FS_Subset, FS_CardinalityType
    <2>5. gen' <= Cardinality(E) /\ gen' \in 0..Cardinality(Conns)
      BY <1>3, <2>2, <2>4
    <2> QED BY <2>5 DEF Generations, E
  <1>11. TypeOK'
    <2>1. active' \in [Sessions -> BOOLEAN]
      BY <1>2, <1>8 DEF TypeOK
    <2>2. pending' \in [Sessions -> {None} \cup Chunks]
      BY <1>2, <1>8 DEF TypeOK
    <2> QED BY <1>1, <1>2, <1>3, <1>4, <1>5, <1>9, <1>10, <2>1, <2>2 DEF TypeOK, Pass
  <1>12. OneId' /\ NonPersistentIsServed'
    BY <1>3, <1>4 DEF IInv, OneId, NonPersistentIsServed, Serving
  <1> QED BY <1>5, <1>9, <1>10, <1>11, <1>12 DEF IInv
-----------------------------------------------------------------------------
(* A history is never taken for none.                                      *)
LEMMA NoneIsNoHistory ==
  None \notin Chunks
  <1>1. MaxOutput \in Nat /\ 1..MaxOutput \subseteq Nat
    BY TerminalAssumption
  <1>2. Chunks \subseteq Seq(Nat)
    <2> SUFFICES ASSUME NEW a \in Chunks
                 PROVE  a \in Seq(Nat)
      OBVIOUS
    <2> QED BY <1>1, SeqMonotonic DEF Chunks
  <1> QED BY <1>2, TerminalAssumption

(* A history is what a replay leaves out of it and the replay.             *)
LEMMA ReplayLemma ==
  ASSUME TypeOK, NEW s \in Sessions, NEW n \in LeftOut(s)
  PROVE  /\ SubSeq(buffer[s], 1, n) \in Chunks /\ SubSeq(buffer[s], n + 1, Len(buffer[s])) \in Chunks
         /\ SubSeq(buffer[s], 1, n) \o SubSeq(buffer[s], n + 1, Len(buffer[s])) = buffer[s]
         /\ Len(SubSeq(buffer[s], 1, n)) = n
         /\ n = 0 \/ (n \in Nat /\ ReplayMax < Len(buffer[s]) /\ n < Len(buffer[s]))
  <1> DEFINE S == 1..MaxOutput
  <1>1. buffer[s] \in Seq(S)
    BY DEF TypeOK, Chunks
  <1>2. Len(buffer[s]) \in Nat /\ ReplayMax \in Nat \ {0}
    BY <1>1, TerminalAssumption
  <1>3. n \in 0..Len(buffer[s]) /\ (n = 0 \/ (ReplayMax < Len(buffer[s]) /\ n < Len(buffer[s])))
    BY <1>2 DEF LeftOut
  <1> HIDE DEF S
  <1>4. /\ SubSeq(buffer[s], 1, n) \in Seq(S) /\ SubSeq(buffer[s], n + 1, Len(buffer[s])) \in Seq(S)
        /\ Len(SubSeq(buffer[s], 1, n)) = n
    <2>1. n \in Int /\ 1 \in Int /\ n + 1 \in Int /\ Len(buffer[s]) \in Int
      BY <1>2, <1>3
    <2>2. \A i \in 1..Len(buffer[s]) : buffer[s][i] \in S
      BY <1>1, ElementOfSeq
    <2>3. /\ \A i \in 1..n : buffer[s][i] \in S
          /\ \A i \in n + 1..Len(buffer[s]) : buffer[s][i] \in S
      BY <1>2, <1>3, <2>2
    <2>4. SubSeq(buffer[s], 1, n) \in Seq(S) /\ Len(SubSeq(buffer[s], 1, n)) = IF 1 <= n THEN n - 1 + 1 ELSE 0
      BY <2>1, <2>3, SubSeqProperties
    <2>5. SubSeq(buffer[s], n + 1, Len(buffer[s])) \in Seq(S)
      BY <2>1, <2>3, SubSeqProperties
    <2> QED BY <1>2, <1>3, <2>4, <2>5
  <1>5. SubSeq(buffer[s], 1, n) \o SubSeq(buffer[s], n + 1, Len(buffer[s])) = buffer[s]
    <2>1. SubSeq(buffer[s], 1, Len(buffer[s])) = buffer[s]
      BY <1>1, SubSeqFull
    <2>2. SubSeq(buffer[s], 1, n) \o SubSeq(buffer[s], n + 1, Len(buffer[s])) = SubSeq(buffer[s], 1, Len(buffer[s]))
      <3>1. 1 \in 1..Len(buffer[s]) + 1 /\ n \in 1 - 1..Len(buffer[s]) /\ Len(buffer[s]) \in n..Len(buffer[s])
        BY <1>2, <1>3
      <3> QED BY <1>1, <3>1, ConcatAdjacentSubSeq
    <2> QED BY <2>1, <2>2
  <1>6. n \in Nat
    BY <1>2, <1>3
  <1> QED BY <1>3, <1>4, <1>5, <1>6 DEF Chunks, S

(* A terminal there is has a new reader: the end of its history is ahead   *)
(* of it, unless somebody already holds some of what is new.               *)
LEMMA ReopenStep ==
  ASSUME IInv, NEW c \in Conns, NEW i \in Ids, conn[c] = "open", Reopen(c, i), terms' = Remapped(i),
         needsSync' = FALSE, UNCHANGED <<exists, gen, persistent, conn, pass, missed>>
  PROVE  IInv'
  <1>1. PICK s : s = Remapped(i)[i]
    OBVIOUS
  <1>2. /\ s # None /\ ~Locked(s)
        /\ active' = [active EXCEPT ![s] = TRUE]
        /\ opener' = [opener EXCEPT ![s] = c]
        /\ taken' = (IF Reading(c, s) THEN taken \cup {s} ELSE taken \ {s})
        /\ told' = told \ {s}
        /\ UNCHANGED <<shell, written, chan, buffer, reported>>
    BY <1>1 DEF Reopen
  <1>a. PICK n \in LeftOut(s) :
          /\ pending' = [pending EXCEPT ![s] = IF buffer[s] = <<>> THEN None
                                               ELSE SubSeq(buffer[s], n + 1, Len(buffer[s]))]
          /\ past' = [past EXCEPT ![s] = SubSeq(buffer[s], 1, n)]
    BY <1>1 DEF Reopen
  <1>3. TypeOK /\ OneId
    BY DEF IInv
  <1>4. /\ terms' \in [Ids -> Sessions \cup {None}] /\ OneId'
        /\ InService' \subseteq InService /\ s \in InService /\ s \in Sessions
    <2>1. /\ Remapped(i) \in [Ids -> Sessions \cup {None}]
          /\ \A j, k \in Ids : Remapped(i)[j] = Remapped(i)[k] /\ Remapped(i)[j] # None => j = k
          /\ \A j \in Ids : Remapped(i)[j] \in InService \cup {None}
      BY <1>3, RemappedLemma
    <2>2. \A j \in Ids : terms'[j] \in InService \cup {None}
      BY <2>1
    <2>3. InService' \subseteq InService
      <3>1. InService' = {terms'[j] : j \in Ids} \ {None}
        BY DEF InService
      <3> QED BY <2>2, <3>1
    <2> QED BY <1>1, <1>2, <1>3, <2>1, <2>3 DEF OneId, InService, TypeOK
  <1>5. /\ active \in [Sessions -> BOOLEAN] /\ pending \in [Sessions -> {None} \cup Chunks]
        /\ buffer \in [Sessions -> Chunks] /\ opener \in [Sessions -> Conns \cup {None}]
        /\ past \in [Sessions -> Chunks] /\ told \subseteq Sessions /\ taken \subseteq Sessions
    BY <1>3 DEF TypeOK
  <1> DEFINE old == SubSeq(buffer[s], 1, n)
             new == SubSeq(buffer[s], n + 1, Len(buffer[s]))
  <1>b. old \in Chunks /\ new \in Chunks /\ old \o new = buffer[s]
    BY <1>3, <1>4, ReplayLemma
  <1> HIDE DEF old, new
  <1>c. /\ pending' = [pending EXCEPT ![s] = IF buffer[s] = <<>> THEN None ELSE new]
        /\ past' = [past EXCEPT ![s] = old]
    BY <1>a DEF old, new
  <1>6. /\ active' \in [Sessions -> BOOLEAN] /\ pending' \in [Sessions -> {None} \cup Chunks]
        /\ opener' \in [Sessions -> Conns \cup {None}]
        /\ past' \in [Sessions -> Chunks] /\ told' \subseteq Sessions /\ taken' \subseteq Sessions
    BY <1>2, <1>4, <1>5, <1>b, <1>c
  <1>7. /\ active'[s] /\ opener'[s] = c /\ past'[s] = old /\ s \notin told'
        /\ pending'[s] = IF buffer[s] = <<>> THEN None ELSE new
        /\ s \in taken' <=> Reading(c, s)
    BY <1>2, <1>4, <1>5, <1>c
  <1>8. \A t \in Sessions : t # s =>
          /\ (active'[t] <=> active[t]) /\ opener'[t] = opener[t] /\ past'[t] = past[t]
          /\ pending'[t] = pending[t]
          /\ (t \in told' <=> t \in told) /\ (t \in taken' <=> t \in taken)
    BY <1>2, <1>4, <1>5, <1>c
  <1>9. TypeOK'
    BY <1>2, <1>3, <1>4, <1>6 DEF TypeOK
  <1>10. Threads' /\ Generations' /\ ReadOnce' /\ NonPersistentIsServed'
    BY DEF IInv, Threads, Generations, ReadOnce, IsCur, NonPersistentIsServed, Serving
  <1>11. UnusedIsFresh'
    <2> SUFFICES ASSUME NEW t \in Sessions, shell'[t] = "unused"
                 PROVE  /\ chan'[t] = <<>> /\ buffer'[t] = <<>> /\ past'[t] = <<>> /\ pending'[t] = None
                        /\ t \notin (InService \cup told \cup taken)' /\ opener'[t] = None
                        /\ \A d \in Conns : /\ pass'[d].out[t] = <<>> /\ ~IsCur(d, t)'
                                            /\ \A j \in Ids : <<j, t>> \notin pass'[d].todo \cup pass'[d].found
      BY DEF UnusedIsFresh
    <2>1. /\ chan[t] = <<>> /\ buffer[t] = <<>> /\ past[t] = <<>> /\ pending[t] = None
          /\ t \notin InService \cup told \cup taken /\ opener[t] = None
          /\ \A d \in Conns : /\ pass[d].out[t] = <<>> /\ ~IsCur(d, t)
                              /\ \A j \in Ids : <<j, t>> \notin pass[d].todo \cup pass[d].found
      BY <1>2 DEF IInv, UnusedIsFresh
    <2>2. t # s
      BY <1>4, <2>1
    <2>3. \A d \in Conns : IsCur(d, t)' <=> IsCur(d, t)
      BY DEF IsCur
    <2> QED BY <1>2, <1>4, <1>8, <2>1, <2>2, <2>3
  <1>12. Replays'
    <2> SUFFICES ASSUME NEW t \in Sessions
                 PROVE  /\ pending'[t] # None => active'[t]
                        /\ opener'[t] # None /\ ~active'[t] => shell'[t] = "stopped"
      BY DEF Replays
    <2>1. CASE t = s
      BY <1>2, <1>7, <2>1
    <2>2. CASE t # s
      BY <1>2, <1>8, <2>2 DEF IInv, Replays
    <2> QED BY <2>1, <2>2
  <1>13. StreamIsWhole'
    <2> SUFFICES ASSUME NEW t \in Sessions, opener'[t] # None, active'[t], t \notin taken'
                 PROVE  past'[t] \o pass[opener'[t]].out[t] \o Replay(t)' = buffer[t]
      BY <1>2 DEF StreamIsWhole, InFlight, Replay
    <2>1. CASE t = s
      <3>1. pass[c].out[s] = <<>>
        BY <1>7, <2>1 DEF Reading, InFlight
      <3>2. Replay(s)' = new
        <4>1. new # None
          BY <1>b, NoneIsNoHistory
        <4>2. buffer[s] = <<>> => new = <<>>
          BY <1>b, ChunksLemma
        <4> QED BY <1>7, <4>1, <4>2 DEF Replay
      <3>3. old \o <<>> = old
        BY <1>b, ChunksLemma
      <3> QED BY <1>7, <1>b, <2>1, <3>1, <3>2, <3>3
    <2>2. CASE t # s
      <3>1. Replay(t)' = Replay(t) /\ opener[t] # None /\ active[t] /\ t \notin taken
        BY <1>8, <2>2 DEF Replay
      <3>2. past[t] \o pass[opener[t]].out[t] \o Replay(t) = buffer[t]
        BY <3>1 DEF IInv, StreamIsWhole, InFlight, Replay
      <3> QED BY <1>8, <2>2, <3>1, <3>2
    <2> QED BY <2>1, <2>2
  <1>14. \A t \in Sessions : t # s => (Settled(t)' <=> Settled(t))
    BY <1>2, <1>8 DEF Settled, InFlight
  <1>15. FoundIsRead'
    <2> SUFFICES ASSUME NEW d \in Conns, NEW j \in Ids, NEW t \in Sessions, <<j, t>> \in pass[d].found
                 PROVE  /\ shell[t] \in {"exited", "stopped"}
                        /\ IsCur(d, t)' => shell[t] = "exited"
                        /\ opener'[t] = d /\ t \notin taken' /\ ~IsCur(d, t)' => Settled(t)'
      BY <1>2 DEF FoundIsRead
    <2>1. /\ shell[t] \in {"exited", "stopped"}
          /\ IsCur(d, t) => shell[t] = "exited"
          /\ opener[t] = d /\ t \notin taken /\ ~IsCur(d, t) => Settled(t)
      BY DEF IInv, FoundIsRead
    <2>2. IsCur(d, t)' <=> IsCur(d, t)
      BY DEF IsCur
    <2>3. CASE t = s
      BY <1>7, <2>1, <2>2, <2>3 DEF Reading
    <2>4. CASE t # s
      BY <1>8, <1>14, <2>1, <2>2, <2>4
    <2> QED BY <2>3, <2>4
  <1>16. ToldIsSent'
    <2> SUFFICES ASSUME NEW t \in Sessions, t \in told'
                 PROVE  /\ shell[t] \in {"exited", "stopped"}
                        /\ opener'[t] # None /\ t \notin taken' => Settled(t)' /\ pass[opener'[t]].out[t] = <<>>
      BY <1>2 DEF ToldIsSent, InFlight
    <2>1. t # s /\ t \in told
      BY <1>7, <1>8
    <2> QED BY <1>8, <1>14, <2>1 DEF IInv, ToldIsSent, InFlight
  <1> QED BY <1>4, <1>9, <1>10, <1>11, <1>12, <1>13, <1>15, <1>16 DEF IInv

(* A session is made for an id that has none.                              *)
LEMMA OpenNewStep ==
  ASSUME IInv, NEW c \in Conns, NEW i \in Ids, conn[c] = "open", Remapped(i)[i] = None,
         NEW s \in Sessions, OpenNew(c, s), terms' = [terms EXCEPT ![i] = s],
         needsSync' = FALSE, UNCHANGED <<exists, gen, persistent, conn, pass, missed>>
  PROVE  IInv'
  <1>1. /\ shell[s] = "unused"
        /\ shell' = [shell EXCEPT ![s] = "running"]
        /\ active' = [active EXCEPT ![s] = TRUE]
        /\ opener' = [opener EXCEPT ![s] = c]
        /\ UNCHANGED <<written, chan, buffer, pending, reported, past, told, taken>>
    BY DEF OpenNew
  <1>2. TypeOK
    BY DEF IInv
  <1>3. /\ chan[s] = <<>> /\ buffer[s] = <<>> /\ past[s] = <<>> /\ pending[s] = None
        /\ s \notin InService \cup told \cup taken /\ opener[s] = None
        /\ \A d \in Conns : /\ pass[d].out[s] = <<>> /\ ~IsCur(d, s)
                            /\ \A j \in Ids : <<j, s>> \notin pass[d].todo \cup pass[d].found
    BY <1>1 DEF IInv, UnusedIsFresh
  <1>4. /\ \A t \in Sessions : shell'[t] = IF t = s THEN "running" ELSE shell[t]
        /\ \A t \in Sessions : active'[t] <=> t = s \/ active[t]
        /\ \A t \in Sessions : opener'[t] = IF t = s THEN c ELSE opener[t]
        /\ \A j \in Ids : terms'[j] = IF j = i THEN s ELSE terms[j]
    BY <1>1, <1>2 DEF TypeOK
  <1>5. TypeOK'
    BY <1>1, <1>2 DEF TypeOK
  <1>6. Threads' /\ Generations' /\ ReadOnce' /\ NonPersistentIsServed'
    BY DEF IInv, Threads, Generations, ReadOnce, IsCur, NonPersistentIsServed, Serving
  <1>7. OneId'
    <2>1. s # None /\ \A j \in Ids : terms[j] # s
      BY <1>3, TerminalAssumption DEF InService
    <2> QED BY <1>4, <2>1 DEF IInv, OneId
  <1>8. UnusedIsFresh'
    <2> SUFFICES ASSUME NEW t \in Sessions, shell'[t] = "unused"
                 PROVE  /\ chan'[t] = <<>> /\ buffer'[t] = <<>> /\ past'[t] = <<>> /\ pending'[t] = None
                        /\ t \notin (InService \cup told \cup taken)' /\ opener'[t] = None
                        /\ \A d \in Conns : /\ pass'[d].out[t] = <<>> /\ ~IsCur(d, t)'
                                            /\ \A j \in Ids : <<j, t>> \notin pass'[d].todo \cup pass'[d].found
      BY DEF UnusedIsFresh
    <2>1. t # s /\ shell[t] = "unused"
      BY <1>4
    <2>2. /\ chan[t] = <<>> /\ buffer[t] = <<>> /\ past[t] = <<>> /\ pending[t] = None
          /\ t \notin InService \cup told \cup taken /\ opener[t] = None
          /\ \A d \in Conns : /\ pass[d].out[t] = <<>> /\ ~IsCur(d, t)
                              /\ \A j \in Ids : <<j, t>> \notin pass[d].todo \cup pass[d].found
      BY <2>1 DEF IInv, UnusedIsFresh
    <2>3. InService' \subseteq InService \cup {s}
      BY <1>4 DEF InService
    <2>4. \A d \in Conns : IsCur(d, t)' <=> IsCur(d, t)
      BY DEF IsCur
    <2> QED BY <1>1, <1>4, <2>1, <2>2, <2>3, <2>4
  <1>9. Replays'
    BY <1>1, <1>3, <1>4 DEF IInv, Replays
  <1>10. StreamIsWhole'
    <2> SUFFICES ASSUME NEW t \in Sessions, opener'[t] # None, active'[t], t \notin taken
                 PROVE  past[t] \o pass[opener'[t]].out[t] \o Replay(t) = buffer[t]
      BY <1>1 DEF StreamIsWhole, InFlight, Replay
    <2>1. CASE t = s
      <3>1. opener'[t] = c /\ pass[c].out[t] = <<>> /\ past[t] = <<>> /\ buffer[t] = <<>> /\ pending[t] = None
        BY <1>3, <1>4, <2>1
      <3>2. <<>> \o <<>> = <<>>
        BY ChunksLemma
      <3> QED BY <3>1, <3>2 DEF Replay
    <2>2. CASE t # s
      BY <1>4, <2>2 DEF IInv, StreamIsWhole, InFlight, Replay
    <2> QED BY <2>1, <2>2
  <1>11. \A t \in Sessions : t # s => (Settled(t)' <=> Settled(t))
    BY <1>1, <1>4 DEF Settled, InFlight
  <1>12. FoundIsRead'
    <2> SUFFICES ASSUME NEW d \in Conns, NEW j \in Ids, NEW t \in Sessions, <<j, t>> \in pass[d].found
                 PROVE  /\ shell'[t] \in {"exited", "stopped"}
                        /\ IsCur(d, t)' => shell'[t] = "exited"
                        /\ opener'[t] = d /\ t \notin taken /\ ~IsCur(d, t)' => Settled(t)'
      BY <1>1 DEF FoundIsRead
    <2>1. /\ shell[t] \in {"exited", "stopped"}
          /\ IsCur(d, t) => shell[t] = "exited"
          /\ opener[t] = d /\ t \notin taken /\ ~IsCur(d, t) => Settled(t)
      BY DEF IInv, FoundIsRead
    <2>2. t # s /\ (IsCur(d, t)' <=> IsCur(d, t))
      BY <1>3 DEF IsCur
    <2> QED BY <1>4, <1>11, <2>1, <2>2
  <1>13. ToldIsSent'
    <2> SUFFICES ASSUME NEW t \in Sessions, t \in told
                 PROVE  /\ shell'[t] \in {"exited", "stopped"}
                        /\ opener'[t] # None /\ t \notin taken => Settled(t)' /\ pass[opener'[t]].out[t] = <<>>
      BY <1>1 DEF ToldIsSent, InFlight
    <2>1. t # s
      BY <1>3
    <2> QED BY <1>4, <1>11, <2>1 DEF IInv, ToldIsSent, InFlight
  <1> QED BY <1>5, <1>6, <1>7, <1>8, <1>9, <1>10, <1>12, <1>13 DEF IInv

(* A client opens a terminal, which may be there already.                  *)
LEMMA HandleOpenStep ==
  ASSUME IInv, NEW c \in Conns, NEW i \in Ids, HandleOpen(c, i)
  PROVE  IInv'
  <1>1. /\ conn[c] = "open" /\ needsSync' = FALSE
        /\ UNCHANGED <<exists, gen, persistent, conn, pass, missed>>
        /\ \/ Reopen(c, i) /\ terms' = Remapped(i)
           \/ Remapped(i)[i] = None /\ \E s \in Sessions : OpenNew(c, s) /\ terms' = [terms EXCEPT ![i] = s]
    BY DEF HandleOpen
  <1>2. CASE Reopen(c, i) /\ terms' = Remapped(i)
    BY <1>1, <1>2, ReopenStep
  <1>3. CASE Remapped(i)[i] = None /\ \E s \in Sessions : OpenNew(c, s) /\ terms' = [terms EXCEPT ![i] = s]
    BY <1>1, <1>3, OpenNewStep
  <1> QED BY <1>1, <1>2, <1>3
-----------------------------------------------------------------------------
(* The invariant holds at the beginning.                                   *)
LEMMA InitIInv == Init => IInv
  <1> SUFFICES ASSUME Init
               PROVE  IInv
    OBVIOUS
  <1>1. /\ exists = FALSE /\ gen = 0 /\ persistent = FALSE /\ needsSync = FALSE
        /\ terms = [i \in Ids |-> None]
        /\ shell = [s \in Sessions |-> "unused"]
        /\ written = [s \in Sessions |-> 0]
        /\ chan = [s \in Sessions |-> <<>>]
        /\ buffer = [s \in Sessions |-> <<>>]
        /\ active = [s \in Sessions |-> FALSE]
        /\ pending = [s \in Sessions |-> None]
        /\ reported = {}
        /\ conn = [c \in Conns |-> "out"]
        /\ pass = [c \in Conns |-> IdleAt("none")]
        /\ past = [s \in Sessions |-> <<>>] /\ told = {}
        /\ opener = [s \in Sessions |-> None] /\ taken = {} /\ missed = FALSE
    BY DEF Init
  <1>2. /\ pass \in [Conns -> Pass]
        /\ \A c \in Conns :
             /\ pass[c] = IdleAt("none") /\ pass[c].at = "none"
             /\ pass[c].found = {} /\ pass[c].todo = {} /\ pass[c].cur = <<>>
             /\ \A s \in Sessions : pass[c].out[s] = <<>> /\ ~IsCur(c, s)
    BY <1>1, IdleLemma DEF IsCur
  <1>3. TypeOK
    <2>1. /\ chan \in [Sessions -> Chunks] /\ buffer \in [Sessions -> Chunks] /\ past \in [Sessions -> Chunks]
      BY <1>1, ChunksLemma
    <2>2. \A s \in Sessions : Len(chan[s]) <= ChanSize
      <3>1. Len(<<>>) = 0 /\ 0 <= ChanSize
        BY TerminalAssumption
      <3> QED BY <1>1, <3>1
    <2>3. gen \in 0..Cardinality(Conns) /\ written \in [Sessions -> 0..MaxOutput]
      <3>1. Cardinality(Conns) \in Nat
        BY FS_CardinalityType, TerminalAssumption
      <3> QED BY <1>1, <3>1, TerminalAssumption
    <2> QED BY <1>1, <1>2, <2>1, <2>2, <2>3 DEF TypeOK
  <1>4. Threads
    BY <1>1, <1>2 DEF Threads
  <1>5. Generations
    <2> DEFINE D == {c \in Conns : conn[c] # "out"}
    <2>1. D = {}
      BY <1>1
    <2> HIDE DEF D
    <2>2. gen = 0 /\ Cardinality(D) = 0
      BY <1>1, <2>1, FS_EmptySet
    <2> QED BY <2>2 DEF Generations, D
  <1>6. UnusedIsFresh
    BY <1>1, <1>2 DEF UnusedIsFresh, InService
  <1>7. OneId /\ ReadOnce /\ Replays /\ StreamIsWhole /\ FoundIsRead /\ ToldIsSent
    BY <1>1, <1>2 DEF OneId, ReadOnce, Replays, StreamIsWhole, FoundIsRead, ToldIsSent
  <1>8. NonPersistentIsServed
    BY <1>1 DEF NonPersistentIsServed, Serving
  <1> QED BY <1>3, <1>4, <1>5, <1>6, <1>7, <1>8 DEF IInv

(* Every step keeps it.                                                    *)
LEMMA NextIInv == IInv /\ [Next]_vars => IInv'
  <1> SUFFICES ASSUME IInv, [Next]_vars
               PROVE  IInv'
    OBVIOUS
  <1>1. ASSUME NEW s \in Sessions, Output(s) \/ ShellExits(s)
        PROVE  IInv'
    BY <1>1, OutputStep, ShellExitsStep
  <1>2. ASSUME NEW c \in Conns, NEW p \in BOOLEAN, Attach(c, p) \/ SetPersistent(c, p)
        PROVE  IInv'
    BY <1>2, AttachStep, SetPersistentStep
  <1>3. ASSUME NEW c \in Conns, NEW i \in Ids, HandleOpen(c, i) \/ HandleClose(c, i)
        PROVE  IInv'
    BY <1>3, HandleOpenStep, HandleCloseStep
  <1>4. ASSUME NEW c \in Conns, Disconnect(c) \/ Thread(c)
        PROVE  IInv'
    BY <1>4, DisconnectStep, EnterStep, MissStep, ReadPersistenceStep, ListSessionsStep, CheckFinishedStep, DrainStep, RespondStep, CleanClosedStep,
       ExitStep, RemoveAtExitStep DEF Thread
  <1>5. CASE CleanupInactive
    BY <1>5, CleanupInactiveStep
  <1>6. CASE UNCHANGED vars
    <2>1. UNCHANGED <<service, sessions, conn, pass, history, missed>>
      BY <1>6 DEF vars
    <2>2. missed' \in BOOLEAN /\ pass' \in [Conns -> Pass] /\ Threads' /\ NonPersistentIsServed'
      BY <2>1 DEF IInv, TypeOK, Threads, NonPersistentIsServed, Serving, service
    <2> QED BY <2>1, <2>2, PassKeeps
  <1> QED BY <1>1, <1>2, <1>3, <1>4, <1>5, <1>6 DEF Next

(* The invariant the theorems below are read off.                          *)
THEOREM Invariance == Spec => []IInv
  BY InitIInv, NextIInv, PTL DEF Spec

(* Every variable keeps its type, whatever the connections, the shells and *)
(* the threads that read them do.                                          *)
THEOREM TypeCorrect == Spec => []TypeOK
  <1>1. IInv => TypeOK
    BY DEF IInv
  <1> QED BY <1>1, Invariance, PTL

(* What whoever opened a terminal is sent of it is its history, from where *)
(* the replay began, without a gap and without anything twice, across      *)
(* reconnections, replays and the passes of threads that have not ended    *)
(* yet: read_outputs of terminal_service.rs, for any number of connections *)
(* and terminals.                                                          *)
THEOREM Whole == Spec => []StreamIsWhole
  <1>1. IInv => StreamIsWhole
    BY DEF IInv
  <1> QED BY <1>1, Invariance, PTL

(* Who is told that a terminal has closed was sent all of its output from  *)
(* where the replay began before: read_outputs looks whether the shell has *)
(* ended before it empties the channel.                                    *)
THEOREM ClosedLast == Spec => []DataBeforeClosed
  <1>1. IInv => DataBeforeClosed
    <2> SUFFICES ASSUME IInv, NEW s \in Sessions, opener[s] # None, s \notin taken, s \in told
                 PROVE  chan[s] = <<>> /\ pending[s] = None /\ past[s] = buffer[s]
      BY DEF DataBeforeClosed
    <2>1. Settled(s) /\ InFlight(opener[s], s) = <<>>
      BY DEF IInv, ToldIsSent
    <2>2. past[s] \in Chunks
      BY DEF IInv, TypeOK
    <2>3. past[s] \o <<>> = past[s]
      BY <2>2, ChunksLemma
    <2> QED BY <2>1, <2>3 DEF Settled
  <1> QED BY <1>1, Invariance, PTL

(* A service that is not persistent has a connection or a thread that is   *)
(* going to remove it (the end of run in terminal_service.rs), unless the  *)
(* last connection left before its thread had begun.                       *)
THEOREM Served == Spec => []NonPersistentIsServed
  <1>1. IInv => NonPersistentIsServed
    BY DEF IInv
  <1> QED BY <1>1, Invariance, PTL
-----------------------------------------------------------------------------
(* The refinement: each terminal is a Stream to whoever opened it.         *)

Prefix(a, b) == \E e \in Chunks : b = a \o e

(* What has been sent to the opener of a session, and what is about to be. *)
Total(s) == past[s] \o InFlight(opener[s], s)

(* Of a stopped session, which is not active any more, StreamIsWhole says  *)
(* nothing.                                                                *)
SentIsPrefix == \A s \in Sessions : Followed(s) => Prefix(Total(s), buffer[s])

SIInv == IInv /\ SentIsPrefix

(* What every step does to a session: a step of Stream, or none; and if it *)
(* leaves the session inactive, it sends nothing, or what is left to send. *)
Streams(s) == UNCHANGED Stream(s)!state \/ Stream(s)!Next
Keeps(s) == Followed(s)' /\ ~active'[s] =>
              \/ Followed(s) /\ Total(s)' = Total(s) /\ Prefix(buffer[s], buffer'[s])
              \/ Prefix(Total(s)', buffer'[s])
Moves == \A s \in Sessions : Streams(s) /\ Keeps(s)

(* Prefixes of chunks.                                                     *)
LEMMA PrefixLemma ==
  /\ \A a \in Chunks : Prefix(a, a) /\ Prefix(<<>>, a)
  /\ \A a, b \in Chunks : Prefix(a, a \o b)
  /\ \A a, b, d \in Chunks : Prefix(a, b) /\ Prefix(b, d) => Prefix(a, d)
  <1>1. \A a \in Chunks : Prefix(a, a) /\ Prefix(<<>>, a)
    BY ChunksLemma DEF Prefix
  <1>2. \A a, b \in Chunks : Prefix(a, a \o b)
    BY DEF Prefix
  <1>3. ASSUME NEW a \in Chunks, NEW b \in Chunks, NEW d \in Chunks, Prefix(a, b), Prefix(b, d)
        PROVE  Prefix(a, d)
    <2>1. PICK e \in Chunks : b = a \o e
      BY <1>3 DEF Prefix
    <2>2. PICK f \in Chunks : d = b \o f
      BY <1>3 DEF Prefix
    <2>3. d = a \o (e \o f) /\ e \o f \in Chunks
      BY <2>1, <2>2, ChunksAssociate, ChunksLemma
    <2> QED BY <2>3 DEF Prefix
  <1> QED BY <1>1, <1>2, <1>3

(* They are prefixes as Stream understands it.                             *)
LEMMA StreamPrefix ==
  ASSUME NEW s \in Sessions, NEW a \in Chunks, NEW b \in Chunks, Prefix(a, b)
  PROVE  Stream(s)!IsPrefixOf(a, b)
  <1>1. PICK e \in Chunks : b = a \o e
    BY DEF Prefix
  <1> DEFINE S == 1..MaxOutput
  <1>2. a \in Seq(S) /\ e \in Seq(S)
    BY DEF Chunks
  <1> HIDE DEF S
  <1>3. /\ Len(a) \in Nat /\ Len(e) \in Nat /\ Len(b) = Len(a) + Len(e)
        /\ \A n \in 1..Len(a) : b[n] = a[n]
    BY <1>1, <1>2, ConcatProperties
  <1> QED BY <1>3 DEF Stream!IsPrefixOf

(* Nothing of the session changes that a reader sees.                      *)
LEMMA StaysStreams ==
  ASSUME NEW s \in Sessions,
         opener'[s] = opener[s], past'[s] = past[s],
         s \in told' <=> s \in told, s \in taken' <=> s \in taken,
         buffer'[s] \o chan'[s] = buffer[s] \o chan[s],
         shell'[s] = "stopped" <=> shell[s] = "stopped"
  PROVE  Streams(s)
  <1>1. (Followed(s)' <=> Followed(s)) /\ Followed(s) \in BOOLEAN /\ Followed(s)' \in BOOLEAN
    BY DEF Followed
  <1> QED BY <1>1 DEF Streams, Stream!state

(* What a step leaves of the output: all, or what stop() leaves.           *)
Remains(s) ==
  \/ buffer'[s] \o chan'[s] = buffer[s] \o chan[s] /\ (shell[s] = "stopped" => shell'[s] = "stopped")
  \/ buffer'[s] = buffer[s] /\ chan'[s] = <<>> /\ shell'[s] = "stopped"

(* Either is what Stream allows.                                           *)
LEMMA RemainsLemma ==
  ASSUME TypeOK, TypeOK', NEW s \in Sessions, Remains(s)
  PROVE  /\ Stream(s)!Remain
         /\ shell'[s] = "stopped" => Stream(s)!IsPrefixOf(buffer'[s] \o chan'[s], buffer[s] \o chan[s])
  <1>1. buffer[s] \in Chunks /\ chan[s] \in Chunks /\ buffer[s] \o chan[s] \in Chunks
    BY ChunksLemma DEF TypeOK
  <1>2. CASE buffer'[s] \o chan'[s] = buffer[s] \o chan[s] /\ (shell[s] = "stopped" => shell'[s] = "stopped")
    <2>1. Stream(s)!IsPrefixOf(buffer[s] \o chan[s], buffer[s] \o chan[s])
      BY <1>1, PrefixLemma, StreamPrefix
    <2> QED BY <1>2, <2>1 DEF Stream!Remain
  <1>3. CASE buffer'[s] = buffer[s] /\ chan'[s] = <<>> /\ shell'[s] = "stopped"
    <2>1. buffer'[s] \o chan'[s] = buffer[s]
      BY <1>1, <1>3, ChunksLemma
    <2>2. Stream(s)!IsPrefixOf(buffer[s], buffer[s] \o chan[s])
      BY <1>1, PrefixLemma, StreamPrefix
    <2> QED BY <1>3, <2>1, <2>2 DEF Stream!Remain
  <1> QED BY <1>2, <1>3 DEF Remains

(* Nobody is to be sent the whole of it any more.                          *)
LEMMA ForgetsStreams ==
  ASSUME TypeOK, TypeOK', NEW s \in Sessions, ~Followed(s)', Remains(s)
  PROVE  Streams(s)
  <1>1. Stream(s)!Remain
    BY RemainsLemma
  <1>2. Stream(s)!Forget
    BY <1>1 DEF Stream!Forget
  <1> QED BY <1>2 DEF Streams, Stream!Next

(* The terminal is stopped, and has not lost what its reader is past.      *)
LEMMA StopsStreams ==
  ASSUME SIInv, IInv', NEW s \in Sessions, Followed(s), shell'[s] = "stopped", Remains(s),
         opener'[s] = opener[s], past'[s] = past[s], Prefix(buffer[s], buffer'[s]),
         s \in told' <=> s \in told, s \in taken' <=> s \in taken
  PROVE  Streams(s)
  <1>1. /\ TypeOK /\ TypeOK' /\ past[s] \in Chunks /\ buffer[s] \in Chunks
        /\ buffer'[s] \in Chunks /\ chan'[s] \in Chunks /\ opener[s] \in Conns
    BY DEF SIInv, IInv, TypeOK, Followed
  <1>2. InFlight(opener[s], s) \in Chunks
    BY <1>1 DEF SIInv, IInv, Threads, Pass, InFlight
  <1>3. Total(s) \in Chunks /\ Prefix(past[s], Total(s)) /\ Prefix(Total(s), buffer[s])
    BY <1>1, <1>2, ChunksLemma, PrefixLemma DEF SIInv, SentIsPrefix, Total
  <1>4. buffer'[s] \o chan'[s] \in Chunks /\ Prefix(buffer'[s], buffer'[s] \o chan'[s])
    BY <1>1, ChunksLemma, PrefixLemma
  <1>5. Prefix(past[s], buffer[s])
    BY <1>1, <1>3, PrefixLemma
  <1>6. Prefix(past[s], buffer'[s])
    BY <1>1, <1>5, PrefixLemma
  <1>7. Prefix(past[s], buffer'[s] \o chan'[s])
    BY <1>1, <1>4, <1>6, PrefixLemma
  <1>8. /\ Stream(s)!IsPrefixOf(past[s], buffer'[s] \o chan'[s])
        /\ Stream(s)!IsPrefixOf(buffer'[s] \o chan'[s], buffer[s] \o chan[s])
    BY <1>1, <1>4, <1>7, StreamPrefix, RemainsLemma
  <1>9. Followed(s)'
    BY DEF Followed
  <1>10. Stream(s)!Stop
    BY <1>8, <1>9 DEF Stream!Stop
  <1> QED BY <1>10 DEF Streams, Stream!Next

(* Somebody opens the terminal: it may be past some of what is old.        *)
LEMMA OpensStreams ==
  ASSUME TypeOK, TypeOK', NEW s \in Sessions, NEW c \in Conns, Followed(s)', opener'[s] = c, s \notin told',
         Prefix(past'[s], buffer[s]),
         past'[s] = <<>> \/ (ReplayMax < Len(buffer[s]) /\ Len(past'[s]) < Len(buffer[s])),
         buffer'[s] = buffer[s], chan'[s] = chan[s],
         shell'[s] = "stopped" <=> shell[s] = "stopped"
  PROVE  Streams(s)
  <1> DEFINE o == buffer[s] \o chan[s]
  <1>1. buffer[s] \in Chunks /\ chan[s] \in Chunks /\ past'[s] \in Chunks /\ o \in Chunks
    BY ChunksLemma DEF TypeOK
  <1>2. Stream(s)!IsPrefixOf(past'[s], o)
    <2>1. Prefix(buffer[s], o)
      BY <1>1, PrefixLemma
    <2>2. Prefix(past'[s], o)
      BY <1>1, <2>1, PrefixLemma
    <2> QED BY <1>1, <2>2, StreamPrefix
  <1>3. Len(o) >= Len(buffer[s]) /\ Len(o) \in Nat /\ Len(buffer[s]) \in Nat /\ Len(past'[s]) \in Nat
    <2> DEFINE S == 1..MaxOutput
    <2>1. buffer[s] \in Seq(S) /\ chan[s] \in Seq(S) /\ past'[s] \in Seq(S)
      BY <1>1 DEF Chunks
    <2> HIDE DEF S
    <2>2. Len(o) = Len(buffer[s]) + Len(chan[s]) /\ Len(buffer[s]) \in Nat /\ Len(chan[s]) \in Nat
      BY <2>1, ConcatProperties
    <2>3. Len(past'[s]) \in Nat
      BY <2>1, LenProperties
    <2>4. \A x, y \in Nat : x + y >= x /\ x + y \in Nat
      OBVIOUS
    <2> HIDE DEF o
    <2> QED BY ONLY <2>2, <2>3, <2>4
  <1> HIDE DEF o
  <1>4. Len(o) <= ReplayMax => past'[s] = <<>>
    BY <1>3, TerminalAssumption
  <1>5. o # <<>> => past'[s] # o
    BY <1>3
  <1>6. Stream(s)!Open(c)
    BY <1>2, <1>4, <1>5 DEF Stream!Open, o
  <1> QED BY <1>6 DEF Streams, Stream!Next

(* The shell writes a chunk more.                                          *)
LEMMA WritesStreams ==
  ASSUME TypeOK, NEW s \in Sessions, NEW x \in Chunks, Len(x) = 1,
         s \notin told, shell[s] # "stopped", shell'[s] # "stopped",
         UNCHANGED <<buffer, history>>, chan'[s] = chan[s] \o x
  PROVE  Streams(s)
  <1> DEFINE o == buffer[s] \o chan[s]
  <1>1. buffer[s] \in Chunks /\ chan[s] \in Chunks /\ o \in Chunks
    BY ChunksLemma DEF TypeOK
  <1>2. buffer'[s] \o chan'[s] = o \o x
    <2>1. \A a, b \in Chunks : a \o (b \o x) = (a \o b) \o x
      BY ChunksAssociate
    <2>2. buffer[s] \o (chan[s] \o x) = (buffer[s] \o chan[s]) \o x
      BY ONLY <1>1, <2>1
    <2> QED BY <2>2
  <1>3. Stream(s)!IsPrefixOf(o, o \o x)
    <2>1. o \o x \in Chunks /\ Prefix(o, o \o x)
      BY <1>1, ChunksLemma, PrefixLemma
    <2> QED BY <1>1, <2>1, StreamPrefix
  <1>4. Len(o \o x) = Len(o) + 1
    <2> DEFINE S == 1..MaxOutput
    <2>1. o \in Seq(S) /\ x \in Seq(S)
      BY <1>1 DEF Chunks
    <2> HIDE DEF S, o
    <2> QED BY <2>1, ConcatProperties
  <1> HIDE DEF o
  <1>5. (Followed(s)' <=> Followed(s)) /\ opener'[s] = opener[s] /\ past'[s] = past[s] /\ told' = told
    BY DEF Followed, history
  <1>6. Stream(s)!Write
    BY <1>2, <1>3, <1>4, <1>5 DEF Stream!Write, o
  <1> QED BY <1>6 DEF Streams, Stream!Next

(* No step but one that sends, opens, stops or writes is seen.             *)
LEMMA QuietMoves ==
  ASSUME IInv, UNCHANGED <<buffer, chan, history>>,
         \A d \in Conns, s \in Sessions : InFlight(d, s)' = InFlight(d, s),
         \A s \in Sessions : (shell'[s] = "stopped" <=> shell[s] = "stopped")
  PROVE  Moves
  <1> SUFFICES ASSUME NEW s \in Sessions
               PROVE  Streams(s) /\ Keeps(s)
    BY DEF Moves
  <1>1. Streams(s)
    BY StaysStreams DEF history
  <1>2. opener[s] \in Conns \cup {None} /\ buffer[s] \in Chunks
    BY DEF IInv, TypeOK
  <1>3. Followed(s) => Total(s)' = Total(s)
    BY <1>2 DEF Followed, Total, history
  <1>4. Keeps(s)
    BY <1>2, <1>3, PrefixLemma DEF Keeps, Followed, history
  <1> QED BY <1>1, <1>4

(* What is left of the steps that are not seen.                            *)
LEMMA UnseenMoves ==
  ASSUME IInv, UNCHANGED <<buffer, chan, pass, history>>,
         \A s \in Sessions : (shell'[s] = "stopped" <=> shell[s] = "stopped")
  PROVE  Moves
  <1>1. \A d \in Conns, s \in Sessions : InFlight(d, s)' = InFlight(d, s)
    BY DEF InFlight
  <1> QED BY <1>1, QuietMoves

(* The shell writes to whoever opened it.                                  *)
LEMMA OutputMoves ==
  ASSUME IInv, NEW s \in Sessions, Output(s)
  PROVE  Moves
  <1>1. /\ shell[s] = "running" /\ written[s] < MaxOutput
        /\ chan' = [chan EXCEPT ![s] = IF Len(@) < ChanSize THEN Append(@, written[s] + 1) ELSE @]
        /\ UNCHANGED <<shell, buffer, active, pass, history>>
    BY DEF Output
  <1>2. /\ chan \in [Sessions -> Chunks] /\ buffer \in [Sessions -> Chunks] /\ written[s] \in 0..MaxOutput
        /\ opener \in [Sessions -> Conns \cup {None}]
    BY DEF IInv, TypeOK
  <1> SUFFICES ASSUME NEW t \in Sessions
               PROVE  Streams(t) /\ Keeps(t)
    BY DEF Moves
  <1>3. Keeps(t)
    <2>1. Followed(t) => Total(t)' = Total(t)
      BY <1>1 DEF Followed, Total, InFlight, history
    <2> QED BY <1>1, <1>2, <2>1, PrefixLemma DEF Keeps, Followed, history
  <1>4. ASSUME chan'[t] = chan[t]
        PROVE  Streams(t)
    <2>1. /\ opener'[t] = opener[t] /\ past'[t] = past[t] /\ told' = told /\ taken' = taken
          /\ buffer'[t] = buffer[t] /\ shell'[t] = shell[t]
      BY <1>1 DEF history
    <2> QED BY <1>4, <2>1, StaysStreams
  <1>5. ASSUME chan'[t] # chan[t]
        PROVE  Streams(t)
    <2>1. t = s /\ chan'[t] = Append(chan[t], written[s] + 1)
      BY <1>1, <1>2, <1>5
    <2>2. written[s] + 1 \in 1..MaxOutput
      BY <1>1, <1>2, TerminalAssumption
    <2> DEFINE x == <<written[s] + 1>>
    <2>3. x \in Chunks /\ Append(chan[t], written[s] + 1) = chan[t] \o x /\ Len(x) = 1
      BY <1>2, <2>2 DEF Chunks
    <2> HIDE DEF x
    <2>4. t \notin told
      BY <1>1, <2>1 DEF IInv, ToldIsSent
    <2>5. shell[t] # "stopped" /\ shell'[t] # "stopped" /\ TypeOK
      BY <1>1, <2>1 DEF IInv
    <2> QED BY <1>1, <2>1, <2>3, <2>4, <2>5, WritesStreams
  <1> QED BY <1>3, <1>4, <1>5

(* What a pass takes from the channel goes into the history.               *)
LEMMA DrainMoves ==
  ASSUME SIInv, IInv', NEW c \in Conns, Drain(c)
  PROVE  Moves
  <1>1. /\ \A t \in Sessions : opener[t] # None /\ active[t] /\ t \notin taken' =>
             past[t] \o InFlight(opener[t], t)' \o Replay(t)' = buffer'[t]
        /\ \A t \in Sessions : ~active[t] => \A d \in Conns : InFlight(d, t)' = InFlight(d, t)
        /\ \A t \in Sessions : \/ buffer'[t] = buffer[t] \o chan[t] /\ chan'[t] = <<>>
                               \/ buffer'[t] = buffer[t] /\ chan'[t] = chan[t]
        /\ \A t \in Sessions : t \in taken => t \in taken'
        /\ \A t \in Sessions : shell'[t] = shell[t] \/ shell'[t] = "stopped"
        /\ UNCHANGED <<past, told, opener>>
    BY DrainStep DEF SIInv
  <1> SUFFICES ASSUME NEW t \in Sessions
               PROVE  Streams(t) /\ Keeps(t)
    BY DEF Moves
  <1>2. /\ TypeOK /\ TypeOK' /\ chan[t] \in Chunks /\ buffer[t] \in Chunks
        /\ opener[t] \in Conns \cup {None}
    BY DEF SIInv, IInv, TypeOK
  <1>3. buffer'[t] \o chan'[t] = buffer[t] \o chan[t] /\ Prefix(buffer[t], buffer'[t])
    <2>1. buffer[t] \o chan[t] \in Chunks /\ (buffer[t] \o chan[t]) \o <<>> = buffer[t] \o chan[t]
      BY <1>2, ChunksLemma
    <2>2. Prefix(buffer[t], buffer[t]) /\ Prefix(buffer[t], buffer[t] \o chan[t])
      BY <1>2, PrefixLemma
    <2> QED BY <1>1, <2>1, <2>2
  <1>4. Remains(t)
    BY <1>1, <1>3 DEF Remains
  <1>5. Streams(t)
    <2>1. CASE ~Followed(t)'
      BY <1>2, <1>4, <2>1, ForgetsStreams
    <2>2. CASE Followed(t)'
      <3>1. Followed(t) /\ (t \in taken' <=> t \in taken)
        BY <1>1, <2>2 DEF Followed
      <3>2. CASE shell'[t] = "stopped"
        BY <1>1, <1>3, <1>4, <3>1, <3>2, StopsStreams
      <3>3. CASE shell'[t] # "stopped"
        BY <1>1, <1>3, <3>1, <3>3, StaysStreams
      <3> QED BY <3>2, <3>3
    <2> QED BY <2>1, <2>2
  <1>6. Keeps(t)
    <2> SUFFICES ASSUME Followed(t)'
                 PROVE  \/ Followed(t) /\ Total(t)' = Total(t)
                        \/ Prefix(Total(t)', buffer'[t])
      BY <1>3 DEF Keeps
    <2>1. Followed(t) /\ opener[t] \in Conns /\ t \notin taken'
      BY <1>1, <1>2 DEF Followed
    <2>2. CASE active[t]
      <3>1. buffer'[t] = Total(t)' \o Replay(t)'
        BY <1>1, <2>1, <2>2 DEF Followed, Total
      <3>2. Replay(t)' \in Chunks
        BY <1>2, ChunksLemma DEF TypeOK, Replay
      <3> QED BY <3>1, <3>2 DEF Prefix
    <2>3. CASE ~active[t]
      BY <1>1, <2>1, <2>3 DEF Total
    <2> QED BY <2>2, <2>3
  <1> QED BY <1>5, <1>6

(* Sessions are stopped, and their readers told nothing.                   *)
LEMMA StopMoves ==
  ASSUME SIInv, IInv', NEW ss, Stop(ss), UNCHANGED <<pass, history>>
  PROVE  Moves
  <1>1. TypeOK /\ TypeOK'
    BY DEF SIInv, IInv
  <1>2. /\ buffer' = buffer
        /\ \A s \in Sessions :
             /\ shell'[s] = IF s \in ss THEN "stopped" ELSE shell[s]
             /\ chan'[s] = IF s \in ss THEN <<>> ELSE chan[s]
    BY <1>1, StopLemma
  <1> SUFFICES ASSUME NEW s \in Sessions
               PROVE  Streams(s) /\ Keeps(s)
    BY DEF Moves
  <1>3. buffer[s] \in Chunks /\ Prefix(buffer[s], buffer'[s]) /\ Remains(s)
    BY <1>1, <1>2, PrefixLemma DEF TypeOK, Remains
  <1>4. (Followed(s)' <=> Followed(s)) /\ (Followed(s) => Total(s)' = Total(s))
    BY DEF Followed, Total, InFlight, history
  <1>5. Streams(s)
    <2>1. CASE ~Followed(s)
      BY <1>1, <1>3, <1>4, <2>1, ForgetsStreams
    <2>2. CASE Followed(s) /\ s \in ss
      BY <1>2, <1>3, <2>2, StopsStreams DEF history
    <2>3. CASE s \notin ss
      BY <1>2, <2>3, StaysStreams DEF history
    <2> QED BY <2>1, <2>2, <2>3
  <1>6. Keeps(s)
    BY <1>3, <1>4 DEF Keeps
  <1> QED BY <1>5, <1>6

(* A pass ends: its responses are sent; what is removed is stopped.        *)
LEMMA ResponsesMoves ==
  ASSUME SIInv, IInv', NEW c \in Conns, Processed(c), SendResponses(c),
         NEW ss \in SUBSET InService, Stop(ss),
         UNCHANGED <<conn, opener, taken>>
  PROVE  Moves
  <1>1. IInv /\ TypeOK /\ TypeOK' /\ SentIsPrefix
    BY DEF SIInv, IInv
  <1>2. /\ past' \in [Sessions -> Chunks] /\ told' \subseteq Sessions
        /\ \A s \in Sessions : opener[s] # c => past'[s] = past[s]
        /\ \A s \in Sessions : opener[s] = c => past'[s] = past[s] \o pass[c].out[s]
        /\ \A s \in told' : s \in told \/ (opener[s] = c /\ \E i \in Ids : <<i, s>> \in pass[c].found)
        /\ told \subseteq told'
        /\ \A s \in Sessions : opener[s] # None =>
             past'[s] \o pass'[opener[s]].out[s] = past[s] \o pass[opener[s]].out[s]
    BY <1>1, ResponsesLemma
  <1>3. \A s \in Sessions : ~IsCur(c, s)
    BY DEF Processed, IsCur
  <1>4. /\ buffer' = buffer
        /\ \A s \in Sessions :
             /\ shell'[s] = IF s \in ss THEN "stopped" ELSE shell[s]
             /\ chan'[s] = IF s \in ss THEN <<>> ELSE chan[s]
    BY <1>1, StopLemma
  <1> SUFFICES ASSUME NEW s \in Sessions
               PROVE  Streams(s) /\ Keeps(s)
    BY DEF Moves
  <1>5. /\ buffer[s] \in Chunks /\ chan[s] \in Chunks /\ chan'[s] \in Chunks /\ past[s] \in Chunks
        /\ past'[s] \in Chunks /\ opener[s] \in Conns \cup {None}
    BY <1>1, <1>2 DEF TypeOK
  <1>6. \A d \in Conns : InFlight(d, s) \in Chunks
    BY <1>1 DEF IInv, Threads, Pass, InFlight
  <1>7. Remains(s)
    BY <1>4 DEF Remains
  <1>8. Followed(s)' <=> Followed(s)
    BY DEF Followed
  <1>9. Keeps(s)
    BY <1>2, <1>4, <1>5, <1>8, PrefixLemma DEF Keeps, Total, Followed, InFlight
  <1>10. ASSUME Followed(s), s \in told
         PROVE  Streams(s)
    <2>1. Settled(s) /\ InFlight(opener[s], s) = <<>>
      BY <1>1, <1>10 DEF IInv, ToldIsSent, Followed
    <2>2. past'[s] = past[s] /\ past[s] = buffer[s] /\ chan[s] = <<>> /\ s \in told'
      <3>1. past[s] \o <<>> = past[s]
        BY <1>5, ChunksLemma
      <3> QED BY <1>2, <1>10, <2>1, <3>1 DEF Settled, InFlight
    <2>3. buffer'[s] \o chan'[s] = buffer[s] \o chan[s]
      BY <1>4, <2>2
    <2>4. CASE s \notin ss
      BY <1>4, <1>10, <2>2, <2>3, <2>4, StaysStreams
    <2>5. CASE s \in ss
      <3>1. shell'[s] = "stopped"
        BY <1>4, <2>5
      <3>2. Stream(s)!IsPrefixOf(past[s], buffer'[s] \o chan'[s])
        <4>1. Prefix(buffer[s], buffer[s] \o chan[s]) /\ buffer[s] \o chan[s] \in Chunks
          BY <1>5, PrefixLemma, ChunksLemma
        <4> QED BY <1>5, <2>2, <2>3, <4>1, StreamPrefix
      <3>3. Stream(s)!IsPrefixOf(buffer'[s] \o chan'[s], buffer[s] \o chan[s])
        BY <1>1, <1>7, <3>1, RemainsLemma
      <3>4. Stream(s)!Stop
        BY <1>8, <1>10, <2>2, <3>1, <3>2, <3>3 DEF Stream!Stop
      <3> QED BY <3>4 DEF Streams, Stream!Next
    <2> QED BY <2>4, <2>5
  <1>11. ASSUME Followed(s), s \notin told, s \in told'
         PROVE  Streams(s)
    <2>1. opener[s] = c /\ \E i \in Ids : <<i, s>> \in pass[c].found
      BY <1>2, <1>11
    <2>2. Settled(s)
      BY <1>1, <1>3, <1>11, <2>1 DEF IInv, FoundIsRead, Followed
    <2>3. past'[s] = buffer[s] /\ chan[s] = <<>> /\ buffer'[s] \o chan'[s] = buffer[s] \o chan[s]
          /\ buffer[s] \o chan[s] = buffer[s]
      BY <1>2, <1>4, <1>5, <2>1, <2>2, ChunksLemma DEF Settled, InFlight
    <2>4. Stream(s)!Remain
      BY <1>1, <1>7, RemainsLemma
    <2>5. opener[s] # None /\ opener'[s] = opener[s]
      BY <1>11 DEF Followed
    <2>6. Stream(s)!Close
      BY <1>8, <1>11, <2>3, <2>4, <2>5 DEF Stream!Close
    <2> QED BY <2>6 DEF Streams, Stream!Next
  <1>12. ASSUME Followed(s), s \notin told'
         PROVE  Streams(s)
    <2>1. s \notin told /\ opener[s] # None /\ opener'[s] = opener[s] /\ opener[s] \in Conns
      BY <1>2, <1>5, <1>12 DEF Followed
    <2>2. Total(s) \in Chunks /\ Prefix(Total(s), buffer[s])
      BY <1>1, <1>5, <1>6, <1>12, <2>1, ChunksLemma DEF SentIsPrefix, Total
    <2>3. Prefix(past[s], past'[s]) /\ Prefix(past'[s], Total(s))
      <3>1. CASE opener[s] = c
        <4>1. past'[s] = Total(s) /\ Total(s) = past[s] \o InFlight(c, s)
          BY <1>2, <3>1 DEF Total, InFlight
        <4> QED BY <1>5, <1>6, <2>2, <4>1, PrefixLemma
      <3>2. CASE opener[s] # c
        <4>1. past'[s] = past[s]
          BY <1>2, <3>2
        <4> QED BY <1>5, <1>6, <2>1, <4>1, PrefixLemma DEF Total
      <3> QED BY <3>1, <3>2
    <2>4. Prefix(past'[s], buffer'[s] \o chan'[s]) /\ buffer'[s] \o chan'[s] \in Chunks
      <3>1. buffer'[s] = buffer[s] /\ buffer[s] \o chan'[s] \in Chunks /\ Prefix(buffer[s], buffer[s] \o chan'[s])
        BY <1>4, <1>5, ChunksLemma, PrefixLemma
      <3>2. Prefix(past'[s], buffer[s])
        BY <1>5, <2>2, <2>3, PrefixLemma
      <3> QED BY <1>5, <3>1, <3>2, PrefixLemma
    <2>5. Stream(s)!IsPrefixOf(past[s], past'[s]) /\ Stream(s)!IsPrefixOf(past'[s], buffer'[s] \o chan'[s])
      BY <1>5, <2>3, <2>4, StreamPrefix
    <2>6. Stream(s)!Remain
      BY <1>1, <1>7, RemainsLemma
    <2>7. Stream(s)!Deliver
      BY <1>8, <1>12, <2>1, <2>5, <2>6 DEF Stream!Deliver
    <2> QED BY <2>7 DEF Streams, Stream!Next
  <1>13. ASSUME ~Followed(s)
         PROVE  Streams(s)
    BY <1>1, <1>7, <1>8, <1>13, ForgetsStreams
  <1> QED BY <1>9, <1>10, <1>11, <1>12, <1>13

(* The end of a pass that removes nothing.                                 *)
LEMMA RespondMoves ==
  ASSUME SIInv, IInv', NEW c \in Conns, Respond(c)
  PROVE  Moves
  <1>1. /\ Processed(c) /\ SendResponses(c)
        /\ UNCHANGED <<sessions, conn, opener, taken>>
    BY DEF Respond
  <1>2. Stop({})
    BY <1>1 DEF Stop, Deactivate, sessions, SIInv, IInv, TypeOK
  <1> QED BY <1>1, <1>2, ResponsesMoves

(* The end of one that does.                                               *)
LEMMA CleanClosedMoves ==
  ASSUME SIInv, IInv', NEW c \in Conns, CleanClosed(c)
  PROVE  Moves
  <1> DEFINE ids == IF exists /\ pass[c].gen = gen THEN {f[1] : f \in pass[c].found} ELSE {}
             dropped == {terms[i] : i \in ids} \ {None}
             ss == {s \in dropped : \A d \in Conns : ~Holds(d, s)}
  <1>1. /\ Processed(c) /\ SendResponses(c) /\ Stop(ss)
        /\ UNCHANGED <<conn, opener, taken>>
    BY Zenon DEF CleanClosed
  <1>2. ids \subseteq Ids
    <2>1. pass[c].found \subseteq Ids \X Sessions
      BY DEF SIInv, IInv, Threads, Pass
    <2> QED BY <2>1
  <1> HIDE DEF ids
  <1>3. ss \in SUBSET InService
    BY <1>2 DEF InService
  <1> HIDE DEF ss
  <1> QED BY <1>1, <1>3, ResponsesMoves

(* A thread outside of a pass has nothing on its way, wherever it goes.    *)
LEMMA IdleKeeps ==
  ASSUME IInv, NEW c \in Conns, pass[c].at # "read",
         NEW at \in {"idle", "head", "remove", "done"}, At(c, at)
  PROVE  \A d \in Conns, s \in Sessions : InFlight(d, s)' = InFlight(d, s)
  <1>1. pass' = [pass EXCEPT ![c] = IdleAt(at)] /\ pass \in [Conns -> Pass]
    BY DEF At, IInv, Threads
  <1>2. \A d \in Conns : pass'[d] = IF d = c THEN IdleAt(at) ELSE pass[d]
    BY <1>1
  <1> QED BY <1>2, AtRest, IdleLemma DEF InFlight

(* Sessions are nobody's, stopped or not.                                  *)
LEMMA ForgetMoves ==
  ASSUME IInv, IInv', NEW ss, Forget(ss), buffer' = buffer,
         \A s \in Sessions : Remains(s),
         \A s \in Sessions : s \notin ss => /\ chan'[s] = chan[s] /\ shell'[s] = shell[s]
                                            /\ active'[s] <=> active[s],
         \A d \in Conns, s \in Sessions : InFlight(d, s)' = InFlight(d, s)
  PROVE  Moves
  <1> SUFFICES ASSUME NEW s \in Sessions
               PROVE  Streams(s) /\ Keeps(s)
    BY DEF Moves
  <1>1. /\ opener' = [t \in Sessions |-> IF t \in ss THEN None ELSE opener[t]]
        /\ past' = [t \in Sessions |-> IF t \in ss THEN <<>> ELSE past[t]]
        /\ told' = told \ ss /\ taken' = taken \ ss
    BY DEF Forget
  <1>2. TypeOK /\ TypeOK'
    BY DEF IInv
  <1>3. CASE s \in ss
    <2>1. ~Followed(s)'
      BY <1>1, <1>3 DEF Followed
    <2> QED BY <1>2, <2>1, ForgetsStreams DEF Keeps
  <1>4. CASE s \notin ss
    <2>1. /\ opener'[s] = opener[s] /\ past'[s] = past[s]
          /\ (s \in told' <=> s \in told) /\ (s \in taken' <=> s \in taken)
          /\ buffer'[s] \o chan'[s] = buffer[s] \o chan[s]
          /\ (shell'[s] = "stopped" <=> shell[s] = "stopped")
      BY <1>1, <1>4
    <2>2. Streams(s)
      BY <2>1, StaysStreams
    <2>3. opener[s] \in Conns \cup {None} /\ buffer[s] \in Chunks
      BY <1>2 DEF TypeOK
    <2>4. Keeps(s)
      BY <2>1, <2>3, PrefixLemma DEF Keeps, Followed, Total
    <2> QED BY <2>2, <2>4
  <1> QED BY <1>3, <1>4

(* A connection comes to the service, or makes it.                         *)
LEMMA AttachMoves ==
  ASSUME IInv, IInv', NEW c \in Conns, NEW p \in BOOLEAN, Attach(c, p)
  PROVE  Moves
  <1>1. /\ conn[c] = "out" /\ At(c, "idle") /\ UNCHANGED <<shell, chan, buffer>>
    BY DEF Attach
  <1>2. \A d \in Conns, s \in Sessions : InFlight(d, s)' = InFlight(d, s)
    <2>1. pass[c].at # "read"
      BY <1>1 DEF IInv, Threads
    <2> QED BY <1>1, <2>1, IdleKeeps
  <1>3. CASE ResetStatus(p)
    <2>1. Forget(InService) /\ active' = [s \in Sessions |-> active[s] /\ s \notin InService]
      BY <1>3 DEF ResetStatus, Deactivate
    <2>2. \A s \in Sessions : Remains(s)
      BY <1>1 DEF Remains
    <2>3. \A s \in Sessions : s \notin InService => /\ chan'[s] = chan[s] /\ shell'[s] = shell[s]
                                                   /\ active'[s] <=> active[s]
      BY <1>1, <2>1
    <2> QED BY <1>1, <1>2, <2>1, <2>2, <2>3, ForgetMoves
  <1>4. CASE UNCHANGED history
    BY <1>1, <1>2, <1>4, QuietMoves
  <1> QED BY <1>3, <1>4 DEF Attach

(* The service goes, with all its sessions.                                *)
LEMMA RemoveMoves ==
  ASSUME IInv, IInv', RemoveService,
         \A d \in Conns, s \in Sessions : InFlight(d, s)' = InFlight(d, s)
  PROVE  Moves
  <1>1. PICK ss : Stop(ss) /\ Forget(ss)
    BY DEF RemoveService
  <1>2. /\ buffer' = buffer
        /\ \A s \in Sessions :
             /\ shell'[s] = IF s \in ss THEN "stopped" ELSE shell[s]
             /\ chan'[s] = IF s \in ss THEN <<>> ELSE chan[s]
             /\ active'[s] <=> active[s] /\ s \notin ss
    BY <1>1, StopLemma DEF IInv
  <1>3. \A s \in Sessions : Remains(s)
    BY <1>2 DEF Remains
  <1> QED BY <1>1, <1>2, <1>3, ForgetMoves

(* A session, new or not, has a new reader.                                *)
LEMMA OpenedMoves ==
  ASSUME IInv, IInv', NEW c \in Conns, NEW s \in Sessions,
         UNCHANGED <<buffer, chan, pass>>,
         \A t \in Sessions : shell'[t] = "stopped" <=> shell[t] = "stopped",
         opener' = [opener EXCEPT ![s] = c], active'[s], s \notin told',
         Prefix(past'[s], buffer[s]),
         past'[s] = <<>> \/ (ReplayMax < Len(buffer[s]) /\ Len(past'[s]) < Len(buffer[s])),
         \A t \in Sessions : t # s => /\ past'[t] = past[t] /\ (t \in told' <=> t \in told)
                                      /\ (t \in taken' <=> t \in taken)
  PROVE  Moves
  <1>1. /\ TypeOK /\ TypeOK' /\ opener \in [Sessions -> Conns \cup {None}]
        /\ buffer \in [Sessions -> Chunks]
    BY DEF IInv, TypeOK
  <1>2. opener'[s] = c /\ \A t \in Sessions : t # s => opener'[t] = opener[t]
    BY <1>1
  <1> SUFFICES ASSUME NEW t \in Sessions
               PROVE  Streams(t) /\ Keeps(t)
    BY DEF Moves
  <1>3. CASE t # s
    <2>1. Streams(t)
      BY <1>2, <1>3, StaysStreams
    <2>2. \A d \in Conns : InFlight(d, t)' = InFlight(d, t)
      BY DEF InFlight
    <2>3. Keeps(t)
      BY <1>1, <1>2, <1>3, <2>2, PrefixLemma DEF Keeps, Followed, Total
    <2> QED BY <2>1, <2>3
  <1>4. CASE t = s
    <2>1. Keeps(s)
      BY DEF Keeps
    <2>2. CASE Followed(s)'
      BY <1>1, <1>2, <2>2, OpensStreams, <1>4, <2>1
    <2>3. CASE ~Followed(s)'
      <3>1. Remains(s)
        BY DEF Remains
      <3> QED BY <1>1, <1>4, <2>1, <2>3, <3>1, ForgetsStreams
    <2> QED BY <2>2, <2>3
  <1> QED BY <1>3, <1>4

(* A client opens a terminal, which may be there already.                  *)
LEMMA HandleOpenMoves ==
  ASSUME IInv, IInv', NEW c \in Conns, NEW i \in Ids, HandleOpen(c, i)
  PROVE  Moves
  <1>1. pass' = pass
    BY DEF HandleOpen
  <1>2. CASE Reopen(c, i)
    <2>1. PICK s : s = Remapped(i)[i]
      OBVIOUS
    <2>2. /\ s # None
          /\ active' = [active EXCEPT ![s] = TRUE] /\ opener' = [opener EXCEPT ![s] = c]
          /\ taken' = (IF Reading(c, s) THEN taken \cup {s} ELSE taken \ {s})
          /\ told' = told \ {s}
          /\ UNCHANGED <<shell, chan, buffer>>
      BY <1>2, <2>1 DEF Reopen
    <2>3. s \in Sessions
      BY <2>1, <2>2, RemappedLemma DEF IInv
    <2>4. PICK n \in LeftOut(s) : past' = [past EXCEPT ![s] = SubSeq(buffer[s], 1, n)]
      BY <1>2, <2>1 DEF Reopen
    <2>5. active \in [Sessions -> BOOLEAN] /\ past \in [Sessions -> Chunks] /\ TypeOK
      BY DEF IInv, TypeOK
    <2>6. active'[s] /\ past'[s] = SubSeq(buffer[s], 1, n) /\ s \notin told'
      BY <2>2, <2>3, <2>4, <2>5
    <2>7. /\ Prefix(past'[s], buffer[s])
          /\ past'[s] = <<>> \/ (ReplayMax < Len(buffer[s]) /\ Len(past'[s]) < Len(buffer[s]))
      <3> DEFINE old == SubSeq(buffer[s], 1, n)
                 new == SubSeq(buffer[s], n + 1, Len(buffer[s]))
      <3>1. /\ old \in Chunks /\ new \in Chunks /\ old \o new = buffer[s] /\ Len(old) = n
            /\ n = 0 \/ (n \in Nat /\ ReplayMax < Len(buffer[s]) /\ n < Len(buffer[s]))
        BY <2>3, <2>5, ReplayLemma
      <3>2. past'[s] = old
        BY <2>6
      <3> HIDE DEF old, new
      <3>3. Len(old) = 0 => old = <<>>
        <4> DEFINE S == 1..MaxOutput
        <4>1. old \in Seq(S)
          BY <3>1 DEF Chunks
        <4> HIDE DEF S
        <4> QED BY <4>1, EmptySeq
      <3>4. Prefix(old, buffer[s])
        BY <3>1 DEF Prefix
      <3> QED BY <3>1, <3>2, <3>3, <3>4
    <2>8. \A t \in Sessions : t # s => /\ past'[t] = past[t] /\ (t \in told' <=> t \in told)
                                       /\ (t \in taken' <=> t \in taken)
      BY <2>2, <2>4, <2>5
    <2> QED BY <1>1, <2>2, <2>3, <2>6, <2>7, <2>8, OpenedMoves
  <1>3. ASSUME NEW s \in Sessions, OpenNew(c, s)
        PROVE  Moves
    <2>1. /\ shell[s] = "unused"
          /\ shell' = [shell EXCEPT ![s] = "running"] /\ active' = [active EXCEPT ![s] = TRUE]
          /\ opener' = [opener EXCEPT ![s] = c]
          /\ UNCHANGED <<chan, buffer, past, told, taken>>
      BY <1>3 DEF OpenNew
    <2>2. active \in [Sessions -> BOOLEAN]
          /\ shell \in [Sessions -> {"unused", "running", "exited", "stopped"}]
      BY DEF IInv, TypeOK
    <2>3. past[s] = <<>> /\ s \notin told /\ Prefix(past[s], buffer[s])
      <3>1. past[s] = <<>> /\ s \notin told /\ buffer[s] \in Chunks
        BY <2>1 DEF IInv, UnusedIsFresh, TypeOK
      <3> QED BY <3>1, PrefixLemma
    <2>4. active'[s] /\ \A t \in Sessions : shell'[t] = "stopped" <=> shell[t] = "stopped"
      BY <2>1, <2>2
    <2> QED BY <1>1, <2>1, <2>3, <2>4, OpenedMoves
  <1> QED BY <1>2, <1>3 DEF HandleOpen
-----------------------------------------------------------------------------
(* The passes that are not seen.                                           *)
LEMMA ThreadMoves ==
  ASSUME SIInv, IInv', NEW c \in Conns, Thread(c)
  PROVE  Moves
  <1>1. IInv /\ pass \in [Conns -> Pass]
    BY DEF SIInv, IInv, Threads
  <1>2. CASE ReadPersistence(c) \/ (ListSessions(c) /\ exists)
    <2>1. UNCHANGED <<shell, chan, buffer, history>>
      BY <1>2 DEF ReadPersistence, ListSessions, sessions
    <2>2. \A d \in Conns : pass'[d].out = pass[d].out
      <3>1. CASE ReadPersistence(c)
        BY <1>1, <3>1 DEF ReadPersistence, Pass
      <3>2. CASE ListSessions(c) /\ exists
        <4> DEFINE r == [pass[c] EXCEPT !.at = "read", !.gen = gen,
                                        !.todo = {<<i, terms[i]>> : i \in {j \in Ids : terms[j] # None}}]
        <4>1. pass' = [pass EXCEPT ![c] = r]
          BY <1>1, <3>2 DEF ListSessions
        <4>2. r.out = pass[c].out
          BY <1>1 DEF Pass
        <4> HIDE DEF r
        <4> QED BY <1>1, <4>1, <4>2
      <3> QED BY <1>2, <3>1, <3>2
    <2> QED BY <1>1, <2>1, <2>2, QuietMoves DEF InFlight
  <1>8. CASE Enter(c) \/ Miss(c) \/ (ListSessions(c) /\ ~exists)
    <2>1. pass[c].at # "read" /\ (At(c, "head") \/ At(c, "done")) /\ UNCHANGED <<sessions, history>>
      BY <1>8 DEF Enter, Miss, ListSessions
    <2>2. \A d \in Conns, s \in Sessions : InFlight(d, s)' = InFlight(d, s)
      BY <1>1, <2>1, IdleKeeps
    <2> QED BY <1>1, <2>1, <2>2, QuietMoves DEF sessions
  <1>3. ASSUME NEW i \in Ids, NEW s \in Sessions, CheckFinished(c, i, s)
        PROVE  Moves
    <2>1. UNCHANGED <<shell, chan, buffer, history>>
      BY <1>3 DEF CheckFinished
    <2>2. \/ pass' = [pass EXCEPT ![c].todo = @ \ {<<i, s>>}]
          \/ \E f : pass' = [pass EXCEPT ![c].todo = @ \ {<<i, s>>},
                                         ![c].cur = [id |-> i, session |-> s], ![c].found = f]
      BY <1>1, <1>3 DEF CheckFinished, Pass
    <2>3. \A d \in Conns : pass'[d].out = pass[d].out
      <3>1. CASE pass' = [pass EXCEPT ![c].todo = @ \ {<<i, s>>}]
        BY <1>1, <3>1 DEF Pass
      <3>2. ASSUME NEW f, pass' = [pass EXCEPT ![c].todo = @ \ {<<i, s>>},
                                               ![c].cur = [id |-> i, session |-> s], ![c].found = f]
            PROVE  \A d \in Conns : pass'[d].out = pass[d].out
        <4> DEFINE r == [pass[c] EXCEPT !.todo = pass[c].todo \ {<<i, s>>},
                                        !.cur = [id |-> i, session |-> s], !.found = f]
        <4>1. pass' = [pass EXCEPT ![c] = r]
          BY <1>1, <3>2
        <4>2. r.out = pass[c].out
          BY <1>1 DEF Pass
        <4> HIDE DEF r
        <4> QED BY <1>1, <4>1, <4>2
      <3> QED BY <2>2, <3>1, <3>2
    <2> QED BY <1>1, <2>1, <2>3, QuietMoves DEF InFlight
  <1>4. CASE Drain(c)
    BY <1>4, DrainMoves
  <1>5. CASE Respond(c) \/ CleanClosed(c)
    BY <1>5, RespondMoves, CleanClosedMoves
  <1>6. CASE Exit(c)
    <2> DEFINE at == IF exists /\ ~persistent THEN "remove" ELSE "done"
    <2>1. pass[c].at # "read" /\ At(c, at) /\ UNCHANGED <<sessions, history, missed>>
      BY <1>6 DEF Exit
    <2>2. at \in {"head", "remove", "done"}
      OBVIOUS
    <2> HIDE DEF at
    <2>3. \A d \in Conns, s \in Sessions : InFlight(d, s)' = InFlight(d, s)
      BY <1>1, <2>1, <2>2, IdleKeeps
    <2> QED BY <1>1, <2>1, <2>3, QuietMoves DEF sessions
  <1>7. CASE RemoveAtExit(c)
    <2>1. pass[c].at # "read" /\ At(c, "done") /\ RemoveService
      BY <1>7 DEF RemoveAtExit
    <2>2. \A d \in Conns, s \in Sessions : InFlight(d, s)' = InFlight(d, s)
      BY <1>1, <2>1, IdleKeeps
    <2> QED BY <1>1, <2>1, <2>2, RemoveMoves
  <1> QED BY <1>2, <1>3, <1>4, <1>5, <1>6, <1>7, <1>8 DEF Thread

(* Every step moves every terminal as Stream does.                         *)
LEMMA NextMoves ==
  ASSUME SIInv, IInv', [Next]_vars
  PROVE  Moves
  <1>1. IInv
    BY DEF SIInv
  <1>2. ASSUME NEW s \in Sessions, Output(s) \/ ShellExits(s)
        PROVE  Moves
    <2>1. CASE Output(s)
      BY <1>1, <2>1, OutputMoves
    <2>2. CASE ShellExits(s)
      <3>1. UNCHANGED <<buffer, chan, pass, history>> /\ shell[s] = "running"
            /\ shell' = [shell EXCEPT ![s] = "exited"]
        BY <2>2 DEF ShellExits
      <3>2. \A t \in Sessions : (shell'[t] = "stopped" <=> shell[t] = "stopped")
        BY <1>1, <3>1 DEF IInv, TypeOK
      <3> QED BY <1>1, <3>1, <3>2, UnseenMoves
    <2> QED BY <1>2, <2>1, <2>2
  <1>3. ASSUME NEW c \in Conns, NEW p \in BOOLEAN, Attach(c, p) \/ SetPersistent(c, p)
        PROVE  Moves
    <2>1. CASE Attach(c, p)
      BY <1>1, <2>1, AttachMoves
    <2>2. CASE SetPersistent(c, p)
      BY <1>1, <2>2, UnseenMoves DEF SetPersistent, sessions
    <2> QED BY <1>3, <2>1, <2>2
  <1>4. ASSUME NEW c \in Conns, NEW i \in Ids, HandleOpen(c, i) \/ HandleClose(c, i)
        PROVE  Moves
    <2>1. CASE HandleOpen(c, i)
      BY <1>1, <2>1, HandleOpenMoves
    <2>2. CASE HandleClose(c, i)
      <3> DEFINE ss == {t \in {terms[i]} : \A d \in Conns : ~Holds(d, t)}
      <3>1. Stop(ss) /\ UNCHANGED <<pass, history>>
        BY Zenon, <2>2 DEF HandleClose
      <3> HIDE DEF ss
      <3> QED BY <3>1, StopMoves
    <2> QED BY <1>4, <2>1, <2>2
  <1>5. ASSUME NEW c \in Conns, Disconnect(c) \/ Thread(c)
        PROVE  Moves
    <2>1. CASE Disconnect(c)
      BY <1>1, <2>1, UnseenMoves DEF Disconnect, sessions
    <2> QED BY <1>5, <2>1, ThreadMoves
  <1>6. CASE CleanupInactive
    <2>1. RemoveService /\ pass' = pass
      BY <1>6 DEF CleanupInactive
    <2>2. \A d \in Conns, s \in Sessions : InFlight(d, s)' = InFlight(d, s)
      BY <2>1 DEF InFlight
    <2> QED BY <1>1, <2>1, <2>2, RemoveMoves
  <1>7. CASE UNCHANGED vars
    BY <1>1, <1>7, UnseenMoves DEF vars, sessions
  <1> QED BY <1>2, <1>3, <1>4, <1>5, <1>6, <1>7 DEF Next

(* The invariant of the refinement is kept: what an active reader is sent  *)
(* is known from StreamIsWhole, and of the others nothing changes.         *)
LEMMA SentStays ==
  ASSUME SIInv, IInv', Moves
  PROVE  SIInv'
  <1> SUFFICES ASSUME NEW s \in Sessions, Followed(s)'
               PROVE  \E e \in Chunks : buffer'[s] = Total(s)' \o e
    BY DEF SIInv, SentIsPrefix, Prefix
  <1>1. buffer'[s] \in Chunks /\ buffer[s] \in Chunks /\ past[s] \in Chunks
    BY DEF SIInv, IInv, TypeOK
  <1>2. CASE active'[s]
    <2>1. Total(s)' \o Replay(s)' = buffer'[s]
      BY <1>2 DEF IInv, StreamIsWhole, Followed, Total, Replay
    <2>2. Replay(s)' \in Chunks
      BY ChunksLemma DEF IInv, TypeOK, Replay
    <2> QED BY <2>1, <2>2
  <1>3. CASE ~active'[s]
    <2>0. CASE Prefix(Total(s)', buffer'[s])
      BY <2>0 DEF Prefix
    <2> SUFFICES ASSUME ~Prefix(Total(s)', buffer'[s])
                 PROVE  \E e \in Chunks : buffer'[s] = Total(s)' \o e
      BY <2>0
    <2>1. Followed(s) /\ Total(s)' = Total(s) /\ Prefix(buffer[s], buffer'[s])
      BY <1>3 DEF Moves, Keeps
    <2>2. Prefix(Total(s), buffer[s])
      BY <2>1 DEF SIInv, SentIsPrefix
    <2>3. Total(s) \in Chunks
      <3>1. opener[s] \in Conns
        BY <2>1 DEF SIInv, IInv, TypeOK, Followed
      <3>2. InFlight(opener[s], s) \in Chunks
        BY <3>1 DEF SIInv, IInv, Threads, Pass, InFlight
      <3> QED BY <1>1, <3>2, ChunksLemma DEF Total
    <2>4. Prefix(Total(s), buffer'[s])
      BY <1>1, <2>1, <2>2, <2>3, PrefixLemma
    <2> QED BY <2>1, <2>4 DEF Prefix
  <1> QED BY <1>2, <1>3

(* Every terminal is a Stream: whoever opens it is sent its output from    *)
(* the beginning, or, if there is more of it than is replayed, from some   *)
(* point before the end, in order, whole, and nothing after the message    *)
(* that it has closed; output is lost only by stop(), and never once it    *)
(* was sent.                                                               *)
(* It covers handle_open, read_outputs and remove_service of               *)
(* terminal_service.rs together, for any number of connections.            *)
THEOREM Refinement == Spec => IsStream
  <1>1. Init => \A s \in Sessions : Stream(s)!Init
    <2> SUFFICES ASSUME Init, NEW s \in Sessions
                 PROVE  Stream(s)!Init
      OBVIOUS
    <2>1. ~Followed(s) /\ shell[s] # "stopped"
      BY DEF Init, Followed
    <2>2. buffer[s] \o chan[s] = <<>>
      BY ChunksLemma DEF Init
    <2> QED BY <2>1, <2>2 DEF Stream!Init
  <1>2. Init => SIInv
    <2> SUFFICES ASSUME Init
                 PROVE  SIInv
      OBVIOUS
    <2>1. \A s \in Sessions : ~Followed(s)
      BY DEF Init, Followed
    <2> QED BY <2>1, InitIInv DEF SIInv, SentIsPrefix
  <1>3. SIInv /\ [Next]_vars => SIInv'
    <2>1. SIInv /\ [Next]_vars => IInv'
      BY NextIInv DEF SIInv
    <2> QED BY <2>1, NextMoves, SentStays
  <1>4. SIInv /\ [Next]_vars => [\A s \in Sessions : UNCHANGED Stream(s)!state \/ Stream(s)!Next]_vars
    <2> SUFFICES ASSUME SIInv, [Next]_vars
                 PROVE  \A s \in Sessions : UNCHANGED Stream(s)!state \/ Stream(s)!Next
      OBVIOUS
    <2>1. IInv'
      BY NextIInv DEF SIInv
    <2>2. Moves
      BY <2>1, NextMoves
    <2> QED BY <2>2 DEF Moves, Streams
  <1> QED BY <1>1, <1>2, <1>3, <1>4, PTL DEF Spec, IsStream
=============================================================================
