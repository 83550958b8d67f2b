---------------------------- MODULE Registration ----------------------------
(***************************************************************************)
(* How the mediator's tasks (src/rendezvous_mediator.rs) keep the rendezvous *)
(* servers in the knowledge of this computer's id and public key, with the  *)
(* confirmations kept in Config (libs/hbb_common/src/config.rs).  One task  *)
(* per server, all of one generation.  The id changes when the user sets    *)
(* it and on UUID_MISMATCH; id and key pair change when the configuration   *)
(* of the root process is taken over (sync_and_watch_config_dir, macOS).    *)
(* The network loses and reorders (UDP); the server is external.            *)
(***************************************************************************)
EXTENDS Naturals, FiniteSets

CONSTANTS
  Hosts,       \* rendezvous servers
  NoHost,      \* SOLVING_PK_MISMATCH = ""
  MaxId,       \* bound: ids 0..MaxId, 0 being the first; update_id takes the next
  Taken,       \* ids another computer has registered
  RootId,      \* the id in the root process's configuration
  MaxNet,      \* bound: messages on their way when a task sends one, shared out to the tasks
  MaxChanges   \* bound: times the user sets the id, or a peer forces a new key

Ids == 0..MaxId
Keys == {"local", "root"}

ASSUME RegistrationAssumption ==
  /\ NoHost \notin Hosts
  /\ MaxId \in Nat /\ MaxNet \in Nat \ {0} /\ MaxChanges \in Nat
  /\ Taken \subseteq Ids /\ RootId \in Ids \ Taken

VARIABLES
  udp,            \* start_udp, or start_tcp: nothing is lost, no RegisterPeer
  id,             \* Config::get_id()
  stored,         \* the key pair in Config
  cache,          \* KEY_PAIR, or "none"
  keyConfirmed,   \* Config.key_confirmed
  hostConfirmed,  \* Config.keys_confirmed
  solving,        \* SOLVING_PK_MISMATCH
  sentPk,         \* SENT_REGISTER_PK
  rtask,          \* where the task of each server is
  reg,            \* the registration each task makes, or is told is accepted
  net,            \* messages on their way to and from each server
  known,          \* each server's table: ids and their keys
  sync,           \* where sync_and_watch_config_dir is
  checkPk,        \* CheckIfResendPk.pk
  setter,         \* where the setting of the id is
  changes,        \* id settings and forced updates so far
  crossed         \* history: see Crossed

regVars == <<udp, id, stored, cache, keyConfirmed, hostConfirmed, solving, sentPk, rtask,
             reg, net, known, sync, checkPk, setter, changes, crossed>>
confirmed == <<keyConfirmed, hostConfirmed>>
keys == <<stored, cache>>
others == <<udp, sync, checkPk, setter, changes>>

Reg == [id : Ids, pk : Keys]
Msg == [type : {"RegisterPk", "OK"}, reg : Reg]
       \cup [type : {"RegisterPeer"}, id : Ids]
       \cup [type : {"UUID_MISMATCH", "Registered", "RequestPk"}]

RegTypeOK ==
  /\ udp \in BOOLEAN
  /\ id \in Ids
  /\ stored \in Keys
  /\ cache \in Keys \cup {"none"}
  /\ keyConfirmed \in BOOLEAN
  /\ hostConfirmed \subseteq Hosts
  /\ solving \in Hosts \cup {NoHost}
  /\ sentPk \in BOOLEAN
  /\ rtask \in [Hosts -> {"off", "idle", "checked", "keyPair", "send", "sent",
                          "confirm", "confirmHost", "solved", "mismatch", "newId"}]
  /\ reg \in [Hosts -> Reg]
  /\ net \in [Hosts -> SUBSET Msg]
  /\ known \in [Hosts -> [Ids -> Keys \cup {"none"}]]
  /\ sync \in {"new", "set", "invalidate", "drop", "done"}
  /\ checkPk \in Keys \cup {"none"}
  /\ setter \in {"idle", "unconfirmed"}
  /\ changes \in 0..MaxChanges
  /\ crossed \in BOOLEAN

Pk == IF cache = "none" THEN stored ELSE cache
Current == [id |-> id, pk |-> Pk]
Confirmed(h) == keyConfirmed /\ h \in hostConfirmed

(* The configuration of the root process is taken over, and may have been  *)
(* registered by it, or it is not (sync = "done").  A server may be "off": *)
(* it is not used.                                                         *)
RegInit ==
  /\ udp \in BOOLEAN
  /\ sync \in {"new", "done"}
  /\ id = 0
  /\ stored = "local"
  /\ cache = "none"
  /\ keyConfirmed = FALSE
  /\ hostConfirmed = {}
  /\ solving = NoHost
  /\ sentPk = FALSE
  /\ rtask \in [Hosts -> {"off", "idle"}]
  /\ reg = [h \in Hosts |-> [id |-> 0, pk |-> "local"]]
  /\ net = [h \in Hosts |-> {}]
  /\ known = [h \in Hosts |-> [i \in Ids |-> IF sync = "new" /\ i = RootId THEN "root" ELSE "none"]]
  /\ checkPk = "none"
  /\ setter = "idle"
  /\ changes \in {0, MaxChanges}
  /\ crossed = FALSE
-----------------------------------------------------------------------------
(* Config::set_key_confirmed: a change to false forgets the hosts, and a   *)
(* value it already has changes nothing.                                   *)
SetKeyConfirmed(v) ==
  /\ keyConfirmed' = v
  /\ hostConfirmed' = IF keyConfirmed /\ ~v THEN {} ELSE hostConfirmed

Forget(h) == reg' = [reg EXCEPT ![h] = [id |-> 0, pk |-> "local"]]

Used == {h \in Hosts : rtask[h] # "off"}

RegGoto(h, at) == rtask' = [rtask EXCEPT ![h] = at]
Send(h, m) == net' = [net EXCEPT ![h] = @ \cup {m}]

(* SOLVING_PK_MISMATCH is held over the steps of handle_uuid_mismatch.     *)
Locked == \E h \in Hosts : rtask[h] = "newId"
MaySolve(h) == ~Locked /\ solving \in {NoHost, h}

(* A confirmation and a change of what it confirms crossed: an outdated    *)
(* registration was accepted after the change, or its confirmation was     *)
(* noted in the middle of it or after it, or it was sent while the change  *)
(* was being made; or what a confirmation noted first was taken back       *)
(* before it noted the host, which then stays confirmed for the next id,   *)
(* since set_key_confirmed(false) does nothing when nothing is confirmed.  *)
Crossed(now) == crossed' = (crossed \/ now)
Changing == setter = "unconfirmed" \/ Locked
Outdated(r) == r # Current \/ r.pk # stored
-----------------------------------------------------------------------------
(* The timer of start_udp (register_peer) and of start_tcp.                *)

CheckSolving(h) ==
  /\ rtask[h] = "idle"
  /\ Cardinality(net[h]) * Cardinality(Used) < MaxNet
  /\ udp => MaySolve(h)
  /\ RegGoto(h, "checked")
  /\ UNCHANGED <<id, keys, confirmed, solving, sentPk, reg, net, known, others, crossed>>

RegisterPeer(h) ==
  /\ rtask[h] = "checked"
  /\ IF ~Confirmed(h)
     THEN RegGoto(h, "keyPair") /\ UNCHANGED net
     ELSE /\ RegGoto(h, "idle")
          /\ IF udp THEN Send(h, [type |-> "RegisterPeer", id |-> id]) ELSE UNCHANGED net
  /\ UNCHANGED <<id, keys, confirmed, solving, sentPk, reg, known, others, crossed>>

(* register_pk reads the key pair, which it caches, then the id; it notes  *)
(* that it sent only afterwards.                                           *)
GetKeyPair(h) ==
  /\ rtask[h] = "keyPair"
  /\ cache' = Pk
  /\ reg' = [reg EXCEPT ![h].pk = Pk]
  /\ RegGoto(h, "send")
  /\ UNCHANGED <<id, stored, confirmed, solving, sentPk, net, known, others, crossed>>

SendRegisterPk(h) ==
  /\ rtask[h] = "send"
  /\ reg' = [reg EXCEPT ![h].id = id]
  /\ Send(h, [type |-> "RegisterPk", reg |-> reg'[h]])
  /\ RegGoto(h, "sent")
  /\ UNCHANGED <<id, keys, confirmed, solving, sentPk, known, others, crossed>>

StoreSent(h) ==
  /\ rtask[h] = "sent"
  /\ sentPk' = TRUE
  /\ RegGoto(h, "idle") /\ Forget(h)
  /\ UNCHANGED <<id, keys, confirmed, solving, net, known, others, crossed>>

(* handle_resp.                                                            *)
Receive(h, m) ==
  /\ rtask[h] = "idle"
  /\ m \in net[h]
  /\ net' = [net EXCEPT ![h] = @ \ {m}]
  /\ \/ m.type = "Registered" /\ RegGoto(h, "idle") /\ UNCHANGED reg
     \/ m.type = "RequestPk" /\ RegGoto(h, "keyPair") /\ UNCHANGED reg
     \/ m.type = "UUID_MISMATCH" /\ RegGoto(h, "mismatch") /\ UNCHANGED reg
     \/ m.type = "OK" /\ RegGoto(h, "confirm") /\ reg' = [reg EXCEPT ![h] = m.reg]
  /\ UNCHANGED <<id, keys, confirmed, solving, sentPk, known, others, crossed>>

ConfirmKey(h) ==
  /\ rtask[h] = "confirm"
  /\ SetKeyConfirmed(TRUE)
  /\ Crossed(Outdated(reg[h]) \/ Changing)
  /\ RegGoto(h, "confirmHost")
  /\ UNCHANGED <<id, keys, solving, sentPk, reg, net, known, others>>

(* Slip: the host being solved is confirmed.                               *)
SlipConfirmHost(h) ==
  /\ rtask[h] = "confirmHost"
  /\ hostConfirmed' = hostConfirmed \cup {solving}
  /\ Crossed(Outdated(reg[h]) \/ Changing \/ ~keyConfirmed)
  /\ RegGoto(h, "solved")
  /\ UNCHANGED <<id, keys, keyConfirmed, solving, sentPk, reg, net, known, others>>

ConfirmHost(h) ==
  /\ rtask[h] = "confirmHost"
  /\ hostConfirmed' = hostConfirmed \cup {h}
  /\ Crossed(Outdated(reg[h]) \/ Changing \/ ~keyConfirmed)
  /\ RegGoto(h, "solved")
  /\ UNCHANGED <<id, keys, keyConfirmed, solving, sentPk, reg, net, known, others>>

(* Slip: the mismatch stays unsolved.                                      *)
SlipSolved(h) ==
  /\ rtask[h] = "solved"
  /\ ~Locked
  /\ RegGoto(h, "idle") /\ Forget(h)
  /\ UNCHANGED <<id, keys, confirmed, solving, sentPk, net, known, others, crossed>>

(* Whoever was solving a mismatch.                                         *)
Solved(h) ==
  /\ rtask[h] = "solved"
  /\ ~Locked
  /\ solving' = NoHost
  /\ RegGoto(h, "idle") /\ Forget(h)
  /\ UNCHANGED <<id, keys, confirmed, sentPk, net, known, others, crossed>>

UuidMismatch(h) ==
  /\ rtask[h] = "mismatch"
  /\ ~Locked
  /\ IF MaySolve(h)
     THEN SetKeyConfirmed(FALSE) /\ RegGoto(h, "newId")
     ELSE UNCHANGED confirmed /\ RegGoto(h, "idle")
  /\ UNCHANGED <<id, keys, solving, sentPk, reg, net, known, others, crossed>>

UpdateId(h) ==
  /\ rtask[h] = "newId"
  /\ id' = IF id < MaxId THEN id + 1 ELSE 0
  /\ solving' = h
  /\ RegGoto(h, "keyPair")
  /\ UNCHANGED <<keys, confirmed, sentPk, reg, net, known, others, crossed>>

Task(h) ==
  \/ CheckSolving(h) \/ RegisterPeer(h) \/ GetKeyPair(h) \/ SendRegisterPk(h)
  \/ StoreSent(h) \/ ConfirmKey(h) \/ ConfirmHost(h) \/ Solved(h)
  \/ UuidMismatch(h) \/ UpdateId(h)
-----------------------------------------------------------------------------
(* The server and the network.                                             *)

Reply(h, m, r) == net' = [net EXCEPT ![h] = (@ \ {m}) \cup {r}]

ServeRegisterPk(h, m) ==
  /\ m \in net[h]
  /\ m.type = "RegisterPk"
  /\ IF m.reg.id \in Taken
     THEN Reply(h, m, [type |-> "UUID_MISMATCH"]) /\ UNCHANGED <<known, crossed>>
     ELSE /\ Reply(h, m, [type |-> "OK", reg |-> m.reg])
          /\ known' = [known EXCEPT ![h][m.reg.id] = m.reg.pk]
          /\ Crossed(m.reg # Current)
  /\ UNCHANGED <<id, keys, confirmed, solving, sentPk, rtask, reg, others>>

ServeRegisterPeer(h, m) ==
  /\ m \in net[h]
  /\ m.type = "RegisterPeer"
  /\ Reply(h, m, [type |-> IF known[h][m.id] = "none" THEN "RequestPk" ELSE "Registered"])
  /\ UNCHANGED <<id, keys, confirmed, solving, sentPk, rtask, reg, known, others, crossed>>

(* A loss while the task is busy is the same as one when it is idle again. *)
Lose(h, m) ==
  /\ udp
  /\ rtask[h] = "idle"
  /\ m \in net[h]
  /\ net' = [net EXCEPT ![h] = @ \ {m}]
  /\ UNCHANGED <<id, keys, confirmed, solving, sentPk, rtask, reg, known, others, crossed>>

ServeRegistrations(h) == \E m \in net[h] : ServeRegisterPk(h, m)
ServePeers(h) == \E m \in net[h] : ServeRegisterPeer(h, m)
-----------------------------------------------------------------------------
(* Setting the id (ipc, Data::Config), in this order.                      *)
SetIdUnconfirm ==
  /\ setter = "idle"
  /\ changes < MaxChanges
  /\ SetKeyConfirmed(FALSE)
  /\ setter' = "unconfirmed"
  /\ changes' = changes + 1
  /\ UNCHANGED <<udp, id, keys, solving, sentPk, rtask, reg, net, known, sync, checkPk, crossed>>

SetId ==
  /\ setter = "unconfirmed"
  /\ id' \in Ids \ Taken
  /\ setter' = "idle"
  /\ UNCHANGED <<udp, keys, confirmed, solving, sentPk, rtask, reg, net, known, sync, checkPk, changes, crossed>>

(* create_tcp_connection: "Force to update pk".                            *)
ForceUpdatePk ==
  /\ changes < MaxChanges
  /\ SetKeyConfirmed(FALSE)
  /\ changes' = changes + 1
  /\ UNCHANGED <<udp, id, keys, solving, sentPk, rtask, reg, net, known, sync, checkPk, setter, crossed>>

(* sync_and_watch_config_dir: CheckIfResendPk::new, Config::set (which     *)
(* drops the cached key pair), CheckIfResendPk::drop.                      *)
SyncNew ==
  /\ sync = "new"
  /\ checkPk' = cache
  /\ sync' = "set"
  /\ UNCHANGED <<udp, id, keys, confirmed, solving, sentPk, rtask, reg, net, known, setter, changes, crossed>>

SyncSet ==
  /\ sync = "set"
  /\ id' = RootId
  /\ stored' = "root"
  /\ keyConfirmed' = TRUE
  /\ hostConfirmed' = Hosts
  /\ sync' = "invalidate"
  /\ Crossed(Changing)
  /\ UNCHANGED <<udp, cache, solving, sentPk, rtask, reg, net, known, checkPk, setter, changes>>

SyncInvalidate ==
  /\ sync = "invalidate"
  /\ cache' = IF cache = "root" THEN "root" ELSE "none"
  /\ sync' = "drop"
  /\ UNCHANGED <<udp, id, stored, confirmed, solving, sentPk, rtask, reg, net, known, checkPk,
                 setter, changes, crossed>>

(* A registration with the old key that the check cannot see: it is being  *)
(* sent, or its key was read, and cached, after CheckIfResendPk::new.      *)
Unnoticed == \/ \E h \in Hosts : rtask[h] \in {"send", "sent"}
             \/ sentPk /\ cache = checkPk

(* Slip: no re-registration.                                               *)
SlipSyncDrop ==
  /\ sync = "drop"
  /\ Crossed(Unnoticed)
  /\ sync' = "done"
  /\ UNCHANGED <<udp, id, keys, confirmed, solving, sentPk, rtask, reg, net, known, checkPk,
                 setter, changes>>

SyncDrop ==
  /\ sync = "drop"
  /\ IF sentPk /\ cache # checkPk THEN SetKeyConfirmed(FALSE) ELSE UNCHANGED confirmed
  /\ Crossed(Unnoticed)
  /\ sync' = "done"
  /\ UNCHANGED <<udp, id, keys, solving, sentPk, rtask, reg, net, known, checkPk, setter, changes>>

Sync == SyncNew \/ SyncSet \/ SyncInvalidate \/ SyncDrop
-----------------------------------------------------------------------------
RegNext ==
  \/ \E h \in Hosts : Task(h) \/ \E m \in net[h] : Receive(h, m) \/ Lose(h, m)
  \/ \E h \in Hosts : ServeRegistrations(h) \/ ServePeers(h)
  \/ SetIdUnconfirm \/ SetId \/ ForceUpdatePk
  \/ Sync

(* The tasks are scheduled and their timer is not starved; a server that   *)
(* is asked again and again answers, to a key or to an id, and answers of  *)
(* either kind arrive.                                                     *)
RegFairness ==
  /\ \A h \in Hosts :
       /\ WF_regVars(Task(h)) /\ SF_regVars(CheckSolving(h))
       /\ SF_regVars(ServeRegistrations(h)) /\ SF_regVars(ServePeers(h))
       /\ \A answers \in {{"OK", "UUID_MISMATCH"}, {"RequestPk", "Registered"}} :
            SF_regVars(\E m \in net[h] : m.type \in answers /\ Receive(h, m))
  /\ WF_regVars(SetId) /\ WF_regVars(Sync)

RegSpec == RegInit /\ [][RegNext]_regVars /\ RegFairness
-----------------------------------------------------------------------------
(* A server that is confirmed has this computer's id with its key, once    *)
(* nothing is on its way and nobody is changing anything; unless the       *)
(* confirmation crossed with a change.                                     *)
ConfirmedUnlessCrossed ==
  (~crossed /\ setter = "idle" /\ sync = "done" /\ \A h \in Hosts : rtask[h] # "newId")
    => \A h \in Used : Confirmed(h) => known[h][id] = Pk

(* In the end every server knows the id and is confirmed, whatever was     *)
(* lost, whatever ids are taken and whoever changed the id meanwhile.      *)
(* Over UDP RegisterPeer makes up for a confirmation that crossed with a   *)
(* change: the server asks for the key of an id it does not know.  Over    *)
(* TCP nothing does; nor does anything end the solving of a mismatch when  *)
(* the root's configuration, with its confirmations, is taken over in the  *)
(* middle of it.                                                           *)
Settles ==
  \/ <>(crossed /\ (~udp \/ sync # "done"))
  \/ <>[](\A h \in Used : Confirmed(h) /\ known[h][id] # "none")
=============================================================================
