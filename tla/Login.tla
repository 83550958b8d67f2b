------------------------------- MODULE Login -------------------------------
(***************************************************************************)
(* How connections of one client session log in (src/server/connection.rs):*)
(* the password, the second factor, the click of the user, and SESSIONS,   *)
(* which remembers for 30 s what a session has shown, so that a broken     *)
(* connection can be made again although the temporary password has been   *)
(* replaced.  All connections here have one SessionKey; those of other     *)
(* sessions only replace the temporary password.  The peer is a client of  *)
(* this program: it logs in until it is let in or asked for a code, which  *)
(* it sends then.                                                          *)
(***************************************************************************)
EXTENDS Naturals

CONSTANTS
  Conns,    \* connections, each a remote control, a file transfer or a forwarding
  Permanent, Empty,  \* the permanent password, and none
  MaxTemp,  \* bound: how often the temporary password is replaced
  None

Kinds == {"remote", "file", "forward"}
Temps == 0..MaxTemp
Passwords == Temps \cup {Permanent, Empty}

Sessions == [password : Temps \cup {Empty}, tfa : BOOLEAN]

ASSUME LoginAssumption ==
  /\ MaxTemp \in Nat
  /\ Permanent # Empty /\ {Permanent, Empty} \cap Temps = {}
  /\ None \notin Sessions \cup Passwords

VARIABLES
  config,      \* temporary_enabled, a permanent password usable, the approve
               \* mode, two-factor authentication
  temp,        \* TEMPORARY_PASSWORD
  session,     \* the entry of SESSIONS: random_password and tfa, or None
  stale,       \* its last_recv_time is SESSION_TIMEOUT ago
  holds,       \* the connections that share its last_recv_time
  pc,          \* where the handler of each connection is
  kind,        \* what it is for
  pw,          \* the password of its last LoginRequest, None before
  require2FA,  \* require_2fa is set
  asked,       \* "code" once REQUIRE_2FA is sent, "click" once the user is asked
  authorized,
  authed,      \* AUTHED_CONNS
  clicked, trusted,  \* history: it was let in by the user; its device is trusted
  undone       \* history: what SESSIONS remembered of it is lost, see RetryIsLetIn

handler == <<kind, pw, require2FA, asked, authorized>>
sessions == <<session, stale, holds>>
history == <<clicked, trusted, undone>>
vars == <<config, temp, sessions, pc, handler, authed, history>>

TypeOK ==
  /\ config \in [temporary : BOOLEAN, permanent : BOOLEAN, approve : {"password", "click", "both"},
                 tfa : BOOLEAN]
  /\ temp \in Temps
  /\ session = None \/ session \in Sessions
  /\ stale \in BOOLEAN
  /\ holds \subseteq Conns /\ (session = None => holds = {})
  /\ pc \in [Conns -> {"new", "open", "validate", "valid", "logon", "authorize", "hold", "forwarding",
                       "ending", "leaving", "gone"}]
  /\ kind \in [Conns -> Kinds] /\ pw \in [Conns -> Passwords \cup {None}]
  /\ require2FA \in [Conns -> BOOLEAN]
  /\ asked \in [Conns -> SUBSET {"code", "click"}]
  /\ authorized \in [Conns -> BOOLEAN]
  /\ authed \subseteq Conns
  /\ clicked \subseteq Conns /\ trusted \subseteq Conns /\ undone \subseteq Conns

Init ==
  /\ config \in [temporary : BOOLEAN, permanent : BOOLEAN, approve : {"password", "click", "both"},
                 tfa : BOOLEAN]
  /\ temp = 0
  /\ session = None /\ stale = FALSE /\ holds = {}
  /\ pc = [c \in Conns |-> "new"]
  /\ kind = [c \in Conns |-> "remote"]
  /\ pw = [c \in Conns |-> None]
  /\ require2FA = [c \in Conns |-> config.tfa]
  /\ asked = [c \in Conns |-> {}]
  /\ authorized = [c \in Conns |-> FALSE]
  /\ authed = {}
  /\ clicked = {} /\ trusted = {} /\ undone = {}

Goto(c, at) == pc' = [pc EXCEPT ![c] = at]
Ask(c, what) == asked' = [asked EXCEPT ![c] = @ \cup {what}]

(* Between its password and AUTHED_CONNS.                                  *)
LoggingIn ==
  {c \in Conns \ authed :
     pc[c] \in {"logon", "authorize"} \/ (pc[c] = "open" /\ "code" \in asked[c])}
-----------------------------------------------------------------------------
(* SESSIONS.                                                               *)

(* Entries nobody has been heard of for 30 s go whenever one is looked up. *)
Retain ==
  IF session # None /\ stale
  THEN /\ session' = None /\ stale' = FALSE /\ holds' = {}
       /\ undone' = undone \cup holds \cup LoggingIn \cup {c \in Conns : pc[c] = "hold"}
  ELSE UNCHANGED <<sessions, undone>>

Found == session # None /\ ~stale

(* is_recent_session.                                                      *)
IsRecent(p, tfa) ==
  Found /\ p # Empty /\ (IF tfa THEN session.tfa ELSE session.password = p)

(* update_or_insert_session with a temporary password.                     *)
UpdateSession(p) ==
  /\ session' = [password |-> p, tfa |-> FALSE]
  /\ IF session = None THEN stale' = FALSE /\ holds' = {} ELSE UNCHANGED <<stale, holds>>

SetSession2FA ==
  IF session = None
  THEN session' = [password |-> Empty, tfa |-> TRUE] /\ stale' = FALSE /\ holds' = {}
  ELSE session' = [password |-> session.password, tfa |-> TRUE] /\ UNCHANGED <<stale, holds>>

(* Slip: other connections are not looked at.                              *)
SlipCheckRemoveSession(c) ==
  IF pw[c] # None
  THEN /\ session' = None /\ stale' = FALSE /\ holds' = {}
       /\ undone' = undone \cup IF c \in authed /\ kind[c] = "remote" THEN Conns \ {c} ELSE LoggingIn
  ELSE UNCHANGED <<sessions, undone>>

(* check_remove_session, at a close after which the peer does not retry:   *)
(* it keeps the session for another connection that controls remotely.     *)
(* Before its LoginRequest a connection has no SessionKey.                 *)
CheckRemoveSession(c) ==
  LET isRemote == c \in authed /\ kind[c] = "remote"
      anotherRemote == \E d \in authed \ {c} : kind[d] = "remote" IN
  IF pw[c] # None /\ (isRemote \/ ~anotherRemote)
  THEN /\ session' = None /\ stale' = FALSE /\ holds' = {}
       /\ undone' = undone \cup IF isRemote THEN Conns \ {c} ELSE LoggingIn
  ELSE UNCHANGED <<sessions, undone>>

(* 30 s pass without a message on a connection that shares the clock.  An  *)
(* open one closes itself at a tick of its own timer, and until then may   *)
(* hear a message, or lose the entry to somebody's look-up.                *)
Age ==
  /\ session # None /\ ~stale
  /\ stale' = TRUE
  /\ UNCHANGED <<config, temp, session, holds, pc, handler, authed, history>>

Hear(c) ==
  /\ pc[c] = "open" /\ c \in holds
  /\ stale /\ stale' = FALSE
  /\ UNCHANGED <<config, temp, session, holds, pc, handler, authed, history>>

(* update_temporary_password: also by connections of other sessions.       *)
Replace == temp < MaxTemp /\ temp' = temp + 1

OthersReplace ==
  /\ Replace
  /\ UNCHANGED <<config, sessions, pc, handler, authed, history>>
-----------------------------------------------------------------------------
(* The handler of a connection.                                            *)

Open(c, k) ==
  /\ pc[c] = "new"
  /\ kind' = [kind EXCEPT ![c] = k]
  /\ Goto(c, "open")
  /\ UNCHANGED <<config, temp, sessions, pw, require2FA, asked, authorized, authed, history>>

ByClick ==
  \/ config.approve = "click"
  \/ config.approve = "both" /\ ~config.temporary /\ ~config.permanent

(* on_message of a LoginRequest: a trusted device needs no code; the       *)
(* permission and privacy checks may end the connection.  A wrong password *)
(* is one that was the temporary one before.                               *)
LoginRequest(c, p) ==
  /\ pc[c] = "open" /\ ~authorized[c] /\ "code" \notin asked[c]
  /\ p \in Temps => p <= temp
  /\ pw' = [pw EXCEPT ![c] = p]
  /\ \/ UNCHANGED <<require2FA, trusted>>
     \/ require2FA[c] /\ require2FA' = [require2FA EXCEPT ![c] = FALSE] /\ trusted' = trusted \cup {c}
  /\ \/ Goto(c, "ending") /\ UNCHANGED <<sessions, asked, undone>>
     \/ ByClick /\ Ask(c, "click") /\ UNCHANGED <<sessions, pc, undone>>
     \/ /\ ~ByClick
        /\ Retain
        /\ IF IsRecent(p, FALSE) THEN Goto(c, "logon") /\ UNCHANGED asked
           ELSE IF p = Empty THEN Ask(c, "click") /\ UNCHANGED pc
           ELSE Goto(c, "validate") /\ UNCHANGED asked
  /\ UNCHANGED <<config, temp, kind, authorized, authed, clicked>>

(* validate_password: the temporary password is read, and then what other  *)
(* connections of the session have shown is forgotten, the code too.       *)
MatchTemporary(c) ==
  /\ pc[c] = "validate"
  /\ config.temporary /\ pw[c] = temp
  /\ Goto(c, "valid")
  /\ UNCHANGED <<config, temp, sessions, handler, authed, history>>

ValidTemporary(c) ==
  /\ pc[c] = "valid"
  /\ UpdateSession(pw[c])
  /\ undone' = IF session # None THEN undone \cup (Conns \ {c}) ELSE undone
  /\ Goto(c, "logon")
  /\ UNCHANGED <<config, temp, handler, authed, clicked, trusted>>

ValidPermanent(c) ==
  /\ pc[c] = "validate"
  /\ config.permanent /\ pw[c] = Permanent
  /\ Goto(c, "logon")
  /\ UNCHANGED <<config, temp, sessions, handler, authed, history>>

(* The tenth wrong one in a row replaces the temporary password.           *)
Invalid(c) ==
  /\ pc[c] = "validate"
  /\ ~(config.temporary /\ pw[c] = temp) /\ ~(config.permanent /\ pw[c] = Permanent)
  /\ (config.temporary /\ Replace) \/ UNCHANGED temp
  /\ Ask(c, "click")
  /\ Goto(c, "open")
  /\ UNCHANGED <<config, sessions, kind, pw, require2FA, authorized, authed, history>>

(* send_logon_response_and_keep_alive: the code, then the address of a     *)
(* forwarding, which may not be reached.                                   *)
Logon(c) ==
  /\ pc[c] = "logon"
  /\ IF require2FA[c]
     THEN /\ Retain
          /\ IF IsRecent(pw[c], TRUE) THEN Goto(c, "authorize") /\ UNCHANGED asked
             ELSE Goto(c, "open") /\ Ask(c, "code")
     ELSE Goto(c, "authorize") /\ UNCHANGED <<sessions, asked, undone>>
  /\ UNCHANGED <<config, temp, kind, pw, require2FA, authorized, authed, clicked, trusted>>

Authorize(c) ==
  /\ pc[c] = "authorize"
  /\ \/ /\ authorized' = [authorized EXCEPT ![c] = TRUE]
        /\ authed' = authed \cup {c}
        /\ Goto(c, "hold")
     \/ kind[c] = "forward" /\ Goto(c, "ending") /\ UNCHANGED <<authorized, authed>>
  /\ UNCHANGED <<config, temp, sessions, kind, pw, require2FA, asked, history>>

(* Slip: the clock is shared whether or not there is one.                  *)
SlipHold(c) ==
  /\ pc[c] = "hold"
  /\ holds' = holds \cup {c}
  /\ Goto(c, "open")
  /\ UNCHANGED <<config, temp, session, stale, handler, authed, history>>

Hold(c) ==
  /\ pc[c] = "hold"
  /\ holds' = IF session = None THEN holds ELSE holds \cup {c}
  /\ Goto(c, "open")
  /\ UNCHANGED <<config, temp, session, stale, handler, authed, history>>

(* The right code.                                                         *)
Auth2FA(c) ==
  /\ pc[c] = "open" /\ ~authorized[c]
  /\ "code" \in asked[c] /\ require2FA[c]
  /\ require2FA' = [require2FA EXCEPT ![c] = FALSE]
  /\ SetSession2FA
  /\ Goto(c, "logon")
  /\ UNCHANGED <<config, temp, kind, pw, asked, authorized, authed, history>>

(* The user clicks: Authorize of the connection manager, which is started  *)
(* when the user is asked and also when a code is.                         *)
Click(c) ==
  /\ pc[c] = "open" /\ ~authorized[c]
  /\ asked[c] # {}
  /\ require2FA' = [require2FA EXCEPT ![c] = FALSE]
  /\ clicked' = clicked \cup {c}
  /\ Goto(c, "logon")
  /\ UNCHANGED <<config, temp, sessions, kind, pw, asked, authorized, authed, trusted, undone>>
-----------------------------------------------------------------------------
(* The end.  Closed on purpose, by either side, the peer does not retry;   *)
(* otherwise the connection is broken.                                     *)
Close(c) ==
  /\ pc[c] = "open"
  /\ CheckRemoveSession(c)
  /\ Goto(c, "ending")
  /\ UNCHANGED <<config, temp, handler, authed, clicked, trusted>>

Break(c) ==
  /\ pc[c] = "open"
  /\ Goto(c, "ending")
  /\ UNCHANGED <<config, temp, sessions, handler, authed, history>>

(* Slip: the password stays.                                               *)
SlipEnd(c) ==
  /\ pc[c] = "ending"
  /\ UNCHANGED temp
  /\ Goto(c, "leaving")
  /\ UNCHANGED <<config, sessions, handler, authed, history>>

(* The loop has ended.  on_close has taken the socket of a forwarding, so  *)
(* try_port_forward_loop returns at once.                                  *)
End(c) ==
  /\ pc[c] = "ending"
  /\ IF authorized[c] THEN Replace ELSE UNCHANGED temp
  /\ Goto(c, "leaving")
  /\ UNCHANGED <<config, sessions, handler, authed, history>>

(* A forwarding leaves the loop and copies until it fails.                 *)
Forward(c) ==
  /\ pc[c] = "open" /\ authorized[c] /\ kind[c] = "forward"
  /\ Replace
  /\ Goto(c, "forwarding")
  /\ UNCHANGED <<config, sessions, handler, authed, history>>

ForwardFails(c) ==
  /\ pc[c] = "forwarding"
  /\ CheckRemoveSession(c)
  /\ Goto(c, "leaving")
  /\ UNCHANGED <<config, temp, handler, authed, clicked, trusted>>

(* The connection and its AuthedConnID are dropped.                        *)
Drop(c) ==
  /\ pc[c] = "leaving"
  /\ authed' = authed \ {c}
  /\ Goto(c, "gone")
  /\ kind' = [kind EXCEPT ![c] = "remote"] /\ pw' = [pw EXCEPT ![c] = None]
  /\ require2FA' = [require2FA EXCEPT ![c] = config.tfa]
  /\ asked' = [asked EXCEPT ![c] = {}] /\ authorized' = [authorized EXCEPT ![c] = FALSE]
  /\ holds' = holds \ {c}
  /\ clicked' = clicked \ {c} /\ trusted' = trusted \ {c} /\ undone' = undone \ {c}
  /\ UNCHANGED <<config, temp, session, stale>>
-----------------------------------------------------------------------------
Next ==
  \/ \E c \in Conns :
       \/ \E k \in Kinds : Open(c, k)
       \/ \E p \in Passwords : LoginRequest(c, p)
       \/ MatchTemporary(c) \/ ValidTemporary(c) \/ ValidPermanent(c) \/ Invalid(c)
       \/ Logon(c) \/ Authorize(c) \/ Hold(c) \/ Auth2FA(c) \/ Click(c) \/ Hear(c)
       \/ Close(c) \/ Break(c) \/ End(c) \/ Forward(c) \/ ForwardFails(c) \/ Drop(c)
  \/ Age \/ OthersReplace

Spec == Init /\ [][Next]_vars
-----------------------------------------------------------------------------
(* A connection that controls remotely and was let in with a password,     *)
(* should it break now, is let in again with that password and without a   *)
(* code, whatever has become of the temporary password and of the other    *)
(* connections of the session; unless nothing has been heard for 30 s, or  *)
(* the entry was looked up at such a moment, though this one was heard of  *)
(* again later or was only entering; or another one of the session that    *)
(* controls remotely was closed, or any was before this one had entered    *)
(* AUTHED_CONNS, or another one has shown a newer temporary password.      *)
RetryIsLetIn ==
  \A c \in authed \ (undone \cup clicked) :
    (pc[c] = "open" /\ kind[c] = "remote" /\ ~stale) =>
      /\ \/ IsRecent(pw[c], FALSE)
         \/ config.temporary /\ pw[c] = temp
         \/ config.permanent /\ pw[c] = Permanent
      /\ config.tfa /\ c \notin trusted => IsRecent(pw[c], TRUE)

(* A temporary password that has let a connection in is no longer the      *)
(* current one when that connection has ended or become a forwarding.      *)
OneTime ==
  \A c \in Conns : (pc[c] \in {"forwarding", "leaving"} /\ authorized[c]) => pw[c] # temp
=============================================================================
