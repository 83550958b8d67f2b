----------------------------- MODULE LoginProofs -----------------------------
(***************************************************************************)
(* What a password that was shown is good for, whatever number of          *)
(* connections of the session log in, break and are closed in any order,   *)
(* and however often the temporary password is replaced.                   *)
(***************************************************************************)
EXTENDS Login, TLAPS

(* A temporary password is known when it has been the current one, and one *)
(* that has let in a connection is replaced as it leaves its loop.         *)
KnownTemps ==
  \A c \in Conns :
    /\ pc[c] = "valid" => pw[c] \in Temps
    /\ pw[c] \in Temps =>
         /\ pw[c] <= temp
         /\ pc[c] \in {"forwarding", "leaving"} /\ authorized[c] => pw[c] < temp

(* Where a handler is, and whether it has been let in.                     *)
Stages ==
  \A c \in Conns :
    /\ c \in authed <=> authorized[c]
    /\ pc[c] \in {"new", "validate", "valid", "logon", "authorize"} => c \notin authed
    /\ pc[c] = "hold" => c \in authed

(* The code: who does not need one, and who is being asked for it.         *)
Codes ==
  \A c \in Conns :
    /\ require2FA[c] => config.tfa
    /\ pc[c] \in {"new", "validate", "valid"} => "code" \notin asked[c]
    /\ pc[c] = "open" /\ c \notin authed /\ "code" \in asked[c] => require2FA[c]
    /\ pc[c] \in {"new", "validate", "valid"} \/ (pc[c] = "open" /\ c \notin authed) =>
         (~require2FA[c] => ~config.tfa \/ c \in trusted)

NeedsCode(c) == config.tfa /\ c \notin trusted
ByPermanent(c) == config.permanent /\ pw[c] = Permanent
Remembered(c) == session # None /\ session.password = pw[c]

(* From its password to AUTHED_CONNS and the clock of the session, what a  *)
(* connection has shown can be shown again, unless it was undone.          *)
Entering ==
  \A c \in Conns \ (undone \cup clicked) :
    c \in LoggingIn \/ (pc[c] = "hold" /\ kind[c] = "remote") =>
      /\ pw[c] # Empty /\ (Remembered(c) \/ ByPermanent(c))
      /\ pc[c] \in {"authorize", "hold"} \/ (pc[c] = "logon" /\ ~require2FA[c]) =>
           (NeedsCode(c) => session # None /\ session.tfa)

(* And while it controls remotely: it needs no entry of SESSIONS, or the   *)
(* entry is there and the connection shares its clock.                     *)
Keeping ==
  \A c \in authed \ (undone \cup clicked) :
    pc[c] = "open" /\ kind[c] = "remote" =>
      /\ pw[c] # Empty
      /\ \/ ByPermanent(c) /\ ~NeedsCode(c)
         \/ /\ c \in holds /\ session # None
            /\ Remembered(c) \/ ByPermanent(c)
            /\ NeedsCode(c) => session.tfa

IInv ==
  /\ TypeOK
  /\ KnownTemps
  /\ Stages
  /\ Codes
  /\ Entering
  /\ Keeping
-----------------------------------------------------------------------------
(* The invariant holds at the beginning.                                   *)
LEMMA InitIInv == Init => IInv
  <1> SUFFICES ASSUME Init PROVE IInv
    OBVIOUS
  <1>1. TypeOK
    <2>1. config.tfa \in BOOLEAN
      BY DEF Init
    <2>2. temp \in Temps
      BY LoginAssumption DEF Init, Temps
    <2> QED BY <2>1, <2>2 DEF Init, TypeOK, Kinds
  <1>2. KnownTemps /\ Stages /\ Codes /\ Entering /\ Keeping
    BY LoginAssumption DEF Init, KnownTemps, Stages, Codes, Entering, Keeping, LoggingIn, Passwords
  <1> QED BY <1>1, <1>2 DEF IInv

(* A new temporary password is the next number.                            *)
LEMMA TempTypes == TypeOK /\ Replace => temp' \in Temps
  BY LoginAssumption DEF TypeOK, Replace, Temps

(* What may become of the entry of SESSIONS.                               *)
LEMMA SessionTypes ==
  ASSUME TypeOK, NEW c \in Conns, NEW p \in Temps
  PROVE  /\ Retain \/ CheckRemoveSession(c) => session' \in {session, None} /\ undone' \subseteq Conns
         /\ UpdateSession(p) \/ SetSession2FA => session' \in Sessions
         /\ Retain \/ CheckRemoveSession(c) \/ UpdateSession(p) \/ SetSession2FA =>
              stale' \in BOOLEAN /\ holds' \subseteq Conns /\ (session' = None => holds' = {})
  <1> USE DEF TypeOK
  <1>1. UpdateSession(p) \/ SetSession2FA => session' \in Sessions
    <2>1. session = None \/ session.password \in Temps \cup {Empty}
      BY DEF Sessions
    <2>2. UpdateSession(p) => session' \in Sessions
      BY DEF UpdateSession, Sessions
    <2>3. ASSUME SetSession2FA PROVE session' \in Sessions
      <3>1. PICK q \in Temps \cup {Empty} : session' = [password |-> q, tfa |-> TRUE]
        BY <2>1, <2>3 DEF SetSession2FA
      <3> QED BY <3>1 DEF Sessions
    <2> QED BY <2>2, <2>3
  <1>3. None \notin Sessions
    BY LoginAssumption
  <1>2. Retain \/ CheckRemoveSession(c) => session' \in {session, None} /\ undone' \subseteq Conns
    BY DEF Retain, CheckRemoveSession, LoggingIn, sessions
  <1>4. Retain \/ CheckRemoveSession(c) \/ UpdateSession(p) \/ SetSession2FA =>
          stale' \in BOOLEAN /\ holds' \subseteq Conns /\ (session' = None => holds' = {})
    BY <1>1, <1>3 DEF Retain, CheckRemoveSession, UpdateSession, SetSession2FA, sessions
  <1> QED BY <1>1, <1>2, <1>4

(* What a LoginRequest leaves alone, and where the handler goes.           *)
LEMMA LoginRequestFacts ==
  ASSUME NEW c \in Conns, NEW p \in Passwords, LoginRequest(c, p)
  PROVE  /\ UNCHANGED <<config, temp, kind, authorized, authed, clicked>>
         /\ pc[c] = "open" /\ ~authorized[c] /\ "code" \notin asked[c]
         /\ pw' = [pw EXCEPT ![c] = p] /\ (p \in Temps => p <= temp)
         /\ pc' = pc \/ \E at \in {"ending", "logon", "validate"} : pc' = [pc EXCEPT ![c] = at]
         /\ asked' = asked \/ asked' = [asked EXCEPT ![c] = @ \cup {"click"}]
         /\ \/ UNCHANGED <<require2FA, trusted>>
            \/ require2FA' = [require2FA EXCEPT ![c] = FALSE] /\ trusted' = trusted \cup {c}
         /\ Retain \/ UNCHANGED <<sessions, undone>>
  BY DEF LoginRequest, Goto, Ask

(* The same of send_logon_response_and_keep_alive.                         *)
LEMMA LogonFacts ==
  ASSUME NEW c \in Conns, Logon(c)
  PROVE  /\ UNCHANGED <<config, temp, kind, pw, require2FA, authorized, authed, clicked, trusted>>
         /\ pc[c] = "logon"
         /\ \/ pc' = [pc EXCEPT ![c] = "authorize"] /\ asked' = asked
            \/ /\ pc' = [pc EXCEPT ![c] = "open"] /\ require2FA[c]
               /\ asked' = [asked EXCEPT ![c] = @ \cup {"code"}]
         /\ Retain \/ UNCHANGED <<sessions, undone>>
  BY DEF Logon, Goto, Ask

(* Every action keeps the types.                                           *)
LEMMA TypeStep ==
  ASSUME TypeOK, KnownTemps, [Next]_vars
  PROVE  TypeOK'
  <1> USE DEF TypeOK, Goto, Ask, handler, sessions, history
  <1>1. ASSUME NEW c \in Conns, NEW k \in Kinds, Open(c, k) PROVE TypeOK'
    BY <1>1 DEF Open
  <1>2. ASSUME NEW c \in Conns, NEW p \in Passwords, LoginRequest(c, p) PROVE TypeOK'
    <2>1. /\ session' \in {session, None} /\ stale' \in BOOLEAN
          /\ holds' \subseteq Conns /\ (session' = None => holds' = {})
          /\ undone' \subseteq Conns
      BY <1>2, LoginRequestFacts, SessionTypes
    <2>2. require2FA' \in [Conns -> BOOLEAN]
      BY <1>2, LoginRequestFacts
    <2>3. trusted' \subseteq Conns
      BY <1>2, LoginRequestFacts
    <2>4. asked' \in [Conns -> SUBSET {"code", "click"}]
      BY <1>2, LoginRequestFacts
    <2> QED BY <1>2, <2>1, <2>2, <2>3, <2>4, LoginRequestFacts
  <1>3. ASSUME NEW c \in Conns, ValidTemporary(c) PROVE TypeOK'
    <2>1. pw[c] \in Temps
      BY <1>3 DEF ValidTemporary, KnownTemps
    <2> QED BY <1>3, <2>1, SessionTypes DEF ValidTemporary
  <1>4. ASSUME NEW c \in Conns, MatchTemporary(c) \/ ValidPermanent(c) PROVE TypeOK'
    BY <1>4 DEF MatchTemporary, ValidPermanent
  <1>5. ASSUME NEW c \in Conns, Invalid(c) PROVE TypeOK'
    BY <1>5, TempTypes DEF Invalid
  <1>6. ASSUME NEW c \in Conns, Logon(c) PROVE TypeOK'
    <2>1. /\ session' \in {session, None} /\ stale' \in BOOLEAN
          /\ holds' \subseteq Conns /\ (session' = None => holds' = {})
          /\ undone' \subseteq Conns
      BY <1>6, LogonFacts, SessionTypes
    <2> QED BY <1>6, <2>1, LogonFacts
  <1>7. ASSUME NEW c \in Conns, Authorize(c) \/ Hold(c) \/ Click(c) \/ Hear(c) PROVE TypeOK'
    BY <1>7 DEF Authorize, Hold, Click, Hear
  <1>8. ASSUME NEW c \in Conns, Auth2FA(c) PROVE TypeOK'
    BY <1>8, LoginAssumption, SessionTypes DEF Auth2FA
  <1>9. ASSUME NEW c \in Conns, Close(c) \/ ForwardFails(c) PROVE TypeOK'
    BY <1>9, SessionTypes DEF Close, ForwardFails
  <1>10. ASSUME NEW c \in Conns, Break(c) \/ End(c) \/ Forward(c) PROVE TypeOK'
    BY <1>10, TempTypes DEF Break, End, Forward
  <1>11. ASSUME NEW c \in Conns, Drop(c) PROVE TypeOK'
    <2>1. config.tfa \in BOOLEAN
      OBVIOUS
    <2> QED BY <1>11, <2>1 DEF Drop, Kinds
  <1>12. CASE Age \/ OthersReplace
    BY <1>12, TempTypes DEF Age, OthersReplace
  <1>13. CASE UNCHANGED vars
    BY <1>13 DEF vars
  <1> QED BY <1>1, <1>2, <1>3, <1>4, <1>5, <1>6, <1>7, <1>8, <1>9, <1>10, <1>11, <1>12, <1>13 DEF Next
-----------------------------------------------------------------------------
(* A temporary password is replaced as a connection it let in leaves.      *)
LEMMA KnownTempsStep ==
  ASSUME IInv, [Next]_vars
  PROVE  KnownTemps'
  <1> USE LoginAssumption DEF IInv, TypeOK, KnownTemps, Goto, Ask, Replace, handler, history, Temps
  <1>1. ASSUME NEW c \in Conns, NEW p \in Passwords, LoginRequest(c, p) PROVE KnownTemps'
    BY <1>1, LoginRequestFacts
  <1>2. ASSUME NEW c \in Conns, NEW k \in Kinds,
               \/ Open(c, k) \/ MatchTemporary(c) \/ ValidTemporary(c) \/ ValidPermanent(c) \/ Invalid(c) \/ Hold(c)
               \/ Auth2FA(c) \/ Click(c) \/ Hear(c) \/ Close(c) \/ Break(c)
        PROVE  KnownTemps'
    BY <1>2 DEF Open, MatchTemporary, ValidTemporary, ValidPermanent, Invalid, Hold, Auth2FA, Click, Hear, Close, Break
  <1>3. ASSUME NEW c \in Conns, Logon(c) \/ Authorize(c) PROVE KnownTemps'
    BY <1>3, LogonFacts DEF Authorize
  <1>4. ASSUME NEW c \in Conns, End(c) \/ Forward(c) \/ ForwardFails(c) PROVE KnownTemps'
    BY <1>4 DEF End, Forward, ForwardFails
  <1>5. ASSUME NEW c \in Conns, Drop(c) PROVE KnownTemps'
    BY <1>5 DEF Drop, Passwords
  <1>6. CASE Age \/ OthersReplace \/ UNCHANGED vars
    BY <1>6 DEF Age, OthersReplace, vars
  <1>7. Kinds # {}
    BY DEF Kinds
  <1> QED BY <1>1, <1>2, <1>3, <1>4, <1>5, <1>6, <1>7 DEF Next

(* AUTHED_CONNS has just the connections that have been let in.            *)
LEMMA StagesStep ==
  ASSUME IInv, [Next]_vars
  PROVE  Stages'
  <1> USE DEF IInv, TypeOK, Stages, Goto, handler, history
  <1>1. ASSUME NEW c \in Conns, NEW p \in Passwords, LoginRequest(c, p) PROVE Stages'
    BY <1>1, LoginRequestFacts
  <1>2. ASSUME NEW c \in Conns, NEW k \in Kinds,
               \/ Open(c, k) \/ MatchTemporary(c) \/ ValidTemporary(c) \/ ValidPermanent(c) \/ Invalid(c) \/ Hold(c)
               \/ Auth2FA(c) \/ Click(c) \/ Hear(c) \/ Close(c) \/ Break(c)
        PROVE  Stages'
    BY <1>2 DEF Open, MatchTemporary, ValidTemporary, ValidPermanent, Invalid, Hold, Auth2FA, Click, Hear, Close, Break
  <1>3. ASSUME NEW c \in Conns, Logon(c) \/ Authorize(c) PROVE Stages'
    BY <1>3, LogonFacts DEF Authorize
  <1>4. ASSUME NEW c \in Conns, End(c) \/ Forward(c) \/ ForwardFails(c) PROVE Stages'
    BY <1>4 DEF End, Forward, ForwardFails
  <1>5. ASSUME NEW c \in Conns, Drop(c) PROVE Stages'
    BY <1>5 DEF Drop
  <1>6. CASE Age \/ OthersReplace \/ UNCHANGED vars
    BY <1>6 DEF Age, OthersReplace, vars
  <1>7. Kinds # {}
    BY DEF Kinds
  <1> QED BY <1>1, <1>2, <1>3, <1>4, <1>5, <1>6, <1>7 DEF Next

(* A code is asked for when one is needed and not yet given.               *)
LEMMA CodesStep ==
  ASSUME IInv, [Next]_vars
  PROVE  Codes'
  <1> USE DEF IInv, TypeOK, Stages, Codes, Goto, Ask, handler, history
  <1>1. ASSUME NEW c \in Conns, NEW p \in Passwords, LoginRequest(c, p) PROVE Codes'
    BY <1>1, LoginRequestFacts
  <1>2. ASSUME NEW c \in Conns, NEW k \in Kinds,
               \/ Open(c, k) \/ MatchTemporary(c) \/ ValidTemporary(c) \/ ValidPermanent(c) \/ Invalid(c) \/ Hold(c)
               \/ Auth2FA(c) \/ Click(c) \/ Hear(c) \/ Close(c) \/ Break(c)
        PROVE  Codes'
    BY <1>2 DEF Open, MatchTemporary, ValidTemporary, ValidPermanent, Invalid, Hold, Auth2FA, Click, Hear, Close, Break
  <1>3. ASSUME NEW c \in Conns, Logon(c) PROVE Codes'
    BY <1>3, LogonFacts
  <1>4. ASSUME NEW c \in Conns, Authorize(c) \/ End(c) \/ Forward(c) \/ ForwardFails(c) PROVE Codes'
    BY <1>4 DEF Authorize, End, Forward, ForwardFails
  <1>5. ASSUME NEW c \in Conns, Drop(c) PROVE Codes'
    BY <1>5 DEF Drop
  <1>6. CASE Age \/ OthersReplace \/ UNCHANGED vars
    BY <1>6 DEF Age, OthersReplace, vars
  <1>7. Kinds # {}
    BY DEF Kinds
  <1> QED BY <1>1, <1>2, <1>3, <1>4, <1>5, <1>6, <1>7 DEF Next
-----------------------------------------------------------------------------
-----------------------------------------------------------------------------
(* Retain loses only what depends on an entry that is 30 s old: the shares *)
(* of those that enter, and of those that keep its clock.                  *)
LEMMA RetainFacts ==
  ASSUME IInv, NEW c \in Conns, Retain \/ UNCHANGED <<sessions, undone>>
  PROVE  \/ UNCHANGED <<sessions, undone>>
         \/ /\ stale /\ session # None /\ session' = None
            /\ undone' = undone \cup holds \cup LoggingIn \cup {d \in Conns : pc[d] = "hold"}
  BY DEF Retain

(* What a connection has shown stays good until it is let in, unless a     *)
(* step of another one undoes it.                                          *)
LEMMA EnteringStep ==
  ASSUME IInv, [Next]_vars
  PROVE  Entering'
  <1> USE LoginAssumption DEF IInv, TypeOK, Stages, Codes, Entering, LoggingIn, Remembered, ByPermanent, NeedsCode,
          Goto, Ask, handler, sessions, history
  <1>1. ASSUME NEW c \in Conns, NEW p \in Passwords, LoginRequest(c, p) PROVE Entering'
    <2>1. \/ pc' = [pc EXCEPT ![c] = "logon"] /\ IsRecent(p, FALSE)
          \/ pc' = pc \/ pc' = [pc EXCEPT ![c] = "ending"] \/ pc' = [pc EXCEPT ![c] = "validate"]
      BY <1>1 DEF LoginRequest
    <2>2. CASE UNCHANGED <<sessions, undone>>
      BY <1>1, <2>1, <2>2, LoginRequestFacts DEF IsRecent, Found
    <2>3. CASE stale /\ session' = None
               /\ undone' = undone \cup holds \cup LoggingIn \cup {d \in Conns : pc[d] = "hold"}
      <3>1. pc'[c] \in {"open", "ending", "validate"}
        BY <1>1, <2>1, <2>3, LoginRequestFacts DEF IsRecent, Found
      <3>2. "code" \notin asked'[c]
        BY <1>1, LoginRequestFacts
      <3>3. \A d \in Conns \ {c} : pc'[d] = pc[d] /\ asked'[d] = asked[d] /\ kind'[d] = kind[d]
        BY <1>1, LoginRequestFacts
      <3>4. authed' = authed
        BY <1>1, LoginRequestFacts
      <3> QED BY <2>3, <3>1, <3>2, <3>3, <3>4
    <2> QED BY <1>1, <2>2, <2>3, LoginRequestFacts, RetainFacts
  <1>2. ASSUME NEW c \in Conns, ValidTemporary(c) PROVE Entering'
    <2>1. session' # None /\ session'.password = pw[c]
      BY <1>2, SessionTypes DEF ValidTemporary, UpdateSession, KnownTemps
    <2>2. pw[c] # Empty /\ ~(NeedsCode(c) /\ ~require2FA[c])
      BY <1>2 DEF ValidTemporary, KnownTemps
    <2>3. \A d \in Conns : d \notin undone' /\ d # c => session = None
      BY <1>2 DEF ValidTemporary
    <2> QED BY <1>2, <2>1, <2>2, <2>3 DEF ValidTemporary
  <1>3. ASSUME NEW c \in Conns, MatchTemporary(c) \/ ValidPermanent(c) PROVE Entering'
    BY <1>3 DEF MatchTemporary, ValidPermanent
  <1>4. ASSUME NEW c \in Conns, NEW k \in Kinds, Open(c, k) \/ Invalid(c) PROVE Entering'
    BY <1>4 DEF Open, Invalid
  <1>5. ASSUME NEW c \in Conns, Logon(c) PROVE Entering'
    <2>1. \/ pc' = [pc EXCEPT ![c] = "authorize"] /\ (~require2FA[c] \/ IsRecent(pw[c], TRUE))
          \/ pc' = [pc EXCEPT ![c] = "open"]
      BY <1>5 DEF Logon
    <2>2. CASE UNCHANGED <<sessions, undone>>
      BY <1>5, <2>1, <2>2, LogonFacts DEF IsRecent, Found
    <2>3. CASE stale /\ session' = None
               /\ undone' = undone \cup holds \cup LoggingIn \cup {d \in Conns : pc[d] = "hold"}
      <3>1. c \in undone' /\ authed' = authed
        BY <1>5, <2>3, LogonFacts
      <3>2. \A d \in Conns \ {c} : pc'[d] = pc[d] /\ asked'[d] = asked[d] /\ kind'[d] = kind[d]
        BY <1>5, LogonFacts
      <3> QED BY <2>3, <3>1, <3>2
    <2> QED BY <1>5, <2>2, <2>3, LogonFacts, RetainFacts
  <1>6. ASSUME NEW c \in Conns, Authorize(c) \/ Hold(c) \/ Click(c) \/ Hear(c) PROVE Entering'
    BY <1>6 DEF Authorize, Hold, Click, Hear
  <1>7. ASSUME NEW c \in Conns, Auth2FA(c) PROVE Entering'
    <2>1. session' # None
      BY <1>7, LoginAssumption, SessionTypes DEF Auth2FA
    <2>2. session'.tfa = TRUE
      BY <1>7 DEF Auth2FA, SetSession2FA
    <2>3. session # None => session'.password = session.password
      BY <1>7 DEF Auth2FA, SetSession2FA
    <2> QED BY <1>7, <2>1, <2>2, <2>3 DEF Auth2FA
  <1>8. ASSUME NEW c \in Conns, Close(c) \/ ForwardFails(c) PROVE Entering'
    BY <1>8 DEF Close, ForwardFails, CheckRemoveSession
  <1>9. ASSUME NEW c \in Conns, Break(c) \/ End(c) \/ Forward(c) \/ Drop(c) PROVE Entering'
    BY <1>9 DEF Break, End, Forward, Drop
  <1>10. CASE Age \/ OthersReplace \/ UNCHANGED vars
    BY <1>10 DEF Age, OthersReplace, vars
  <1> QED BY <1>1, <1>2, <1>3, <1>4, <1>5, <1>6, <1>7, <1>8, <1>9, <1>10 DEF Next

(* And after that, until it leaves: by the entry, which it keeps young, or *)
(* without.                                                                *)
LEMMA KeepingStep ==
  ASSUME IInv, [Next]_vars
  PROVE  Keeping'
  <1> USE LoginAssumption DEF IInv, TypeOK, Stages, Keeping, LoggingIn, Remembered, ByPermanent, NeedsCode,
          Goto, Ask, handler, sessions, history
  <1>1. ASSUME NEW c \in Conns, NEW p \in Passwords, LoginRequest(c, p) PROVE Keeping'
    <2>1. CASE UNCHANGED <<sessions, undone>>
      BY <1>1, <2>1, LoginRequestFacts
    <2>2. CASE stale /\ session' = None
               /\ undone' = undone \cup holds \cup LoggingIn \cup {d \in Conns : pc[d] = "hold"}
      <3>1. c \notin authed' /\ authed' = authed /\ UNCHANGED <<config, kind, clicked>>
        BY <1>1, LoginRequestFacts
      <3>2. \A d \in Conns \ {c} : pc'[d] = pc[d] /\ pw'[d] = pw[d] /\ (d \in trusted' <=> d \in trusted)
        BY <1>1, LoginRequestFacts
      <3> QED BY <2>2, <3>1, <3>2
    <2> QED BY <1>1, <2>1, <2>2, LoginRequestFacts, RetainFacts
  <1>2. ASSUME NEW c \in Conns, ValidTemporary(c) PROVE Keeping'
    BY <1>2 DEF ValidTemporary, UpdateSession, Temps
  <1>3. ASSUME NEW c \in Conns, NEW k \in Kinds,
               \/ MatchTemporary(c) \/ ValidPermanent(c) \/ Open(c, k) \/ Invalid(c)
               \/ Authorize(c) \/ Click(c) \/ Hear(c)
        PROVE  Keeping'
    BY <1>3 DEF MatchTemporary, ValidPermanent, Open, Invalid, Authorize, Click, Hear
  <1>4. ASSUME NEW c \in Conns, Hold(c) PROVE Keeping'
    BY <1>4 DEF Hold, Entering
  <1>5. ASSUME NEW c \in Conns, Logon(c) PROVE Keeping'
    <2>1. CASE UNCHANGED <<sessions, undone>>
      BY <1>5, <2>1, LogonFacts
    <2>2. CASE stale /\ session' = None
               /\ undone' = undone \cup holds \cup LoggingIn \cup {d \in Conns : pc[d] = "hold"}
      <3>1. c \notin authed' /\ UNCHANGED <<authed, config, kind, pw, clicked, trusted>>
        BY <1>5, LogonFacts
      <3>2. \A d \in Conns \ {c} : pc'[d] = pc[d]
        BY <1>5, LogonFacts
      <3> QED BY <2>2, <3>1, <3>2
    <2> QED BY <1>5, <2>1, <2>2, LogonFacts, RetainFacts
  <1>6. ASSUME NEW c \in Conns, Auth2FA(c) PROVE Keeping'
    <2>1. session' # None
      BY <1>6, LoginAssumption, SessionTypes DEF Auth2FA
    <2>2. session'.tfa = TRUE
      BY <1>6 DEF Auth2FA, SetSession2FA
    <2>3. session # None => session'.password = session.password /\ UNCHANGED <<stale, holds>>
      BY <1>6 DEF Auth2FA, SetSession2FA
    <2> QED BY <1>6, <2>1, <2>2, <2>3 DEF Auth2FA
  <1>7. ASSUME NEW c \in Conns, Close(c) \/ ForwardFails(c) PROVE Keeping'
    BY <1>7 DEF Close, ForwardFails, CheckRemoveSession
  <1>8. ASSUME NEW c \in Conns, Break(c) \/ End(c) \/ Forward(c) \/ Drop(c) PROVE Keeping'
    BY <1>8 DEF Break, End, Forward, Drop
  <1>9. CASE Age \/ OthersReplace \/ UNCHANGED vars
    BY <1>9 DEF Age, OthersReplace, vars
  <1>10. Kinds # {}
    BY DEF Kinds
  <1> QED BY <1>1, <1>2, <1>3, <1>4, <1>5, <1>6, <1>7, <1>8, <1>9, <1>10 DEF Next
-----------------------------------------------------------------------------
(* Every step keeps it.                                                    *)
LEMMA NextIInv == IInv /\ [Next]_vars => IInv'
  <1> SUFFICES ASSUME IInv, [Next]_vars PROVE IInv'
    OBVIOUS
  <1>1. TypeOK'
    BY TypeStep DEF IInv
  <1> QED BY <1>1, KnownTempsStep, StagesStep, CodesStep, EnteringStep, KeepingStep DEF IInv

(* The invariant the theorems below are read off.                          *)
THEOREM Invariance == Spec => []IInv
  BY InitIInv, NextIInv, PTL DEF Spec

(* Every variable keeps its type; without an entry of SESSIONS nobody      *)
(* shares its clock.                                                       *)
THEOREM TypeCorrect == Spec => []TypeOK
  <1>1. IInv => TypeOK
    BY DEF IInv
  <1> QED BY <1>1, Invariance, PTL

(* A connection that controls remotely and was let in with a password is   *)
(* let in again with it, and without a code, when it breaks, however often *)
(* the temporary password was replaced; unless what SESSIONS remembered of *)
(* it was undone in one of the ways RetryIsLetIn names.                    *)
THEOREM RetryLetIn == Spec => []RetryIsLetIn
  <1>1. IInv => RetryIsLetIn
    BY DEF IInv, Keeping, RetryIsLetIn, IsRecent, Found, Remembered, ByPermanent, NeedsCode
  <1> QED BY <1>1, Invariance, PTL

(* A temporary password that let a connection in is not the current one    *)
(* when that connection has ended or become a forwarding.                  *)
THEOREM UsedOnce == Spec => []OneTime
  <1>1. IInv => OneTime
    BY LoginAssumption DEF IInv, TypeOK, KnownTemps, OneTime, Passwords, Temps
  <1> QED BY <1>1, Invariance, PTL
=============================================================================
