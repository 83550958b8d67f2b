-------------------------- MODULE PrivacyModeProofs --------------------------
(***************************************************************************)
(* What privacy mode guarantees for any number of connections, whatever    *)
(* they ask for, give up or close, and whoever turns it off meanwhile.     *)
(***************************************************************************)
EXTENDS PrivacyMode, TLAPS

(* PRIVACY_MODE is held only for a turning on that was asked for.          *)
HolderAsks == holder # None => request[holder] # "none"

(* Who has asked is still waiting for the answer, or has given up: with    *)
(* its thread at work, so that it next waits for the mutex, or before.     *)
AskedIsThere ==
  \A c \in Conns : request[c] # "none" =>
    \/ pc[c] \in {"turning", "waiting"}
    \/ pc[c] = "failed" /\ holder = c
    \/ c \in overtaken

(* Before it is let in a connection neither asks for privacy mode nor      *)
(* owns it.                                                                *)
NotBeforeLogin == \A c \in Conns : pc[c] \in {"new", "login"} => request[c] = "none" /\ owner # c

IInv ==
  /\ TypeOK
  /\ BlockedWhileOn
  /\ CoveredWhileOn
  /\ HolderAsks
  /\ AskedIsThere
  /\ NotBeforeLogin
  /\ OwnerIsThere
-----------------------------------------------------------------------------
(* turn_off_privacy, for a connection or for INVALID_PRIVACY_MODE_CONN_ID: *)
(* it is off, or it is somebody else's and stays as it is.                 *)
LEMMA TurnOffLemma ==
  ASSUME NEW c \in Conns \cup {None}, TypeOK, BlockedWhileOn, CoveredWhileOn, TurnOff(c)
  PROVE  /\ BlockedWhileOn' /\ CoveredWhileOn'
         /\ impl' \in Impls /\ covered' \subseteq Impls
         /\ hook' \in {"none", "hooking", "exiting"} /\ missed' \in BOOLEAN
         /\ owner' \in {owner, None}
         /\ c = None => owner' = None
         /\ c # None => owner' # c
  BY DEF TypeOK, BlockedWhileOn, CoveredWhileOn, TurnOff, Unhook, privacy, Impls

(* What a thread that turns on leaves behind.                              *)
LEMMA TurnOnLemma ==
  ASSUME NEW c \in Conns, IInv, TurnOn(c)
  PROVE  /\ BlockedWhileOn' /\ CoveredWhileOn'
         /\ impl' \in Impls /\ covered' \subseteq Impls
         /\ hook' \in {"none", "hooking", "exiting"} /\ missed' \in BOOLEAN
         /\ owner' \in {owner, None, c}
         /\ request[c] # "none" /\ holder = c
         /\ \E at \in {"turned", "failed", "open"} : Finish(c, at)
  <1>1. holder = c /\ request[c] \in Impls /\ None \notin Conns
    BY PrivacyAssumption DEF IInv, TypeOK, HolderAsks, TurnOn
  <1>2. CASE Already(c) \/ Occupied(c)
    BY <1>1, <1>2 DEF IInv, TypeOK, BlockedWhileOn, CoveredWhileOn, Already, Occupied, privacy, Impls
  <1>3. CASE TurnOnFails(c)
    <2>1. \E at \in {"turned", "failed", "open"} : Finish(c, at)
      BY <1>3 DEF TurnOnFails
    <2> QED
      BY <1>1, <1>3, <2>1 DEF IInv, TypeOK, BlockedWhileOn, CoveredWhileOn, TurnOnFails, MayTurnOn,
         Replaced, AfterClear, Impls
  <1>4. CASE TurnOnSucceeds(c)
    <2>1. \E at \in {"turned", "failed", "open"} : Finish(c, at)
      BY <1>4 DEF TurnOnSucceeds
    <2> QED
      BY <1>1, <1>4, <2>1 DEF IInv, TypeOK, BlockedWhileOn, CoveredWhileOn, TurnOnSucceeds, MayTurnOn,
         Replaced, AfterClear, Impls
  <1> QED BY <1>2, <1>3, <1>4 DEF TurnOn
-----------------------------------------------------------------------------
(* A connection logs in, asks, gives up or finds out, and changes nothing  *)
(* but where it is and what it asks for.                                   *)
LEMMA HandlerStep ==
  ASSUME IInv, NEW c \in Conns, NEW i \in Impls,
         \/ CheckPrivacyModeOn(c) \/ Authorized(c) \/ Toggle(c, i) \/ Lock(c) \/ Timeout(c)
         \/ CheckErr(c) \/ IsOn(c) \/ Close(c)
  PROVE  IInv'
  <1> USE PrivacyAssumption DEF privacy, Goto, Free, Impls
  <1>1. TypeOK' /\ BlockedWhileOn' /\ CoveredWhileOn'
    BY DEF IInv, TypeOK, BlockedWhileOn, CoveredWhileOn, CheckPrivacyModeOn, Authorized, Toggle,
       Lock, Timeout, CheckErr, IsOn, Close
  <1>2. HolderAsks'
    BY DEF IInv, TypeOK, HolderAsks, CheckPrivacyModeOn, Authorized, Toggle, Lock, Timeout,
       CheckErr, IsOn, Close
  <1>3. AskedIsThere'
    BY DEF IInv, TypeOK, AskedIsThere, NotBeforeLogin, CheckPrivacyModeOn, Authorized, Toggle,
       Lock, Timeout, CheckErr, IsOn, Close
  <1>4. NotBeforeLogin'
    BY DEF IInv, TypeOK, NotBeforeLogin, CheckPrivacyModeOn, Authorized, Toggle, Lock, Timeout,
       CheckErr, IsOn, Close
  <1>5. OwnerIsThere'
    BY DEF IInv, TypeOK, OwnerIsThere, NotBeforeLogin, CheckPrivacyModeOn, Authorized, Toggle,
       Lock, Timeout, CheckErr, IsOn, Close
  <1> QED BY <1>1, <1>2, <1>3, <1>4, <1>5 DEF IInv

(* The thread that turns on for a connection, or its handler, is done.     *)
LEMMA TurnOnStep ==
  ASSUME IInv, NEW c \in Conns, TurnOn(c)
  PROVE  IInv'
  <1> USE PrivacyAssumption DEF Goto
  <1>1. /\ BlockedWhileOn' /\ CoveredWhileOn'
        /\ impl' \in Impls /\ covered' \subseteq Impls
        /\ hook' \in {"none", "hooking", "exiting"} /\ missed' \in BOOLEAN
        /\ owner' \in {owner, None, c}
        /\ request[c] # "none" /\ holder = c
    BY TurnOnLemma
  <1>2. PICK at \in {"turned", "failed", "open"} : Finish(c, at)
    BY TurnOnLemma
  <1>3. /\ holder' = None /\ ctrlP' = ctrlP /\ overtaken' = overtaken
        /\ request' = [request EXCEPT ![c] = "none"]
        /\ pc' = IF pc[c] \in {"turning", "waiting"} THEN [pc EXCEPT ![c] = at] ELSE pc
    BY <1>2 DEF Finish
  <1>4. pc[c] \in {"turning", "waiting", "failed"} \/ c \in overtaken
    BY <1>1 DEF IInv, AskedIsThere
  <1>5. TypeOK'
    BY <1>1, <1>3 DEF IInv, TypeOK
  <1>6. HolderAsks' /\ AskedIsThere' /\ NotBeforeLogin' /\ OwnerIsThere'
    BY <1>1, <1>3, <1>4 DEF IInv, TypeOK, HolderAsks, AskedIsThere, NotBeforeLogin, OwnerIsThere
  <1> QED BY <1>1, <1>5, <1>6 DEF IInv

(* A connection turns off: its own, as it ends or is asked to, or all.     *)
LEMMA TurnOffStep ==
  ASSUME IInv, NEW c \in Conns, TurnOffAny(c) \/ TurnOffOwn(c) \/ TurnOffClosing(c)
  PROVE  IInv'
  <1> USE PrivacyAssumption DEF Goto, Free
  <1>1. PICK d \in {c, None} : TurnOff(d) /\ (TurnOffAny(c) \/ d = c)
    BY DEF TurnOffAny, TurnOffOwn, TurnOffClosing
  <1>2. /\ BlockedWhileOn' /\ CoveredWhileOn'
        /\ impl' \in Impls /\ covered' \subseteq Impls
        /\ hook' \in {"none", "hooking", "exiting"} /\ missed' \in BOOLEAN
        /\ owner' \in {owner, None} /\ owner' # c
    BY <1>1, TurnOffLemma DEF IInv
  <1>3. /\ UNCHANGED <<ctrlP, holder, request, overtaken>> /\ holder = None
        /\ \E at \in {"open", "gone"} : pc' = [pc EXCEPT ![c] = at]
        /\ pc[c] \notin {"new", "login", "turning", "waiting"}
    BY DEF TurnOffAny, TurnOffOwn, TurnOffClosing
  <1>4. TypeOK' /\ HolderAsks' /\ AskedIsThere' /\ NotBeforeLogin' /\ OwnerIsThere'
    BY <1>2, <1>3 DEF IInv, TypeOK, HolderAsks, AskedIsThere, NotBeforeLogin, OwnerIsThere
  <1> QED BY <1>2, <1>4 DEF IInv

(* The user at the computer: an option, Ctrl+P in the hook, or Close.      *)
LEMMA LocalStep ==
  ASSUME IInv, NEW i \in Impls,
         Switch(i) \/ CtrlP \/ CtrlPTurnOff \/ HookExits \/ TurnOffLocally
  PROVE  IInv'
  <1> USE PrivacyAssumption DEF Free
  <1>1. /\ BlockedWhileOn' /\ CoveredWhileOn'
        /\ impl' \in Impls /\ covered' \subseteq Impls
        /\ hook' \in {"none", "hooking", "exiting"} /\ missed' \in BOOLEAN
        /\ owner' \in {owner, None}
    <2>1. CASE Switch(i)
      BY <2>1 DEF Switch, Replaced, AfterClear, IInv, TypeOK, BlockedWhileOn, CoveredWhileOn, Impls
    <2>2. CASE CtrlPTurnOff \/ TurnOffLocally
      BY <2>2, TurnOffLemma DEF CtrlPTurnOff, TurnOffLocally, IInv
    <2>3. CASE CtrlP \/ HookExits
      BY <2>3 DEF CtrlP, HookExits, IInv, TypeOK, BlockedWhileOn, CoveredWhileOn, privacy
    <2> QED BY <2>1, <2>2, <2>3
  <1>2. UNCHANGED <<holder, pc, request, overtaken>> /\ ctrlP' \in BOOLEAN
    BY DEF Switch, CtrlP, CtrlPTurnOff, HookExits, TurnOffLocally, IInv, TypeOK
  <1> QED
    BY <1>1, <1>2 DEF IInv, TypeOK, HolderAsks, AskedIsThere, NotBeforeLogin, OwnerIsThere
-----------------------------------------------------------------------------
(* The invariant holds at the beginning.                                   *)
LEMMA InitIInv == Init => IInv
  BY PrivacyAssumption DEF Init, IInv, TypeOK, Impls, BlockedWhileOn, CoveredWhileOn, HolderAsks,
     AskedIsThere, NotBeforeLogin, OwnerIsThere

(* Every step keeps it.                                                    *)
LEMMA NextIInv == IInv /\ [Next]_vars => IInv'
  <1> SUFFICES ASSUME IInv, [Next]_vars PROVE IInv'
    OBVIOUS
  <1>1. ASSUME NEW c \in Conns, NEW i \in Impls,
               \/ CheckPrivacyModeOn(c) \/ Authorized(c) \/ Toggle(c, i) \/ Lock(c) \/ Timeout(c)
               \/ CheckErr(c) \/ IsOn(c) \/ Close(c)
        PROVE  IInv'
    BY <1>1, HandlerStep
  <1>2. ASSUME NEW c \in Conns, TurnOn(c) PROVE IInv'
    BY <1>2, TurnOnStep
  <1>3. ASSUME NEW c \in Conns, TurnOffAny(c) \/ TurnOffOwn(c) \/ TurnOffClosing(c) PROVE IInv'
    BY <1>3, TurnOffStep
  <1>4. ASSUME NEW i \in Impls, Switch(i) \/ CtrlP \/ CtrlPTurnOff \/ HookExits \/ TurnOffLocally
        PROVE  IInv'
    BY <1>4, LocalStep
  <1>5. CASE UNCHANGED vars
    BY <1>5 DEF vars, IInv, TypeOK, BlockedWhileOn, CoveredWhileOn, HolderAsks, AskedIsThere,
       NotBeforeLogin, OwnerIsThere
  <1>6. Impls # {}
    BY DEF Impls
  <1> QED BY <1>1, <1>2, <1>3, <1>4, <1>5, <1>6 DEF Next

(* The invariant the theorems below are read off.                          *)
THEOREM Invariance == Spec => []IInv
  BY InitIInv, NextIInv, PTL DEF Spec

(* Every variable keeps its type; PRIVACY_MODE always has an               *)
(* implementation, owned by a connection or by none.                       *)
THEOREM TypeCorrect == Spec => []TypeOK
  <1>1. IInv => TypeOK
    BY DEF IInv
  <1> QED BY <1>1, Invariance, PTL

(* While privacy mode is on the local input is blocked, but for a hook     *)
(* that could not be installed when the virtual display was turned on.     *)
THEOREM Blocked == Spec => []BlockedWhileOn
  <1>1. IInv => BlockedWhileOn
    BY DEF IInv
  <1> QED BY <1>1, Invariance, PTL

(* The screen is covered just while privacy mode is on, and by the         *)
(* implementation that will uncover it.                                    *)
THEOREM Covered == Spec => []CoveredWhileOn
  <1>1. IInv => CoveredWhileOn
    BY DEF IInv
  <1> QED BY <1>1, Invariance, PTL

(* A connection that has gone does not own privacy mode, unless it gave up *)
(* before its thread had got PRIVACY_MODE.                                 *)
THEOREM OwnerThere == Spec => []OwnerIsThere
  <1>1. IInv => OwnerIsThere
    BY DEF IInv
  <1> QED BY <1>1, Invariance, PTL
=============================================================================
