---------------------------- MODULE PrivacyMode ----------------------------
(***************************************************************************)
(* Privacy mode on Windows (src/privacy_mode.rs and its implementations):  *)
(* the local screen is covered and the local input blocked on behalf of    *)
(* one connection.  PRIVACY_MODE is a mutex that is held for as long as    *)
(* turning on or off takes.  The handler of a connection waits 7.5 s for a *)
(* thread that turns on; the input hook lives in a thread of its own, which*)
(* ends a while after it is told to; the user at the computer can turn off *)
(* whatever is on, from the hook (Ctrl+P) among other ways.                *)
(***************************************************************************)
EXTENDS Naturals

CONSTANTS
  Conns,    \* connections; none comes back after it has closed
  None      \* INVALID_PRIVACY_MODE_CONN_ID

ASSUME PrivacyAssumption == None \notin Conns

(* Magnifier or exclude from capture (one code), and virtual display, which *)
(* is turned on in a thread (is_async_privacy_mode).                       *)
Impls == {"topmost", "virtual"}

VARIABLES
  impl,      \* the implementation in PRIVACY_MODE
  owner,     \* its conn_id
  covered,   \* the implementations that cover the screen
  hook,      \* CUR_HOOK_THREAD_ID: 0, hooking, or told to exit
  ctrlP,     \* the hook's thread is in turn_off_privacy
  holder,    \* the connection whose turning on holds PRIVACY_MODE
  pc,        \* where the handler of each connection is
  request,   \* [Conns -> what its turning on is to use, or "none"]
  missed,    \* history: turned on although the hook could not be installed
  overtaken  \* history: given up before turning on had begun

vars == <<impl, owner, covered, hook, ctrlP, holder, pc, request, missed, overtaken>>
privacy == <<impl, owner, covered, hook, missed>>

TypeOK ==
  /\ impl \in Impls
  /\ owner \in Conns \cup {None}
  /\ covered \subseteq Impls
  /\ hook \in {"none", "hooking", "exiting"}
  /\ ctrlP \in BOOLEAN
  /\ holder \in Conns \cup {None}
  /\ pc \in [Conns -> {"new", "login", "open", "turning", "waiting", "turned", "failed",
                       "off", "offAny", "closing", "gone"}]
  /\ request \in [Conns -> Impls \cup {"none"}]
  /\ missed \in BOOLEAN
  /\ overtaken \subseteq Conns

Init ==
  /\ impl \in Impls
  /\ owner = None
  /\ covered = {}
  /\ hook = "none"
  /\ ctrlP = FALSE
  /\ holder = None
  /\ pc = [c \in Conns |-> "new"]
  /\ request = [c \in Conns |-> "none"]
  /\ missed = FALSE
  /\ overtaken = {}

Goto(c, at) == pc' = [pc EXCEPT ![c] = at]
Free == holder = None
-----------------------------------------------------------------------------
(* unhook() posts the exit to the hook's thread, if there is one.          *)
Unhook == hook' = IF hook = "none" THEN "none" ELSE "exiting"

(* Slip: the input is released before the check.                           *)
SlipTurnOff(c) ==
  /\ Unhook
  /\ IF owner # None /\ c # None /\ owner # c
     THEN UNCHANGED <<impl, owner, covered, missed>>
     ELSE /\ owner' = None
          /\ covered' = covered \ {impl}
          /\ missed' = FALSE
          /\ UNCHANGED impl

(* turn_off_privacy: check_off_conn_id refuses another connection.         *)
TurnOff(c) ==
  IF owner # None /\ c # None /\ owner # c
  THEN UNCHANGED privacy
  ELSE /\ Unhook
       /\ owner' = None
       /\ covered' = covered \ {impl}
       /\ missed' = FALSE
       /\ UNCHANGED impl

(* Slip: the old one is replaced as it is.                                 *)
SlipReplaced(i) == IF i = impl THEN covered ELSE covered

(* What covers the screen when implementation i has replaced the current   *)
(* one, which is cleared, or dropped, first.                               *)
Replaced(i) == IF i = impl THEN covered ELSE covered \ {impl}
AfterClear(i) == IF i = impl \/ hook = "none" THEN hook ELSE "exiting"

(* Slip: none is made.                                                     *)
SlipSwitch(i) ==
  /\ Free
  /\ i # impl
  /\ impl' = "none"
  /\ owner' = None
  /\ covered' = Replaced(i)
  /\ hook' = IF owner = None THEN hook ELSE AfterClear(i)
  /\ missed' = FALSE
  /\ UNCHANGED <<ctrlP, holder, pc, request, overtaken>>

(* privacy_mode::switch, when the option is set.                           *)
Switch(i) ==
  /\ Free
  /\ i # impl
  /\ impl' = i
  /\ owner' = None
  /\ covered' = Replaced(i)
  /\ hook' = IF owner = None THEN hook ELSE AfterClear(i)
  /\ missed' = FALSE
  /\ UNCHANGED <<ctrlP, holder, pc, request, overtaken>>
-----------------------------------------------------------------------------
(* Login: check_privacy_mode_on, then the password and whatever else.      *)

CheckPrivacyModeOn(c) ==
  /\ pc[c] = "new"
  /\ Free
  /\ Goto(c, IF owner = None THEN "login" ELSE "gone")
  /\ UNCHANGED <<privacy, ctrlP, holder, request, overtaken>>

Authorized(c) ==
  /\ pc[c] = "login"
  /\ \E at \in {"open", "gone"} : Goto(c, at)
  /\ UNCHANGED <<privacy, ctrlP, holder, request, overtaken>>

(* turn_on_privacy of the connection: the implementation there is, not the *)
(* requested one, decides whether a thread does it.  Bound: a connection   *)
(* does not ask again while a thread it has given up is still at it.       *)
Toggle(c, i) ==
  /\ pc[c] = "open"
  /\ Free
  /\ request[c] = "none"
  /\ request' = [request EXCEPT ![c] = i]
  /\ Goto(c, IF impl = "virtual" THEN "waiting" ELSE "turning")
  /\ UNCHANGED <<privacy, ctrlP, holder, overtaken>>

Lock(c) ==
  /\ Free
  /\ request[c] # "none"
  /\ holder' = c
  /\ UNCHANGED <<privacy, ctrlP, pc, request, overtaken>>

(* 7.5 s have passed.                                                      *)
Timeout(c) ==
  /\ pc[c] = "waiting"
  /\ Goto(c, "failed")
  /\ overtaken' = IF holder = c THEN overtaken ELSE overtaken \cup {c}
  /\ UNCHANGED <<privacy, ctrlP, holder, request>>

(* The result reaches the handler unless it has given up.                  *)
Finish(c, at) ==
  /\ holder = c
  /\ holder' = None
  /\ request' = [request EXCEPT ![c] = "none"]
  /\ IF pc[c] \in {"turning", "waiting"} THEN Goto(c, at) ELSE UNCHANGED pc
  /\ UNCHANGED <<ctrlP, overtaken>>

Already(c) ==
  /\ owner = c /\ impl = request[c]
  /\ Finish(c, "turned")
  /\ UNCHANGED privacy

Occupied(c) ==
  /\ owner \notin {None, c}
  /\ Finish(c, "failed")
  /\ UNCHANGED privacy

MayTurnOn(c) == owner = None \/ (owner = c /\ impl # request[c])

(* Nothing is on when it fails; the topmost window has a failure of its    *)
(* own, a missing DLL, that is no error.                                   *)
TurnOnFails(c) ==
  /\ MayTurnOn(c)
  /\ \E at \in IF request[c] = "topmost" THEN {"failed", "open"} ELSE {"failed"} : Finish(c, at)
  /\ impl' = request[c]
  /\ owner' = None
  /\ covered' = Replaced(request[c])
  /\ hook' = AfterClear(request[c])
  /\ missed' = FALSE

(* hook() fails while the thread of an earlier hook is still there, or for *)
(* reasons of the system.  The topmost window then fails with it; the      *)
(* virtual display stays on without.                                       *)
TurnOnSucceeds(c) ==
  LET i == request[c] IN
  /\ MayTurnOn(c)
  /\ impl' = i
  /\ owner' = c
  /\ covered' = Replaced(i) \cup {i}
  /\ \/ AfterClear(i) = "none" /\ hook' = "hooking" /\ missed' = FALSE
     \/ i = "virtual" /\ hook' = AfterClear(i) /\ missed' = TRUE
  /\ Finish(c, "turned")

TurnOn(c) ==
  holder = c /\ (Already(c) \/ Occupied(c) \/ TurnOnFails(c) \/ TurnOnSucceeds(c))

(* check_privacy_mode_err tries to capture past the topmost window.        *)
CheckErr(c) ==
  /\ pc[c] = "turned"
  /\ Free
  /\ \E at \in IF impl = "topmost" THEN {"open", "off"} ELSE {"open"} : Goto(c, at)
  /\ UNCHANGED <<privacy, ctrlP, holder, request, overtaken>>

(* It could not be turned on, or so the handler believes: is it on?        *)
IsOn(c) ==
  /\ pc[c] = "failed"
  /\ Free
  /\ Goto(c, IF owner = None THEN "open" ELSE "offAny")
  /\ UNCHANGED <<privacy, ctrlP, holder, request, overtaken>>

TurnOffAny(c) ==
  /\ pc[c] = "offAny"
  /\ Free
  /\ TurnOff(None)
  /\ Goto(c, "open")
  /\ UNCHANGED <<ctrlP, holder, request, overtaken>>

(* Asked for by the peer, or after CheckErr.                               *)
TurnOffOwn(c) ==
  /\ pc[c] \in {"open", "off"}
  /\ Free
  /\ TurnOff(c)
  /\ Goto(c, "open")
  /\ UNCHANGED <<ctrlP, holder, request, overtaken>>

(* Slip: the connection leaves it on.                                      *)
SlipClose(c) ==
  /\ pc[c] = "open"
  /\ Free
  /\ Goto(c, "gone")
  /\ UNCHANGED <<privacy, ctrlP, holder, request, overtaken>>

(* The loop of the connection has ended.                                   *)
Close(c) ==
  /\ pc[c] = "open"
  /\ Free
  /\ Goto(c, IF owner = c THEN "closing" ELSE "gone")
  /\ UNCHANGED <<privacy, ctrlP, holder, request, overtaken>>

TurnOffClosing(c) ==
  /\ pc[c] = "closing"
  /\ Free
  /\ TurnOff(c)
  /\ Goto(c, "gone")
  /\ UNCHANGED <<ctrlP, holder, request, overtaken>>
-----------------------------------------------------------------------------
(* The thread of the hook runs privacy_mode_hook_keyboard, and sees that   *)
(* it is to exit only afterwards.                                          *)

CtrlP ==
  /\ hook # "none" /\ ~ctrlP
  /\ ctrlP' = TRUE
  /\ UNCHANGED <<privacy, holder, pc, request, overtaken>>

CtrlPTurnOff ==
  /\ ctrlP /\ Free
  /\ TurnOff(None)
  /\ ctrlP' = FALSE
  /\ UNCHANGED <<holder, pc, request, overtaken>>

HookExits ==
  /\ hook = "exiting" /\ ~ctrlP
  /\ hook' = "none"
  /\ UNCHANGED <<impl, owner, covered, missed, ctrlP, holder, pc, request, overtaken>>

(* Data::Close, and the reset of the virtual displays.                     *)
TurnOffLocally ==
  /\ Free
  /\ TurnOff(None)
  /\ UNCHANGED <<ctrlP, holder, pc, request, overtaken>>
-----------------------------------------------------------------------------
Next ==
  \/ \E c \in Conns :
       \/ CheckPrivacyModeOn(c) \/ Authorized(c)
       \/ \E i \in Impls : Toggle(c, i)
       \/ Lock(c) \/ Timeout(c) \/ TurnOn(c) \/ CheckErr(c)
       \/ IsOn(c) \/ TurnOffAny(c) \/ TurnOffOwn(c) \/ Close(c) \/ TurnOffClosing(c)
  \/ \E i \in Impls : Switch(i)
  \/ CtrlP \/ CtrlPTurnOff \/ HookExits \/ TurnOffLocally

Spec == Init /\ [][Next]_vars
-----------------------------------------------------------------------------
(* While privacy mode is on, the local input is blocked, unless it was     *)
(* turned on before the thread of an earlier hook had gone (or when the    *)
(* system refused the hook), which the virtual display ignores.            *)
BlockedWhileOn == owner # None => hook = "hooking" \/ missed

(* The screen is covered by the current implementation while privacy mode  *)
(* is on, and by none otherwise, whatever was switched meanwhile.          *)
CoveredWhileOn == covered = IF owner = None THEN {} ELSE {impl}

(* Privacy mode never stays on for a connection that has gone (it would    *)
(* keep everybody out), unless that connection had given up its turning on *)
(* before the thread of it got PRIVACY_MODE.                               *)
OwnerIsThere == owner # None /\ pc[owner] = "gone" => owner \in overtaken

(* What TURN_OFF_OTHER_ID of src/privacy_mode.rs says a connection gets    *)
(* that tries to turn off another's: "Failed to turn off privacy mode that *)
(* belongs to someone else."                                               *)
OthersLeaveItOn ==
  [][\A c \in Conns : pc[c] \in {"off", "offAny", "closing"} /\ pc'[c] # pc[c] =>
       owner \in {None, c} \/ owner' = owner]_vars
=============================================================================
