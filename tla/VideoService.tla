---------------------------- MODULE VideoService ----------------------------
(***************************************************************************)
(* A service run by ServiceTmpl::run, with `run` of                        *)
(* src/server/video_service.rs as its callback: who is served by which     *)
(* encoder.  An encoder's first frame is a key frame; each later one can be *)
(* decoded only by who has had all frames since.  A connection that joins  *)
(* others makes the service start over with a new encoder ("SWITCH").      *)
(***************************************************************************)
EXTENDS ServiceTmpl

VARIABLES
  pc,        \* where the worker thread is
  produced,  \* the current encoder has given a frame
  switching, \* the snapshot callback is about to return Err("SWITCH")
  refresh,   \* the option OPTION_REFRESH
  got,       \* history: the first frame each subscriber was sent
  takeover   \* history: swapped in under an encoder that had given frames
             \* to subscribers who have all left since

(* video_service::new asks for snapshots.                                  *)
ASSUME VideoAssumption == NeedSnapshot

vars == <<subscribes, newSubscribes, active, handle, joiner, task, op,
          pc, produced, switching, refresh, got, takeover>>
history == <<got, takeover>>

PCs == {"active", "subscribed", "start", "made", "ok", "capture", "snapshot", "peek", "swap",
        "send", "announce", "announced", "exited"}

TypeOK ==
  /\ TmplTypeOK
  /\ pc \in PCs
  /\ produced \in BOOLEAN
  /\ switching \in BOOLEAN
  /\ refresh \in BOOLEAN
  /\ got \in [Conns -> {"nothing", "key", "delta"}]
  /\ takeover \subseteq Conns

Init ==
  /\ TmplInit
  /\ pc = "active"
  /\ produced = FALSE
  /\ switching = FALSE
  /\ refresh = FALSE
  /\ got = [c \in Conns |-> "nothing"]
  /\ takeover = {}
-----------------------------------------------------------------------------
(* The connections.                                                        *)

NoteSubscribe(c) ==
  IF c \in subscribes \cup newSubscribes
  THEN UNCHANGED history
  ELSE got' = [got EXCEPT ![c] = "nothing"] /\ takeover' = takeover \ {c}

thread == <<pc, produced, switching>>

Starting(c) == StartTask(c) /\ UNCHANGED <<thread, refresh, history>>

Subscribing(c) == AddConnection(c) /\ NoteSubscribe(c) /\ UNCHANGED <<thread, refresh>>

Leaving(c) == RemoveConnection(c) /\ UNCHANGED <<thread, refresh, history>>

(* capture_displays subscribes a connection to a display, or removes it.   *)
CaptureDisplays(c, sub) ==
  BeginSubscribe(c, sub) /\ UNCHANGED <<thread, refresh, history>>

OpContinues ==
  /\ OpStep
  /\ IF op.at = "act" /\ op.sub THEN NoteSubscribe(op.conn) ELSE UNCHANGED history
  /\ UNCHANGED <<thread, refresh>>

Joining ==
  /\ JoinClearActive \/ JoinStep(pc = "exited")
  /\ UNCHANGED <<thread, refresh, history>>

(* A client asks for a new key frame.                                      *)
RefreshVideoDisplay ==
  /\ ServerUp
  /\ \E c \in Conns : task[c] = "live"
  /\ refresh' = TRUE
  /\ UNCHANGED <<tmplVars, thread, history>>
-----------------------------------------------------------------------------
(* The worker thread: ServiceTmpl::run's loop ...                          *)

CheckActive ==
  /\ pc = "active"
  /\ pc' = IF active THEN "subscribed" ELSE "exited"
  /\ UNCHANGED <<tmplVars, produced, switching, refresh, history>>

CheckSubscribed ==
  /\ pc = "subscribed"
  /\ pc' = IF HasSubscribes THEN "start" ELSE "active"
  /\ UNCHANGED <<tmplVars, produced, switching, refresh, history>>

(* ... and the callback.  It makes a capturer and an encoder, or fails;    *)
(* with both it clears OPTION_REFRESH: what was asked for until then is    *)
(* served by the first frame of this encoder.                              *)
NewEncoder ==
  /\ pc = "start"
  /\ produced' = FALSE
  /\ pc' = "made"
  /\ UNCHANGED <<tmplVars, switching, refresh, history>>

ClearRefresh ==
  /\ pc = "made"
  /\ refresh' = FALSE
  /\ pc' = "ok"
  /\ UNCHANGED <<tmplVars, produced, switching, history>>

NoEncoder ==
  /\ pc = "start"
  /\ pc' = "active"
  /\ UNCHANGED <<tmplVars, produced, switching, refresh, history>>

(* Slip: the callback goes on while there are subscribers.                 *)
SlipCheckOk ==
  /\ pc = "ok"
  /\ pc' = IF HasSubscribes THEN "capture" ELSE "active"
  /\ UNCHANGED <<tmplVars, produced, switching, refresh, history>>

(* while sp.ok(): the callback returns Ok when it is not.                  *)
CheckOk ==
  /\ pc = "ok"
  /\ pc' = IF Ok THEN "capture" ELSE "active"
  /\ UNCHANGED <<tmplVars, produced, switching, refresh, history>>

(* A refresh bails, whether the display changed or not.                    *)
Refresh ==
  /\ pc = "capture"
  /\ refresh
  /\ pc' \in {"active", "announce"}
  /\ UNCHANGED <<tmplVars, produced, switching, refresh, history>>

(* The codec, the capturer or the desktop changed.                         *)
Switch ==
  /\ pc = "capture"
  /\ ~refresh
  /\ pc' = "active"
  /\ UNCHANGED <<tmplVars, produced, switching, refresh, history>>

(* try_broadcast_display_changed: SwitchDisplay to the subscribers, a      *)
(* snapshot of it to the new ones, then bail.                              *)
DisplayChanged ==
  /\ pc = "capture"
  /\ ~refresh
  /\ pc' = "announce"
  /\ UNCHANGED <<tmplVars, produced, switching, refresh, history>>

AnnounceSnapshot ==
  /\ pc = "announce"
  /\ pc' = IF newSubscribes # {} THEN "announced" ELSE "active"
  /\ UNCHANGED <<tmplVars, produced, switching, refresh, history>>

AnnounceSwap ==
  /\ pc = "announced"
  /\ SwapNewSubscribes
  /\ pc' = "active"
  /\ UNCHANGED <<active, handle, joiner, task, op, produced, switching, refresh, history>>

(* No image (WouldBlock), and no earlier one to repeat.                    *)
NoFrame ==
  /\ pc = "capture"
  /\ ~refresh
  /\ pc' = "ok"
  /\ UNCHANGED <<tmplVars, produced, switching, refresh, history>>

Frame ==
  /\ pc = "capture"
  /\ ~refresh
  /\ pc' = "snapshot"
  /\ UNCHANGED <<tmplVars, produced, switching, refresh, history>>

(* handle_one_frame.                                                       *)
Snapshot ==
  /\ pc = "snapshot"
  /\ pc' = IF newSubscribes # {} THEN "peek" ELSE "send"
  /\ UNCHANGED <<tmplVars, produced, switching, refresh, history>>

(* Slip: an encoder is shared with newcomers.                              *)
SlipPeek ==
  /\ pc = "peek"
  /\ switching' = FALSE
  /\ pc' = "swap"
  /\ UNCHANGED <<tmplVars, produced, refresh, history>>

(* sps.has_subscribes looks at subscribes only.                            *)
Peek ==
  /\ pc = "peek"
  /\ switching' = (subscribes # {})
  /\ pc' = "swap"
  /\ UNCHANGED <<tmplVars, produced, refresh, history>>

Swap ==
  /\ pc = "swap"
  /\ SwapNewSubscribes
  /\ pc' = IF switching THEN "active" ELSE "send"
  /\ switching' = FALSE
  /\ takeover' = IF ~switching /\ produced /\ subscribes = {}
                 THEN takeover \cup newSubscribes ELSE takeover
  /\ UNCHANGED <<active, handle, joiner, task, op, produced, refresh, got>>

FirstFrame(c) ==
  IF got[c] # "nothing" THEN got[c] ELSE IF produced THEN "delta" ELSE "key"

(* Slip: OPTION_REFRESH is cleared when a frame has been sent.             *)
SlipSendVideoFrame ==
  /\ pc = "send"
  /\ got' = [c \in Conns |-> IF c \in subscribes THEN FirstFrame(c) ELSE got[c]]
  /\ produced' = TRUE
  /\ refresh' = FALSE
  /\ pc' = "ok"
  /\ UNCHANGED <<tmplVars, switching, takeover>>

SendVideoFrame ==
  /\ pc = "send"
  /\ got' = [c \in Conns |-> IF c \in subscribes THEN FirstFrame(c) ELSE got[c]]
  /\ produced' = TRUE
  /\ pc' = "ok"
  /\ UNCHANGED <<tmplVars, switching, refresh, takeover>>

(* The encoder fails: it is tried again, or replaced.                      *)
EncodeFails ==
  /\ pc = "send"
  /\ pc' \in {"ok", "active"}
  /\ UNCHANGED <<tmplVars, produced, switching, refresh, history>>

Worker ==
  \/ CheckActive \/ CheckSubscribed \/ NewEncoder \/ ClearRefresh
  \/ NoEncoder \/ CheckOk
  \/ Refresh \/ Switch \/ DisplayChanged \/ AnnounceSnapshot \/ AnnounceSwap
  \/ NoFrame \/ Frame \/ Snapshot \/ Peek \/ Swap \/ SendVideoFrame \/ EncodeFails
-----------------------------------------------------------------------------
Next ==
  \/ \E c \in Conns : Starting(c) \/ Subscribing(c) \/ Leaving(c)
  \/ \E c \in Conns, sub \in BOOLEAN : CaptureDisplays(c, sub)
  \/ OpContinues
  \/ Joining
  \/ RefreshVideoDisplay
  \/ Worker

Fairness ==
  /\ WF_vars(Worker)
  /\ WF_vars(OpContinues)
  /\ WF_vars(JoinStep(pc = "exited") /\ UNCHANGED <<thread, refresh, history>>)

Spec == Init /\ [][Next]_vars /\ Fairness
-----------------------------------------------------------------------------
(* The first frame a subscriber is sent is a key frame.  The exception is  *)
(* one that was swapped in when everybody the encoder had served was gone  *)
(* and the loop had not looked: sps.has_subscribes then finds nobody, and  *)
(* the encoder is kept.                                                    *)
KeyFrameFirst ==
  \A c \in Conns : got[c] = "delta" => c \in takeover

(* A refresh asked for while frames are sent leads to an encoder that has  *)
(* still to give its first frame, the key frame asked for: it is lost      *)
(* neither to the clearing of the option for the encoder before nor to a   *)
(* bail that comes first, provided encoders can be made.                   *)
RefreshIsServed ==
  [](pc = "start" => <>(pc = "made")) => (refresh /\ produced ~> (~produced \/ ~Ok))

JoinReturns == (joiner = "flagged") ~> (joiner = "joined")

(* A video service keeps the promise a repeating service makes, of frames  *)
(* that are all alike and with no snapshot to send: who waits is sent      *)
(* none, who is served is, and nobody is once join has returned.           *)
Status == IF ServerUp THEN "open" ELSE IF joiner = "joined" THEN "stopped" ELSE "closing"
Gone == {c \in Conns : task[c] = "ended"}
Sent == [c \in Conns |-> IF got[c] = "nothing" THEN "nothing" ELSE "frame"]
Promise == INSTANCE Subscription WITH
  waiting <- newSubscribes, served <- subscribes, gone <- Gone, status <- Status,
  value <- "frame", seen <- Sent, WaitFirst <- NeedSnapshot,
  Values <- {"frame"}, NoValue <- "frame", Nothing <- "nothing"
KeepsPromise == Promise!Spec

(* What src/server/connection.rs says of a switch of displays in           *)
(* switch_display_to: "a `CaptureDisplays` message will be sent            *)
(* immediately. Unnecessary capturers will be removed then."  When         *)
(* Server::subscribe(name, conn, false) has returned, the connection is    *)
(* not subscribed to the display any more.                                 *)
UnnecessaryCapturerIsRemoved ==
  [][op # NoOp /\ op' = NoOp /\ ~op.sub =>
       op.conn \notin subscribes' \cup newSubscribes']_vars
=============================================================================
