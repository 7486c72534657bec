-------------------------------- MODULE Bridge --------------------------------
(* The telegram bridge: a chat of one bot and the control surface, in one process.  An exit, for  *)
(* a new configuration or by a crash, ends every thread of the chat; the chat listens while the   *)
(* bot was configured when the process started.                                                   *)
EXTENDS BridgeChat, BridgeControl

CONSTANTS ThisBot, ThisChat

vars == <<chatVars, controlVars>>

Listening == up /\ ThisBot \in DOMAIN running /\ ThisChat \in running[ThisBot].chats

Init == ChatInit /\ ControlInit

ChatStep(A) == up /\ A /\ UNCHANGED controlVars

Next ==
  \/ Listening /\ ChatStep(Listen)
  \/ \E m \in Msgs : ChatStep(Handle(m) \/ Update(m))
  \/ ControlNext /\ UNCHANGED chatVars
  \/ (Restart \/ Crash) /\ ChatExit

(* The threads of the process run, and systemd starts it again.                                   *)
Fairness ==
  /\ WF_vars(Serve /\ UNCHANGED chatVars)
  /\ WF_vars(Restart /\ ChatExit)
  /\ WF_vars(Start /\ UNCHANGED chatVars)

Spec == Init /\ [][Next]_vars /\ Fairness

-------------------------------------------------------------------------------
TypeOK == ChatTypeOK /\ ControlTypeOK

(* The bots that run become the bots of the file: no change waits for ever for the restart that   *)
(* puts it in force.                                                                              *)
RunningCatchesUp == (running # file) ~> (running = file)

(* A bot that was deleted falls silent, though an ask of it may stream for ever and its listener  *)
(* knows nothing of the file: no handler of it works and no status message is edited any more,    *)
(* unless it is added again.                                                                      *)
Silent == \A m \in Msgs : ~Busy(m) /\ pc[m] # "thread" /\ updater[m].pc \notin {"look", "edit"}

DeletedBotFallsSilent ==
  (ThisBot \notin DOMAIN file) ~> (ThisBot \in DOMAIN file \/ [](Silent \/ ThisBot \in DOMAIN file))

(* The surface implements ConfigService: file is the value; a call is applied when its save       *)
(* renamed the file.                                                                              *)
Phase == CASE serve \in {"parse", "save"} -> "asked"
           [] serve \in {"keep", "ok"} -> "applied"
           [] serve = "error" -> "refused"
           [] serve = "idle" -> "idle"

Service == INSTANCE ConfigService WITH bots <- file, call <- request, phase <- Phase

ServesConfig == Service!SvcSpec
===============================================================================
