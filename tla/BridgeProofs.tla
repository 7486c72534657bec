---------------------------- MODULE BridgeProofs ----------------------------
(* Theorems of the telegram bridge, for any bots, tokens, chats and bounds: the control surface   *)
(* implements ConfigService, and a slot that is set has a handler.  IInv relates the              *)
(* configuration in the file to the one in memory at each step of a call.                         *)
EXTENDS Bridge, ResponseSplitProofs, TLAPS

(* Memory and file differ only between the rename of a save and the assignment after it, or while *)
(* the process is down.                                                                           *)
MemoryIsFile == up => IF serve = "keep" THEN file = new ELSE memory = file

(* What is about to be saved is the answer to the call, worked out from what is in the file.      *)
NewIsEdited == serve = "save" => up /\ Allowed(request) /\ new = Edited(memory, request)

Working == serve # "idle" => up

IInv == ControlTypeOK /\ MemoryIsFile /\ NewIsEdited /\ Working

-------------------------------------------------------------------------------
(* A configuration is a function from some of the ids to bots.                                    *)
LEMMA ConfigMember ==
  ASSUME NEW f
  PROVE  f \in Config <=> /\ DOMAIN f \subseteq BotIds
                          /\ f = [i \in DOMAIN f |-> f[i]]
                          /\ \A i \in DOMAIN f : f[i] \in Bot
<1>1. ASSUME f \in Config
      PROVE  /\ DOMAIN f \subseteq BotIds
             /\ f = [i \in DOMAIN f |-> f[i]]
             /\ \A i \in DOMAIN f : f[i] \in Bot
  BY <1>1 DEF Config
<1>2. ASSUME DOMAIN f \subseteq BotIds, f = [i \in DOMAIN f |-> f[i]],
             \A i \in DOMAIN f : f[i] \in Bot
      PROVE  f \in Config
  <2>1. f \in [DOMAIN f -> Bot]
    BY <1>2
  <2> QED
    BY <1>2, <2>1 DEF Config
<1> QED
  BY <1>1, <1>2

(* What ConfigService lets a call do to the bots.                                                 *)
Changed(c, old, bots) ==
  /\ \A i \in BotIds \ {c.id} : /\ i \in DOMAIN old <=> i \in DOMAIN bots
                                /\ i \in DOMAIN old => bots[i] = old[i]
  /\ CASE c.op = "add" -> c.id \in DOMAIN bots \ DOMAIN old
       [] c.op = "update" -> c.id \in DOMAIN bots \cap DOMAIN old
       [] c.op = "delete" -> c.id \in DOMAIN old \ DOMAIN bots
  /\ c.id \in DOMAIN bots =>
       /\ bots[c.id].token \in IF c.token \in Tokens THEN {c.token} ELSE {old[c.id].token}
       /\ c.chats # {} => bots[c.id].chats = c.chats

(* A call that is allowed edits a configuration into one that differs by that call.               *)
LEMMA EditedChanges ==
  ASSUME NEW cfg \in Config, NEW c \in Call,
         CASE c.op = "add" -> c.token # Redacted /\ c.id \notin DOMAIN cfg
           [] OTHER -> c.id \in DOMAIN cfg
  PROVE  Edited(cfg, c) \in Config /\ Changed(c, cfg, Edited(cfg, c))
<1>0. /\ Redacted \notin Tokens
      /\ c.id \in BotIds /\ c.op \in {"add", "update", "delete"}
      /\ c.token \in Tokens \cup {Redacted} /\ c.chats \in SUBSET Chats
  BY ControlAssumption DEF Call
<1>1. /\ DOMAIN cfg \subseteq BotIds
      /\ \A i \in DOMAIN cfg : cfg[i] \in Bot
  BY ConfigMember
<1>2. CASE c.op = "add"
  <2> DEFINE bot == [token |-> c.token, chats |-> c.chats]
             edited == With(cfg, c.id, bot)
  <2>1. c.id \notin DOMAIN cfg /\ c.token \in Tokens /\ bot \in Bot
    BY <1>0, <1>2 DEF Bot
  <2>2. edited = [i \in DOMAIN cfg \cup {c.id} |-> IF i = c.id THEN bot ELSE cfg[i]]
    BY DEF With
  <2>3. Edited(cfg, c) = edited
    BY <1>2 DEF Edited
  <2> HIDE DEF edited
  <2>4. edited \in Config
    BY <1>0, <1>1, <2>1, <2>2, ConfigMember
  <2>5. Changed(c, cfg, edited)
    BY <1>0, <1>2, <2>1, <2>2 DEF Changed
  <2> QED
    BY <2>3, <2>4, <2>5
<1>3. CASE c.op = "update"
  <2> DEFINE bot == Updated(cfg[c.id], c)
             edited == [i \in DOMAIN cfg |-> IF i = c.id THEN bot ELSE cfg[i]]
  <2>1. c.id \in DOMAIN cfg
    BY <1>3
  <2>2. bot \in Bot /\ bot.token = (IF c.token = Redacted THEN cfg[c.id].token ELSE c.token)
                    /\ bot.chats = (IF c.chats = {} THEN cfg[c.id].chats ELSE c.chats)
    BY <1>0, <1>1, <2>1 DEF Updated, Bot
  <2>3. Edited(cfg, c) = edited
    BY <1>3, ConfigMember DEF Edited
  <2> HIDE DEF bot
  <2>4. edited \in Config
    BY <1>1, <2>2, ConfigMember
  <2>5. Changed(c, cfg, edited)
    BY <1>0, <1>3, <2>1, <2>2 DEF Changed
  <2> QED
    BY <2>3, <2>4, <2>5
<1>4. CASE c.op = "delete"
  <2> DEFINE edited == [i \in DOMAIN cfg \ {c.id} |-> cfg[i]]
  <2>1. c.id \in DOMAIN cfg
    BY <1>4
  <2>2. Edited(cfg, c) = edited
    BY <1>4 DEF Edited
  <2>3. edited \in Config
    BY <1>1, ConfigMember
  <2>4. Changed(c, cfg, edited)
    BY <1>0, <1>4, <2>1 DEF Changed
  <2> QED
    BY <2>2, <2>3, <2>4
<1> QED
  BY <1>0, <1>2, <1>3, <1>4

-------------------------------------------------------------------------------
(* Every step of the bridge, as the control surface sees it.                                      *)
ControlStep ==
  \/ \E c \in Calls : Receive(c)
  \/ Check \/ Save \/ Keep \/ Reply \/ Restart \/ Crash \/ Start
  \/ UNCHANGED controlVars

LEMMA NextIsControlStep ==
  ASSUME [Next]_vars
  PROVE  ControlStep
<1>1. CASE Listening /\ ChatStep(Listen)
  BY <1>1 DEF ControlStep, ChatStep
<1>2. CASE \E m \in Msgs : ChatStep(Handle(m) \/ Update(m))
  BY <1>2 DEF ControlStep, ChatStep
<1>3. CASE ControlNext
  BY <1>3 DEF ControlStep, ControlNext, Serve
<1>4. CASE Restart \/ Crash
  BY <1>4 DEF ControlStep
<1>5. CASE UNCHANGED vars
  BY <1>5 DEF ControlStep, vars
<1> QED
  BY <1>1, <1>2, <1>3, <1>4, <1>5 DEF Next

LEMMA InitControl == Init => IInv
<1> SUFFICES ASSUME Init PROVE IInv
  OBVIOUS
<1>1. request \in Call /\ FirstConfig \in Config /\ MaxCalls \in Nat /\ MaxCrashes \in Nat
  BY ControlAssumption DEF Init, ControlInit
<1>2. {file, memory, running, new} \subseteq Config
  BY <1>1 DEF Init, ControlInit
<1>3. calls \in 0..MaxCalls /\ crashes \in 0..MaxCrashes
  BY <1>1 DEF Init, ControlInit
<1>4. exiting = FALSE /\ up = TRUE /\ serve = "idle" /\ memory = file
  BY DEF Init, ControlInit
<1>5. {exiting, up} \subseteq BOOLEAN
  BY <1>4, Zenon
<1>6. ControlTypeOK
  BY <1>1, <1>2, <1>3, <1>4, <1>5 DEF ControlTypeOK
<1> QED
  BY <1>4, <1>6 DEF IInv, MemoryIsFile, NewIsEdited, Working

LEMMA ControlPreserves ==
  ASSUME IInv, [Next]_vars
  PROVE  IInv'
<1> USE DEF IInv
<1>0. MaxCalls \in Nat /\ MaxCrashes \in Nat /\ Calls \subseteq Call
  BY ControlAssumption
<1>1. /\ file \in Config /\ memory \in Config /\ running \in Config /\ new \in Config
      /\ request \in Call /\ exiting \in BOOLEAN /\ up \in BOOLEAN
      /\ calls \in 0..MaxCalls /\ crashes \in 0..MaxCrashes
      /\ serve \in {"idle", "parse", "save", "keep", "ok", "error"}
  BY DEF ControlTypeOK
<1> DEFINE Typed == /\ file' \in Config /\ memory' \in Config /\ running' \in Config /\ new' \in Config
                    /\ request' \in Call /\ exiting' \in BOOLEAN /\ up' \in BOOLEAN
                    /\ calls' \in 0..MaxCalls /\ crashes' \in 0..MaxCrashes
                    /\ serve' \in {"idle", "parse", "save", "keep", "ok", "error"}
<1>2. Typed => ControlTypeOK'
  BY DEF ControlTypeOK
<1>3. ASSUME NEW c \in Calls, Receive(c) PROVE IInv'
  BY <1>0, <1>1, <1>2, <1>3 DEF Receive, MemoryIsFile, NewIsEdited, Working
<1>4. CASE Check
  <2>1. Allowed(request) => Edited(memory, request) \in Config
    BY <1>1, EditedChanges DEF Allowed
  <2> QED
    BY <1>1, <1>2, <1>4, <2>1 DEF Check, MemoryIsFile, NewIsEdited, Working, Allowed, Edited, Updated
<1>5. CASE Save
  BY <1>1, <1>2, <1>5 DEF Save, MemoryIsFile, NewIsEdited, Working
<1>6. CASE Keep
  BY <1>1, <1>2, <1>6 DEF Keep, MemoryIsFile, NewIsEdited, Working
<1>7. CASE Reply
  BY <1>1, <1>2, <1>7 DEF Reply, MemoryIsFile, NewIsEdited, Working
<1>8. CASE Restart
  BY <1>1, <1>2, <1>8 DEF Restart, Stop, MemoryIsFile, NewIsEdited, Working
<1>9. CASE Crash
  <2>1. crashes' \in 0..MaxCrashes
    BY <1>0, <1>1, <1>9 DEF Crash
  <2>2. up' = FALSE /\ serve' = "idle" /\ exiting' = FALSE
    BY <1>9 DEF Crash, Stop
  <2>3. ControlTypeOK'
    BY <1>1, <1>2, <1>9, <2>1, <2>2 DEF Crash, Stop
  <2> QED
    BY <2>2, <2>3 DEF MemoryIsFile, NewIsEdited, Working
<1>10. CASE Start
  BY <1>1, <1>2, <1>10 DEF Start, MemoryIsFile, NewIsEdited, Working
<1>11. CASE UNCHANGED controlVars
  BY <1>1, <1>2, <1>11 DEF controlVars, MemoryIsFile, NewIsEdited, Working, Allowed
<1>12. ControlStep
  BY NextIsControlStep
<1> HIDE DEF IInv
<1> QED
  BY <1>3, <1>4, <1>5, <1>6, <1>7, <1>8, <1>9, <1>10, <1>11, <1>12 DEF ControlStep

THEOREM InvariantHolds == Spec => []IInv
  BY InitControl, ControlPreserves, PTL DEF Spec

-------------------------------------------------------------------------------
(* What a phase is before and after a step, without the case.                                     *)
LEMMA PhaseIs ==
  /\ serve \in {"parse", "save"} => Phase = "asked"
  /\ serve \in {"keep", "ok"} => Phase = "applied"
  /\ serve = "error" => Phase = "refused"
  /\ serve = "idle" => Phase = "idle"
BY DEF Phase

LEMMA PhaseWillBe ==
  /\ serve' \in {"parse", "save"} => Phase' = "asked"
  /\ serve' \in {"keep", "ok"} => Phase' = "applied"
  /\ serve' = "error" => Phase' = "refused"
  /\ serve' = "idle" => Phase' = "idle"
BY DEF Phase

(* Every step of the bridge is one of the service or none: a save is where a call is applied.     *)
LEMMA StepIsServiceStep ==
  ASSUME IInv, [Next]_vars
  PROVE  [Service!SvcNext]_(Service!svcVars)
<1> DEFINE Quiet == file' = file /\ request' = request /\ Phase' = Phase
<1>1. Quiet => [Service!SvcNext]_(Service!svcVars)
  BY DEF Service!svcVars
<1>2. /\ file \in Config /\ memory \in Config /\ new \in Config /\ request \in Call
      /\ serve \in {"idle", "parse", "save", "keep", "ok", "error"}
  BY DEF IInv, ControlTypeOK
<1> HIDE DEF Quiet
<1>3. ASSUME NEW c \in Calls, Receive(c) PROVE Service!Ask
  <2>1. c \in Service!Call
    BY ControlAssumption DEF Call, Service!Call
  <2> QED
    BY <1>3, <2>1, PhaseIs, PhaseWillBe DEF Receive, Service!Ask
<1>4. CASE Check
  <2>1. CASE Allowed(request)
    BY <1>1, <1>4, <2>1, PhaseIs, PhaseWillBe DEF Check, Quiet
  <2>2. CASE ~Allowed(request)
    <3>1. Service!Refuse
      BY <1>4, <2>2, PhaseIs, PhaseWillBe DEF Check, Service!Refuse
    <3> QED
      BY <3>1 DEF Service!SvcNext
  <2> QED
    BY <2>1, <2>2
<1>5. CASE Save
  <2>1. CASE file' = new /\ serve' = "keep"
    <3>1. memory = file /\ Allowed(request) /\ new = Edited(memory, request)
      BY <1>5 DEF IInv, MemoryIsFile, NewIsEdited, Save
    <3>2. Changed(request, memory, Edited(memory, request))
      BY <1>2, <3>1, EditedChanges DEF Allowed
    <3>3. Service!Change
      BY <2>1, <3>1, <3>2 DEF Changed, Service!Change
    <3>4. file' \in Service!Config
      BY <1>2, <2>1 DEF Config, Service!Config, Bot, Service!Bot
    <3>5. Service!Apply
      BY <1>5, <2>1, <3>3, <3>4, PhaseIs, PhaseWillBe DEF Save, Service!Apply
    <3> QED
      BY <3>5 DEF Service!SvcNext
  <2>2. CASE serve' = "error" /\ UNCHANGED file
    <3>1. Service!Refuse
      BY <1>5, <2>2, PhaseIs, PhaseWillBe DEF Save, Service!Refuse
    <3> QED
      BY <3>1 DEF Service!SvcNext
  <2> QED
    BY <1>5, <2>1, <2>2 DEF Save
<1>6. CASE Keep
  BY <1>1, <1>6, PhaseIs, PhaseWillBe DEF Keep, Quiet
<1>7. CASE Reply
  <2>1. Service!Answer
    BY <1>7, PhaseIs, PhaseWillBe DEF Reply, Service!Answer
  <2> QED
    BY <2>1 DEF Service!SvcNext
<1>8. CASE Stop
  <2>1. CASE serve = "idle"
    BY <1>1, <1>8, <2>1, PhaseIs, PhaseWillBe DEF Stop, Quiet
  <2>2. CASE serve # "idle"
    <3>1. Service!Lose
      BY <1>2, <1>8, <2>2, PhaseIs, PhaseWillBe DEF Stop, Service!Lose
    <3> QED
      BY <3>1 DEF Service!SvcNext
  <2> QED
    BY <2>1, <2>2
<1>9. CASE Start
  BY <1>1, <1>2, <1>9, PhaseIs, PhaseWillBe DEF Start, Quiet
<1>10. CASE UNCHANGED controlVars
  BY <1>1, <1>2, <1>10, PhaseIs, PhaseWillBe DEF controlVars, Quiet
<1>11. ControlStep
  BY NextIsControlStep
<1> QED
  BY <1>3, <1>4, <1>5, <1>6, <1>7, <1>8, <1>9, <1>10, <1>11
     DEF ControlStep, Restart, Crash, Service!SvcNext

LEMMA InitIsServiceInit == Init => Service!SvcInit
<1> SUFFICES ASSUME Init PROVE Service!SvcInit
  OBVIOUS
<1>1. file \in Config /\ request \in Call /\ serve = "idle"
  BY InitControl DEF IInv, ControlTypeOK, Init, ControlInit
<1> QED
  BY <1>1, PhaseIs DEF Service!SvcInit, Config, Service!Config, Bot, Service!Bot, Call, Service!Call

(* The control surface implements ConfigService: a change of the bots is the change of one call,  *)
(* durable when it is answered with success, whatever the process is in the middle of when it     *)
(* exits or crashes (control.rs:141-229, config.rs:65-77).                                        *)
THEOREM SurfaceServesConfig == Spec => ServesConfig
<1>1. IInv /\ [Next]_vars => [Service!SvcNext]_(Service!svcVars)
  BY StepIsServiceStep
<1> QED
  BY <1>1, InitIsServiceInit, InvariantHolds, PTL DEF Spec, ServesConfig, Service!SvcSpec

-------------------------------------------------------------------------------
(* The handler of a message is under way only once the message was taken.                         *)
PcTyped ==
  pc \in [Msgs -> {"none", "thread", "begun", "asking", "stream", "final", "fallback",
                   "send", "clear", "done", "dropped", "command", "exited"}]

TakenInOrder == taken \in Nat /\ \A m \in Msgs : m > taken => pc[m] = "none"

SlotInv == PcTyped /\ TakenInOrder /\ slot \in BOOLEAN /\ SlotMeansBusy

BusyPc == {"begun", "asking", "stream", "final", "fallback", "send", "clear"}

(* Every step of a handler leaves it between its two assignments, or clears the slot.             *)
Progresses(m) ==
  /\ taken' = taken /\ pc[m] # "none"
  /\ \E v \in BusyPc \cup {"done"} :
       /\ pc' = [pc EXCEPT ![m] = v]
       /\ IF v = "done" THEN slot' = FALSE ELSE slot' \in {slot, TRUE}

LEMMA HandlerProgresses ==
  ASSUME PcTyped, slot \in BOOLEAN, NEW m \in Msgs, Handle(m)
  PROVE  Progresses(m)
<1> USE DEF Progresses, BusyPc, listenVars
<1>1. CASE SetSlot(m) \/ Ignore(m) \/ Post(m) \/ ClearSlot(m)
  BY <1>1 DEF SetSlot, Ignore, Post, ClearSlot
<1>2. ASSUME NEW out, StartStatus(m, out) PROVE Progresses(m)
  BY <1>2 DEF StartStatus
<1>3. CASE Stream(m)
  <2>1. ASSUME NEW p, Reported(m, p) PROVE Progresses(m)
    <3>1. pc' = [pc EXCEPT ![m] = "stream"] /\ pc[m] = "stream"
      BY <2>1 DEF Reported, PcTyped
    <3> QED
      BY <2>1, <3>1 DEF Reported
  <2>2. ASSUME NEW text, Returns(m, text), pc[m] # "none" PROVE Progresses(m)
    BY <2>2 DEF Returns
  <2>3. CASE StreamBreaks(m)
    <3>1. pc' = [pc EXCEPT ![m] = "stream"] /\ pc[m] = "stream"
      BY <2>3 DEF StreamBreaks, PcTyped
    <3> QED
      BY <2>3, <3>1 DEF StreamBreaks
  <2> QED
    BY <1>3, <2>1, <2>2, <2>3 DEF Stream, Answered, AskFailed, StreamEnds, ToolResult, ToolUse
<1>4. CASE Deliver(m)
  <2>1. ASSUME NEW chunks, SendOn(m, chunks), UNCHANGED <<listenVars, slot>>, pc[m] # "none"
        PROVE  Progresses(m)
    <3>1. pc' = [pc EXCEPT ![m] = "clear"] \/ pc' = [pc EXCEPT ![m] = "send"]
      BY <2>1 DEF SendOn
    <3> QED
      BY <2>1, <3>1
  <2>2. PICK out \in Outcome :
          Finalize(m, out) \/ Fallback(m, out) \/ SendChunk(m, out) \/ SendReply(m, out)
    BY <1>4 DEF Deliver
  <2>3. CASE Finalize(m, out)
    <3>1. CASE StartSend(m)
      BY <2>1, <2>3, <3>1 DEF Finalize, StopAndEdit, StartSend
    <3>2. CASE pc' = [pc EXCEPT ![m] = "clear"] \/ pc' = [pc EXCEPT ![m] = "fallback"]
      BY <2>3, <3>2 DEF Finalize, StopAndEdit
    <3> QED
      BY <2>3, <3>1, <3>2 DEF Finalize, StopAndEdit
  <2>4. CASE Fallback(m, out)
    BY <2>1, <2>4 DEF Fallback, StartSend
  <2>5. CASE SendChunk(m, out)
    BY <2>1, <2>5 DEF SendChunk
  <2>6. CASE SendReply(m, out)
    BY <2>6 DEF SendReply
  <2> QED
    BY <2>2, <2>3, <2>4, <2>5, <2>6
<1> QED
  BY <1>1, <1>2, <1>3, <1>4 DEF Handle

LEMMA SlotHeld ==
  ASSUME SlotInv, ChatNext
  PROVE  SlotInv'
<1> USE DEF SlotInv
<1>1. ASSUME NEW m \in Msgs, m = taken + 1, taken' = m, UNCHANGED slot,
             NEW v \in {"thread", "dropped", "command"}, pc' = [pc EXCEPT ![m] = v]
      PROVE  SlotInv'
  <2>1. pc[m] = "none" /\ taken' \in Nat
    BY <1>1 DEF TakenInOrder
  <2>2. PcTyped'
    BY <1>1 DEF PcTyped
  <2>3. \A k \in Msgs : Busy(k) => Busy(k)'
    BY <1>1, <2>1 DEF Busy, PcTyped
  <2>4. TakenInOrder'
    BY <1>1, <2>1 DEF TakenInOrder, PcTyped, Msgs
  <2> QED
    BY <1>1, <2>2, <2>3, <2>4 DEF SlotMeansBusy
<1>2. CASE Listen
  <2>1. CASE Cancel
    BY <2>1 DEF Cancel, PcTyped, TakenInOrder, SlotMeansBusy, Busy
  <2>2. ASSUME NEW m \in Msgs, TakeMessage(m) PROVE SlotInv'
    <3>1. pc' = [pc EXCEPT ![m] = "dropped"] \/ pc' = [pc EXCEPT ![m] = "thread"]
      BY <2>2 DEF TakeMessage
    <3> QED
      BY <1>1, <2>2, <3>1 DEF TakeMessage
  <2>3. ASSUME NEW m \in Msgs, NEW all, TakeKill(m, all) PROVE SlotInv'
    BY <1>1, <2>3 DEF TakeKill
  <2> QED
    BY <1>2, <2>1, <2>2, <2>3 DEF Listen
<1>3. ASSUME NEW m \in Msgs, Handle(m) PROVE SlotInv'
  <2>1. Progresses(m)
    BY <1>3, HandlerProgresses
  <2>2. PICK v \in BusyPc \cup {"done"} :
          /\ pc' = [pc EXCEPT ![m] = v]
          /\ IF v = "done" THEN slot' = FALSE ELSE slot' \in {slot, TRUE}
    BY <2>1 DEF Progresses
  <2>3. pc'[m] = v /\ \A k \in Msgs \ {m} : pc'[k] = pc[k]
    BY <2>2 DEF PcTyped
  <2>4. PcTyped'
    BY <2>2 DEF PcTyped, BusyPc
  <2>5. slot' \in BOOLEAN
    BY <2>2
  <2>6. TakenInOrder'
    BY <2>1, <2>3 DEF Progresses, TakenInOrder
  <2>7. SlotMeansBusy'
    BY <2>2, <2>3 DEF SlotMeansBusy, Busy, BusyPc
  <2> QED
    BY <2>4, <2>5, <2>6, <2>7
<1>4. ASSUME NEW m \in Msgs, Update(m) PROVE SlotInv'
  <2>1. UNCHANGED <<pc, slot, taken>>
    BY <1>4 DEF Update, Look, Edit, UpdaterEnds, listenVars
  <2> QED
    BY <2>1 DEF PcTyped, TakenInOrder, SlotMeansBusy, Busy
<1> HIDE DEF SlotInv
<1> QED
  BY <1>2, <1>3, <1>4 DEF ChatNext

LEMMA SlotUnchanged ==
  ASSUME SlotInv, UNCHANGED chatVars
  PROVE  SlotInv'
<1>1. UNCHANGED <<pc, slot, taken>>
  BY DEF chatVars, listenVars
<1> QED
  BY <1>1 DEF SlotInv, PcTyped, TakenInOrder, SlotMeansBusy, Busy

LEMMA SlotFreedByExit ==
  ASSUME SlotInv, ChatExit
  PROVE  SlotInv'
<1>1. slot' = FALSE /\ taken' = taken
  BY DEF ChatExit
<1>2. PcTyped' /\ TakenInOrder'
  BY <1>1 DEF SlotInv, ChatExit, PcTyped, TakenInOrder, Busy
<1> QED
  BY <1>1, <1>2 DEF SlotInv, SlotMeansBusy

LEMMA InitSlot == ChatInit => SlotInv
<1> SUFFICES ASSUME ChatInit PROVE SlotInv
  OBVIOUS
<1>1. slot = FALSE /\ taken = 0 /\ pc = [m \in Msgs |-> "none"]
  BY DEF ChatInit
<1>2. slot \in BOOLEAN
  BY <1>1, Zenon
<1> QED
  BY <1>1, <1>2 DEF SlotInv, PcTyped, TakenInOrder, SlotMeansBusy

(* A slot that is set has a handler between its two assignments: a /kill that finds in_flight set *)
(* finds a message to cancel, and a chat is never locked out by a handler that went away          *)
(* (bot.rs:105-144, 187-203).                                                                     *)
THEOREM SlotHasHandler == ChatSpec => []SlotMeansBusy
<1>1. SlotInv /\ [ChatNext]_chatVars => SlotInv'
  BY SlotHeld, SlotUnchanged
<1>2. SlotInv => SlotMeansBusy
  BY DEF SlotInv
<1> QED
  BY <1>1, <1>2, InitSlot, PTL DEF ChatSpec

(* The same while the control surface edits the bots and the bridge exits or crashes under the    *)
(* chat: what ends the process clears the slot with it (main.rs:71-83, control.rs:55-70).         *)
THEOREM SlotHasHandlerInBridge == Spec => []SlotMeansBusy
<1>1. ASSUME SlotInv, [Next]_vars PROVE SlotInv'
  <2>1. CASE Listening /\ ChatStep(Listen)
    BY <1>1, <2>1, SlotHeld DEF ChatStep, ChatNext
  <2>2. CASE \E m \in Msgs : ChatStep(Handle(m) \/ Update(m))
    BY <1>1, <2>2, SlotHeld DEF ChatStep, ChatNext
  <2>3. CASE UNCHANGED chatVars
    BY <1>1, <2>3, SlotUnchanged
  <2>4. CASE ChatExit
    BY <1>1, <2>4, SlotFreedByExit
  <2> QED
    BY <1>1, <2>1, <2>2, <2>3, <2>4 DEF Next, vars
<1>2. SlotInv => SlotMeansBusy
  BY DEF SlotInv
<1> QED
  BY <1>1, <1>2, InitSlot, PTL DEF Spec, Init

-------------------------------------------------------------------------------
(* Types of the chat.                                                                             *)
Progress == {p \in [completed : Seq(Tools), current : SUBSET Tools] :
               p.current = {} \/ \E t \in Tools : p.current = {t}}
PcValues == {"none", "thread", "begun", "asking", "stream", "final", "fallback",
             "send", "clear", "done", "dropped", "command", "exited"}
Updater == [pc : {"none", "look", "edit", "over"}, want : Seq(Mark)]
Shown == [kind : {"none", "status", "final"}, marks : Seq(Mark), text : Text]
Troubles == SUBSET {"unanswered", "aborted", "stale"}

(* The type invariant in the form the proofs use: a progress names at most one current tool.      *)
ChatTyped ==
  /\ taken \in 0..MaxMsgs /\ listener \in {"poll", "kill", "killall"} /\ slot \in BOOLEAN
  /\ pc \in [Msgs -> PcValues]
  /\ upstream \in [Msgs -> {"none", "running", "cancelled", "broken"}]
  /\ progress \in [Msgs -> Progress]
  /\ updater \in [Msgs -> Updater]
  /\ cached \in [Msgs -> Seq(Mark)] /\ alive \in [Msgs -> BOOLEAN]
  /\ shown \in [Msgs -> Shown]
  /\ left \in [Msgs -> Seq(Text)] /\ got \in [Msgs -> Seq(Text)] /\ reply \in [Msgs -> Text]
  /\ trouble \in [Msgs -> Troubles] /\ faults \in 0..MaxFaults

LEMMA ProgressIsTyped ==
  ASSUME NEW p \in Progress
  PROVE  p \in [completed : Seq(Tools), current : SUBSET Tools] /\ Cardinality(p.current) <= 1
<1>1. CASE p.current = {}
  BY <1>1, FS_EmptySet DEF Progress
<1>2. CASE \E t \in Tools : p.current = {t}
  <2>1. PICK t \in Tools : p.current = {t}
    BY <1>2
  <2>2. Cardinality({t}) = 1
    BY FS_Singleton
  <2> QED
    BY <2>1, <2>2 DEF Progress
<1> QED
  BY <1>1, <1>2 DEF Progress

LEMMA ChatTypedIsTyped == ChatTyped => ChatTypeOK
<1> SUFFICES ASSUME ChatTyped PROVE ChatTypeOK
  OBVIOUS
<1>1. progress \in [Msgs -> [completed : Seq(Tools), current : SUBSET Tools]]
  BY ProgressIsTyped DEF ChatTyped
<1>2. \A m \in Msgs : Cardinality(progress[m].current) <= 1
  BY ProgressIsTyped DEF ChatTyped
<1> QED
  BY <1>1, <1>2 DEF ChatTyped, ChatTypeOK, PcValues, Updater, Shown, Troubles

(* The operators of the status message.                                                           *)
LEMMA OneOrNone ==
  ASSUME NEW T, NEW S \in SUBSET T, S = {} \/ \E t \in T : S = {t}
  PROVE  SetToSeq(S) \in Seq(T)
<1>1. CASE S = {}
  <2>1. Cardinality(S) = 0
    BY <1>1, FS_EmptySet
  <2>2. PICK f : f = [i \in 1..0 |-> 0]
    OBVIOUS
  <2>3. f \in [1..Cardinality(S) -> S] /\ IsInjective(f)
    BY <2>1, <2>2 DEF IsInjective
  <2>4. SetToSeq(S) \in [1..Cardinality(S) -> S]
    BY <2>3 DEF SetToSeq
  <2>5. SetToSeq(S) \in [1..0 -> T]
    BY <1>1, <2>1, <2>4
  <2> QED
    BY <2>5, SeqDef
<1>2. CASE \E t \in T : S = {t}
  <2>1. PICK t \in T : S = {t}
    BY <1>2
  <2>2. Cardinality(S) = 1
    BY <2>1, FS_Singleton
  <2>3. PICK f : f = [i \in 1..1 |-> t]
    OBVIOUS
  <2>4. f \in [1..Cardinality(S) -> S] /\ IsInjective(f)
    BY <2>1, <2>2, <2>3 DEF IsInjective
  <2>5. SetToSeq(S) \in [1..Cardinality(S) -> S]
    BY <2>4 DEF SetToSeq
  <2>6. SetToSeq(S) \in [1..1 -> T]
    BY <2>1, <2>2, <2>5
  <2>7. [1..1 -> T] \in {[1..n -> T] : n \in Nat}
    OBVIOUS
  <2> QED
    BY <2>6, <2>7, SeqDef, Zenon
<1> QED
  BY <1>1, <1>2

LEMMA TakeCurrentTyped ==
  ASSUME NEW p \in Progress
  PROVE  /\ TakeCurrent(p) \in Progress
         /\ \A t \in Tools : [TakeCurrent(p) EXCEPT !.current = {t}] \in Progress
<1>1. p.completed \in Seq(Tools) /\ SetToSeq(p.current) \in Seq(Tools)
  BY OneOrNone DEF Progress
<1>2. p.completed \o SetToSeq(p.current) \in Seq(Tools)
  BY <1>1, ConcatProperties
<1>3. PICK done \in Seq(Tools) : done = p.completed \o SetToSeq(p.current)
  BY <1>2
<1> QED
  BY <1>3 DEF TakeCurrent, Progress

LEMMA RenderTyped ==
  ASSUME NEW p \in Progress
  PROVE  render(p) \in Seq(Mark)
<1>0. Verbosity \in {"minimal", "kind", "progressive"} /\ HistCap \in Nat /\ <<>> \in Seq(Mark)
  BY ChatAssumption
<1>1. PICK shows \in Seq(Mark) : shows =
        IF p.current = {} THEN <<>> ELSE << <<CHOOSE t \in p.current : TRUE, "running">> >>
  <2>1. CASE p.current = {}
    BY <1>0, <2>1
  <2>2. CASE p.current # {}
    <3>1. PICK t \in Tools : t = CHOOSE u \in p.current : TRUE
      BY <2>2 DEF Progress
    <3>2. PICK mark \in Mark : mark = <<t, "running">>
      BY DEF Mark
    <3>3. <<mark>> \in Seq(Mark)
      OBVIOUS
    <3> QED
      BY <2>2, <3>1, <3>2, <3>3
  <2> QED
    BY <2>1, <2>2
<1>2. ASSUME NEW tools \in Seq(Tools) PROVE Ran(tools) \in Seq(Mark)
  <2>1. Len(tools) \in Nat /\ \A i \in 1..Len(tools) : <<tools[i], "ran">> \in Mark
    BY DEF Mark
  <2> QED
    BY <2>1 DEF Ran
<1>3. ASSUME NEW tools \in Seq(Tools), NEW n \in Nat PROVE LastOf(tools, n) \in Seq(Tools)
  <2>1. PICK i \in Int : i = (IF Len(tools) > n THEN Len(tools) - n + 1 ELSE 1) /\ i >= 1
    BY LenProperties
  <2>2. Len(tools) \in Int /\ \A k \in i..Len(tools) : tools[k] \in Tools
    BY <2>1
  <2>3. SubSeq(tools, i, Len(tools)) \in Seq(Tools)
    BY <2>2, SubSeqProperties
  <2> QED
    BY <2>1, <2>3 DEF LastOf
<1>4. p.completed \in Seq(Tools)
  BY DEF Progress
<1>5. Ran(LastOf(p.completed, 1)) \in Seq(Mark) /\ Ran(LastOf(p.completed, HistCap)) \in Seq(Mark)
  BY <1>0, <1>2, <1>3, <1>4
<1>6. Ran(LastOf(p.completed, HistCap)) \o shows \in Seq(Mark)
  BY <1>1, <1>5, ConcatProperties
<1>7. CASE Verbosity = "minimal"
  BY <1>0, <1>7 DEF render
<1>8. CASE Verbosity = "kind"
  <2>1. render(p) = IF shows # <<>> THEN shows ELSE Ran(LastOf(p.completed, 1))
    BY <1>1, <1>8 DEF render
  <2> QED
    BY <1>1, <1>5, <2>1
<1>9. CASE Verbosity = "progressive"
  <2>1. render(p) = Ran(LastOf(p.completed, HistCap)) \o shows
    BY <1>1, <1>9 DEF render
  <2> QED
    BY <1>6, <2>1
<1> QED
  BY <1>0, <1>7, <1>8, <1>9

-------------------------------------------------------------------------------
(* Every step of the chat keeps the types.                                                        *)
LEMMA ExceptTyped ==
  ASSUME NEW S, NEW T, NEW f \in [S -> T], NEW x \in S, NEW v \in T
  PROVE  [f EXCEPT ![x] = v] \in [S -> T]
OBVIOUS

LEMMA FailsTyped ==
  ASSUME faults \in 0..MaxFaults, NEW out, Fails(out)
  PROVE  faults' \in 0..MaxFaults
BY ChatAssumption DEF Fails

LEMMA EditTyped ==
  ASSUME shown \in [Msgs -> Shown], NEW m \in Msgs, NEW out, NEW edit \in Shown, EditShown(m, out, edit)
  PROVE  shown' \in [Msgs -> Shown]
BY ExceptTyped DEF EditShown

LEMMA ShownTyped ==
  /\ \A marks \in Seq(Mark) : Status(marks) \in Shown
  /\ \A text \in Text : Final(text) \in Shown
  /\ Thinking \in Shown /\ Placeholder \in Shown
<1>1. <<>> \in Seq(Mark) /\ <<>> \in Text
  BY EmptyText
<1> QED
  BY <1>1 DEF Status, Final, Thinking, Placeholder, Shown

LEMMA RepliesAreTexts ==
  /\ \A text \in Replies \cup {ErrorText} : text \in Text /\ Chunks[text] \in Seq(Text)
  /\ \A text \in Replies \cup {ErrorText} : Chunks[text] = split_response(text)
BY ChatAssumption, SplitKeepsText DEF Chunks

LEMMA ListenTyped ==
  ASSUME ChatTyped, Listen
  PROVE  ChatTyped'
<1> USE DEF ChatTyped
<1>0. MaxMsgs \in Nat
  BY ChatAssumption
<1>1. CASE Cancel
  <2>1. upstream' \in [Msgs -> {"none", "running", "cancelled", "broken"}]
    BY <1>1 DEF Cancel
  <2> QED
    BY <1>1, <2>1 DEF Cancel, statusVars, delivery
<1>2. ASSUME NEW m \in Msgs, TakeMessage(m) PROVE ChatTyped'
  <2>1. pc' \in [Msgs -> PcValues] /\ taken' \in 0..MaxMsgs
    BY <1>0, <1>2 DEF TakeMessage, PcValues, Msgs
  <2> QED
    BY <1>2, <2>1 DEF TakeMessage, statusVars, delivery
<1>3. ASSUME NEW m \in Msgs, NEW all, TakeKill(m, all) PROVE ChatTyped'
  <2>1. pc' \in [Msgs -> PcValues] /\ taken' \in 0..MaxMsgs
    BY <1>0, <1>3 DEF TakeKill, PcValues, Msgs
  <2>2. listener' \in {"poll", "kill", "killall"}
    BY <1>3 DEF TakeKill
  <2> QED
    BY <1>3, <2>1, <2>2 DEF TakeKill, statusVars, delivery
<1> HIDE DEF ChatTyped
<1> QED
  BY <1>1, <1>2, <1>3 DEF Listen

LEMMA AskTyped ==
  ASSUME ChatTyped, NEW m \in Msgs,
         SetSlot(m) \/ Ignore(m) \/ StartStatus(m, "ok") \/ StartStatus(m, "refused") \/ Post(m) \/ ClearSlot(m)
  PROVE  ChatTyped'
<1> USE DEF ChatTyped
<1>0. TRUE \in BOOLEAN /\ FALSE \in BOOLEAN
  BY Zenon
<1>1. CASE SetSlot(m) \/ Ignore(m) \/ ClearSlot(m)
  <2>1. pc' \in [Msgs -> PcValues]
    BY <1>1 DEF SetSlot, Ignore, ClearSlot, PcValues
  <2>2. slot' \in BOOLEAN
    BY <1>0, <1>1 DEF SetSlot, Ignore, ClearSlot
  <2> QED
    BY <1>1, <2>1, <2>2 DEF SetSlot, Ignore, ClearSlot, listenVars, statusVars, delivery
<1>2. ASSUME NEW out, StartStatus(m, out) PROVE ChatTyped'
  <2>1. pc' \in [Msgs -> PcValues] /\ faults' \in 0..MaxFaults
    BY <1>2, FailsTyped DEF StartStatus, PcValues
  <2>2. shown' \in [Msgs -> Shown]
    BY <1>2, ShownTyped, ExceptTyped DEF StartStatus
  <2>3. [alive EXCEPT ![m] = TRUE] \in [Msgs -> BOOLEAN]
    BY <1>0, ExceptTyped
  <2>4. alive' \in [Msgs -> BOOLEAN]
    BY <1>2, <2>3 DEF StartStatus
  <2>5. updater' \in [Msgs -> Updater]
    <3>1. [updater EXCEPT ![m].pc = "look"] \in [Msgs -> Updater]
      BY DEF Updater
    <3> QED
      BY <1>2, <3>1 DEF StartStatus
  <2> QED
    BY <1>2, <2>1, <2>2, <2>4, <2>5 DEF StartStatus, listenVars
<1>3. CASE Post(m)
  BY <1>3 DEF Post, PcValues, listenVars, statusVars, delivery
<1> HIDE DEF ChatTyped
<1> QED
  BY <1>1, <1>2, <1>3

LEMMA StreamTyped ==
  ASSUME ChatTyped, NEW m \in Msgs, Stream(m)
  PROVE  ChatTyped'
<1> USE DEF ChatTyped
<1>1. ASSUME NEW p \in Progress, Reported(m, p) PROVE ChatTyped'
  <2>1. progress' \in [Msgs -> Progress]
    BY <1>1, ExceptTyped DEF Reported
  <2> QED
    BY <1>1, <2>1 DEF Reported, listenVars, delivery
<1>2. ASSUME NEW text \in Text, Returns(m, text) PROVE ChatTyped'
  <2>1. pc' \in [Msgs -> PcValues] /\ reply' \in [Msgs -> Text]
        /\ upstream' \in [Msgs -> {"none", "running", "cancelled", "broken"}]
    BY <1>2, ExceptTyped DEF Returns, PcValues
  <2> QED
    BY <1>2, <2>1 DEF Returns, listenVars, statusVars
<1>3. progress[m] \in Progress
  OBVIOUS
<1>4. CASE StreamBreaks(m)
  <2>1. upstream' \in [Msgs -> {"none", "running", "cancelled", "broken"}]
    BY <1>4, ExceptTyped DEF StreamBreaks
  <2> QED
    BY <1>4, <2>1 DEF StreamBreaks, listenVars, statusVars, delivery
<1> HIDE DEF ChatTyped
<1> QED
  BY <1>1, <1>2, <1>3, <1>4, TakeCurrentTyped, RepliesAreTexts
     DEF Stream, Answered, AskFailed, StreamEnds, ToolResult, ToolUse

LEMMA SendOnTyped ==
  ASSUME pc \in [Msgs -> PcValues], left \in [Msgs -> Seq(Text)],
         NEW m \in Msgs, NEW chunks \in Seq(Text), SendOn(m, chunks)
  PROVE  pc' \in [Msgs -> PcValues] /\ left' \in [Msgs -> Seq(Text)]
<1>1. left' \in [Msgs -> Seq(Text)]
  BY ExceptTyped DEF SendOn
<1>2. pc' \in [Msgs -> PcValues]
  BY DEF SendOn, PcValues
<1> QED
  BY <1>1, <1>2

LEMMA UpdateTyped ==
  ASSUME ChatTyped, NEW m \in Msgs, Update(m)
  PROVE  ChatTyped'
<1> USE DEF ChatTyped
<1>0. progress[m] \in Progress /\ updater[m] \in Updater /\ <<>> \in Seq(Mark)
  OBVIOUS
<1>1. CASE Look(m)
  <2>1. [pc |-> "edit", want |-> render(progress[m])] \in Updater
    BY <1>0, RenderTyped DEF Updater
  <2>2. updater' \in [Msgs -> Updater]
    BY <1>1, <2>1, ExceptTyped DEF Look
  <2> QED
    BY <1>1, <2>2 DEF Look, listenVars, delivery
<1>2. CASE UpdaterEnds(m)
  <2>1. updater' \in [Msgs -> Updater]
    BY <1>2 DEF UpdaterEnds, Updater
  <2>2. NoTools \in Progress
    BY DEF NoTools, Progress
  <2>3. progress' \in [Msgs -> Progress]
    BY <1>2, <2>2, ExceptTyped DEF UpdaterEnds
  <2>4. cached' \in [Msgs -> Seq(Mark)]
    BY <1>0, <1>2, ExceptTyped DEF UpdaterEnds
  <2> QED
    BY <1>2, <2>1, <2>3, <2>4 DEF UpdaterEnds, listenVars, delivery
<1>3. ASSUME NEW out \in Outcome, Edit(m, out) PROVE ChatTyped'
  <2>1. updater[m].want \in Seq(Mark) /\ [pc |-> "look", want |-> <<>>] \in Updater
    BY <1>0 DEF Updater
  <2>2. updater' \in [Msgs -> Updater]
    BY <1>3, <2>1, ExceptTyped DEF Edit
  <2>3. cached' \in [Msgs -> Seq(Mark)]
    BY <1>3, <2>1, ExceptTyped DEF Edit
  <2>4. shown' \in [Msgs -> Shown]
    BY <1>3, <2>1, ShownTyped, EditTyped DEF Edit
  <2>5. trouble' \in [Msgs -> Troubles]
    BY <1>3 DEF Edit, Troubles
  <2>6. faults' \in 0..MaxFaults
    BY <1>3, FailsTyped DEF Edit
  <2> QED
    BY <1>3, <2>2, <2>3, <2>4, <2>5, <2>6 DEF Edit, listenVars
<1> HIDE DEF ChatTyped
<1> QED
  BY <1>1, <1>2, <1>3 DEF Update

-------------------------------------------------------------------------------
(* Delivery: what the handler of a message has done of it, at each of its places.                 *)
ReplyTexts == Replies \cup {ErrorText}
Early == {"none", "thread", "begun", "dropped", "command"}

Sent(m) == Letters(FlattenSeq(got[m]))

(* The status message shows the reply, or an edit overwrote it, only of a reply of one message.   *)
Delivered(m) ==
  \/ Sent(m) = Letters(reply[m])
  \/ IF HasStatus(m)
     THEN Len(reply[m]) <= TelegramMax /\ (shown[m] = Final(reply[m]) \/ "stale" \in trouble[m])
     ELSE Len(reply[m]) > TelegramMax /\ IsPrefix(Sent(m), Letters(reply[m]))

(* Nothing is sent before the reply is whole; what is sent and what is left to send is the reply  *)
(* cut up, unless a call failed; and a status message whose updater may still edit it is not      *)
(* alive, so that an edit after the reply is known to be late.                                    *)
DeliveryOf(m) ==
  /\ pc[m] \in Early => ~HasStatus(m) /\ reply[m] = <<>>
  /\ pc[m] \in Early \cup {"asking", "stream", "final", "fallback"} => got[m] = <<>> /\ left[m] = <<>>
  /\ pc[m] \in {"final", "fallback", "send"} => reply[m] \in ReplyTexts
  /\ pc[m] \in {"fallback", "send"} => HasStatus(m)
  /\ pc[m] \in {"fallback", "send", "clear", "done"} /\ HasStatus(m) => alive[m] = FALSE
  /\ pc[m] = "send" => /\ left[m] # <<>>
                       /\ "aborted" \notin trouble[m] => got[m] \o left[m] = split_response(reply[m])
  /\ pc[m] \in {"clear", "done"} /\ "aborted" \notin trouble[m] => Delivered(m)

DeliveryInv == \A m \in Msgs : DeliveryOf(m)

Same(k) ==
  /\ pc'[k] = pc[k] /\ alive'[k] = alive[k] /\ left'[k] = left[k] /\ got'[k] = got[k]
  /\ reply'[k] = reply[k] /\ shown'[k] = shown[k] /\ trouble'[k] = trouble[k]
  /\ updater'[k].pc = "none" <=> updater[k].pc = "none"

Elsewhere(m) == \A k \in Msgs \ {m} : Same(k)

LEMMA SameKeeps ==
  ASSUME NEW k \in Msgs, DeliveryOf(k), Same(k)
  PROVE  DeliveryOf(k)'
BY DEF DeliveryOf, Delivered, Sent, HasStatus, Same

LEMMA DeliveryOfOne ==
  ASSUME DeliveryInv, NEW m \in Msgs, Elsewhere(m), DeliveryOf(m)'
  PROVE  DeliveryInv'
BY SameKeeps DEF DeliveryInv, Elsewhere

LEMMA ListenDelivers ==
  ASSUME ChatTyped, TakenInOrder, DeliveryInv, Listen
  PROVE  DeliveryInv'
<1>1. CASE Cancel
  <2>1. \A k \in Msgs : Same(k)
    BY <1>1 DEF Cancel, statusVars, delivery, Same
  <2> QED
    BY <2>1, SameKeeps DEF DeliveryInv
<1>2. ASSUME NEW m \in Msgs, m = taken + 1, NEW v \in {"thread", "dropped", "command"},
             pc' = [pc EXCEPT ![m] = v], UNCHANGED <<statusVars, shown, delivery>>
      PROVE  DeliveryInv'
  <2>1. pc[m] = "none" /\ pc'[m] = v
    BY <1>2 DEF TakenInOrder, ChatTyped
  <2>2. Elsewhere(m)
    BY <1>2 DEF Elsewhere, Same, statusVars, delivery, ChatTyped
  <2>3. DeliveryOf(m)
    BY DEF DeliveryInv
  <2>4. DeliveryOf(m)'
    BY <1>2, <2>1, <2>3 DEF DeliveryOf, HasStatus, Early, statusVars, delivery
  <2> QED
    BY <2>2, <2>4, DeliveryOfOne
<1>3. ASSUME NEW m \in Msgs, TakeMessage(m) PROVE DeliveryInv'
  <2>1. pc' = [pc EXCEPT ![m] = "dropped"] \/ pc' = [pc EXCEPT ![m] = "thread"]
    BY <1>3 DEF TakeMessage
  <2> QED
    BY <1>2, <1>3, <2>1 DEF TakeMessage
<1>4. ASSUME NEW m \in Msgs, NEW all, TakeKill(m, all) PROVE DeliveryInv'
  BY <1>2, <1>4 DEF TakeKill
<1> QED
  BY <1>1, <1>3, <1>4 DEF Listen

LEMMA AskDelivers ==
  ASSUME ChatTyped, DeliveryInv, NEW m \in Msgs,
         SetSlot(m) \/ Ignore(m) \/ StartStatus(m, "ok") \/ StartStatus(m, "refused") \/ Post(m) \/ ClearSlot(m)
  PROVE  DeliveryInv'
<1>0. DeliveryOf(m)
  BY DEF DeliveryInv
<1>1. CASE SetSlot(m) \/ Ignore(m) \/ Post(m) \/ ClearSlot(m)
  <2>0. UNCHANGED <<statusVars, shown, delivery>>
    BY <1>1 DEF SetSlot, Ignore, Post, ClearSlot
  <2>1. Elsewhere(m)
    BY <1>1, <2>0 DEF SetSlot, Ignore, Post, ClearSlot, Elsewhere, Same, statusVars, delivery, ChatTyped
  <2>2. /\ UNCHANGED <<updater, alive, shown, left, got, reply, trouble>>
        /\ <<pc[m], pc'[m]>> \in {<<"thread", "begun">>, <<"begun", "clear">>, <<"asking", "stream">>,
                                  <<"clear", "done">>}
    BY <1>1, <2>0 DEF SetSlot, Ignore, Post, ClearSlot, statusVars, delivery, ChatTyped
  <2>3. DeliveryOf(m)'
    <3>1. CASE pc[m] = "begun" /\ pc'[m] = "clear"
      <4>1. Delivered(m)'
        BY <1>0, <2>2, <3>1, FlattenGrows DEF DeliveryOf, Delivered, Sent, Early
      <4> QED
        BY <1>0, <2>2, <3>1, <4>1 DEF DeliveryOf, HasStatus, Early
    <3>2. CASE pc[m] = "clear" /\ pc'[m] = "done"
      BY <1>0, <2>2, <3>2 DEF DeliveryOf, Delivered, Sent, HasStatus, Early
    <3>3. CASE (pc[m] = "thread" /\ pc'[m] = "begun") \/ (pc[m] = "asking" /\ pc'[m] = "stream")
      BY <1>0, <2>2, <3>3 DEF DeliveryOf, HasStatus, Early
    <3> QED
      BY <2>2, <3>1, <3>2, <3>3
  <2> QED
    BY <2>1, <2>3, DeliveryOfOne
<1>2. ASSUME NEW out, StartStatus(m, out) PROVE DeliveryInv'
  <2>1. UNCHANGED <<left, got, reply, trouble>> /\ pc[m] = "begun" /\ pc'[m] = "asking"
    BY <1>2 DEF StartStatus, ChatTyped
  <2>2. Elsewhere(m)
    BY <1>2 DEF StartStatus, Elsewhere, Same, ChatTyped
  <2>3. DeliveryOf(m)'
    BY <1>0, <2>1 DEF DeliveryOf, Early
  <2> QED
    BY <2>2, <2>3, DeliveryOfOne
<1> QED
  BY <1>1, <1>2

LEMMA StreamDelivers ==
  ASSUME ChatTyped, DeliveryInv, NEW m \in Msgs, Stream(m)
  PROVE  DeliveryInv'
<1>0. DeliveryOf(m)
  BY DEF DeliveryInv
<1>1. ASSUME NEW p, Reported(m, p) PROVE DeliveryInv'
  <2>1. \A k \in Msgs : Same(k)
    BY <1>1 DEF Reported, delivery, Same
  <2> QED
    BY <2>1, SameKeeps DEF DeliveryInv
<1>2. ASSUME NEW text \in ReplyTexts, Returns(m, text), pc[m] \in {"asking", "stream"} PROVE DeliveryInv'
  <2>1. /\ pc'[m] = "final" /\ reply'[m] = text /\ UNCHANGED <<left, got>>
    BY <1>2 DEF Returns, ChatTyped
  <2>2. Elsewhere(m)
    BY <1>2 DEF Returns, Elsewhere, Same, statusVars, ChatTyped
  <2>3. DeliveryOf(m)'
    BY <1>0, <1>2, <2>1 DEF DeliveryOf, Early
  <2> QED
    BY <2>2, <2>3, DeliveryOfOne
<1>3. CASE StreamBreaks(m)
  <2>1. \A k \in Msgs : Same(k)
    BY <1>3 DEF StreamBreaks, delivery, statusVars, Same
  <2> QED
    BY <2>1, SameKeeps DEF DeliveryInv
<1> QED
  BY <1>1, <1>2, <1>3 DEF Stream, Answered, AskFailed, StreamEnds, ToolResult, ToolUse, ReplyTexts

(* An edit after the reply is delivered is late, and marked so.                                   *)
LEMMA UpdateDelivers ==
  ASSUME ChatTyped, DeliveryInv, NEW m \in Msgs, Update(m)
  PROVE  DeliveryInv'
<1>0. DeliveryOf(m)
  BY DEF DeliveryInv
<1>1. CASE Look(m) \/ UpdaterEnds(m)
  <2>0. UNCHANGED <<pc, alive, shown, delivery>>
    BY <1>1 DEF Look, UpdaterEnds
  <2>a. \A k \in Msgs : updater'[k].pc = "none" <=> updater[k].pc = "none"
    <3>0. updater \in [Msgs -> Updater]
      BY DEF ChatTyped
    <3>1. CASE Look(m)
      BY <3>0, <3>1 DEF Look
    <3>2. CASE UpdaterEnds(m)
      BY <3>0, <3>2 DEF UpdaterEnds, Updater
    <3> QED
      BY <1>1, <3>1, <3>2
  <2>1. \A k \in Msgs : Same(k)
    BY <2>0, <2>a DEF delivery, Same
  <2> QED
    BY <2>1, SameKeeps DEF DeliveryInv
<1>2. ASSUME NEW out \in Outcome, Edit(m, out) PROVE DeliveryInv'
  <2>1. /\ UNCHANGED <<pc, alive, left, got, reply>>
        /\ updater[m].pc = "edit" /\ updater'[m].pc = "look"
    BY <1>2 DEF Edit, ChatTyped
  <2>2. Elsewhere(m)
    BY <1>2 DEF Edit, EditShown, Elsewhere, Same, ChatTyped
  <2>3. trouble[m] \subseteq trouble'[m] /\ ("aborted" \in trouble'[m] => "aborted" \in trouble[m])
    BY <1>2 DEF Edit, ChatTyped
  <2>4. \/ out = "refused" /\ shown'[m] = shown[m]
        \/ out # "refused" /\ (~alive[m] => "stale" \in trouble'[m])
    BY <1>2 DEF Edit, EditShown, ChatTyped
  <2>5. ASSUME Delivered(m), ~alive[m] PROVE Delivered(m)'
    BY <2>1, <2>3, <2>4, <2>5 DEF Delivered, Sent, HasStatus
  <2>6. HasStatus(m) /\ HasStatus(m)'
    BY <2>1 DEF HasStatus
  <2>7. DeliveryOf(m)'
    BY <1>0, <2>1, <2>3, <2>5, <2>6 DEF DeliveryOf
  <2> QED
    BY <2>2, <2>7, DeliveryOfOne
<1> QED
  BY <1>1, <1>2 DEF Update

(* A reply of several messages: send_split over what split_response made of it.                   *)
LEMMA SendStarts ==
  ASSUME ChatTyped, NEW m \in Msgs, reply[m] \in ReplyTexts, got[m] = <<>>, StartSend(m)
  PROVE  /\ left' \in [Msgs -> Seq(Text)] /\ pc' \in [Msgs -> PcValues]
         /\ \A k \in Msgs \ {m} : left'[k] = left[k] /\ pc'[k] = pc[k]
         /\ \/ pc'[m] = "send" /\ left'[m] # <<>> /\ got[m] \o left'[m] = split_response(reply[m])
            \/ pc'[m] = "clear" /\ Sent(m) = Letters(reply[m])
<1>1. PICK text \in Text : text = reply[m] /\ text \in Replies \cup {ErrorText}
  BY RepliesAreTexts DEF ReplyTexts
<1>2. PICK chunks \in Seq(Text) : /\ chunks = split_response(text)
                                  /\ Letters(FlattenSeq(chunks)) = Letters(text)
  BY SplitKeepsText DEF SplitIsFaithful
<1>3. SendOn(m, chunks)
  BY <1>1, <1>2, RepliesAreTexts DEF StartSend
<1>4. left' \in [Msgs -> Seq(Text)] /\ pc' \in [Msgs -> PcValues]
  BY <1>3, SendOnTyped DEF ChatTyped
<1>5. left'[m] = chunks /\ pc'[m] = (IF chunks = <<>> THEN "clear" ELSE "send")
      /\ \A k \in Msgs \ {m} : left'[k] = left[k] /\ pc'[k] = pc[k]
  BY <1>3 DEF SendOn, ChatTyped
<1>6. <<>> \o chunks = chunks
  BY ConcatEmptySeq
<1>7. CASE chunks = <<>>
  <2>1. Sent(m) = Letters(reply[m])
    BY <1>1, <1>2, <1>7 DEF Sent
  <2> QED
    BY <1>4, <1>5, <1>7, <2>1
<1>8. CASE chunks # <<>>
  BY <1>1, <1>2, <1>4, <1>5, <1>6, <1>8
<1> QED
  BY <1>7, <1>8

LEMMA FinalizeDelivers ==
  ASSUME ChatTyped, DeliveryInv, NEW m \in Msgs, NEW out \in Outcome, Finalize(m, out)
  PROVE  ChatTyped' /\ DeliveryInv'
<1>0. DeliveryOf(m)
  BY DEF DeliveryInv
<1>1. pc[m] = "final" /\ HasStatus(m) /\ got[m] = <<>> /\ left[m] = <<>> /\ reply[m] \in ReplyTexts
  BY <1>0 DEF Finalize, StopAndEdit, DeliveryOf
<1>2. UNCHANGED <<listenVars, slot, upstream, progress, updater, cached, got, reply, trouble>>
  BY DEF Finalize, StopAndEdit
<1>3. PICK edit \in Shown : /\ edit = (IF Len(reply[m]) <= TelegramMax THEN Final(reply[m]) ELSE Placeholder)
                           /\ EditShown(m, out, edit)
  <2>1. reply[m] \in Text
    BY DEF ChatTyped
  <2> QED
    BY <2>1, ShownTyped DEF Finalize, StopAndEdit
<1>4. /\ shown' \in [Msgs -> Shown] /\ \A k \in Msgs \ {m} : shown'[k] = shown[k]
      /\ out # "refused" => shown'[m] = edit
  <2>1. shown \in [Msgs -> Shown]
    BY DEF ChatTyped
  <2> QED
    BY <1>3, <2>1, EditTyped DEF EditShown
<1>5. alive' \in [Msgs -> BOOLEAN] /\ alive'[m] = FALSE /\ \A k \in Msgs \ {m} : alive'[k] = alive[k]
  <2>1. FALSE \in BOOLEAN
    BY Zenon
  <2>2. [alive EXCEPT ![m] = FALSE] \in [Msgs -> BOOLEAN]
    BY <2>1, ExceptTyped DEF ChatTyped
  <2> QED
    BY <2>2 DEF Finalize, StopAndEdit, ChatTyped
<1>6. faults' \in 0..MaxFaults
  BY FailsTyped DEF Finalize, StopAndEdit, ChatTyped
<1>7. /\ pc' \in [Msgs -> PcValues] /\ left' \in [Msgs -> Seq(Text)]
      /\ \A k \in Msgs \ {m} : left'[k] = left[k] /\ pc'[k] = pc[k]
      /\ \/ pc'[m] = "send" /\ left'[m] # <<>> /\ got[m] \o left'[m] = split_response(reply[m])
         \/ pc'[m] = "clear" /\ Sent(m) = Letters(reply[m])
         \/ pc'[m] = "clear" /\ Len(reply[m]) <= TelegramMax /\ shown'[m] = Final(reply[m])
         \/ pc'[m] = "fallback" /\ left'[m] = <<>>
  <2>1. CASE ~(Len(reply[m]) <= TelegramMax)
    <3>1. StartSend(m)
      BY <2>1 DEF Finalize, StopAndEdit
    <3> QED
      BY <1>1, <3>1, SendStarts
  <2>2. CASE Len(reply[m]) <= TelegramMax
    <3>1. left' = left /\ pc' = [pc EXCEPT ![m] = IF reply[m] = <<>> \/ out = "ok" THEN "clear" ELSE "fallback"]
      BY <2>2 DEF Finalize, StopAndEdit
    <3>2. CASE reply[m] = <<>>
      <4>1. Sent(m) = Letters(reply[m])
        BY <1>1, <3>2, FlattenGrows DEF Sent
      <4> QED
        BY <3>1, <3>2, <4>1 DEF ChatTyped, PcValues
    <3>3. CASE out = "ok"
      BY <1>3, <1>4, <2>2, <3>1, <3>3 DEF ChatTyped, PcValues
    <3>4. CASE reply[m] # <<>> /\ out # "ok"
      BY <1>1, <3>1, <3>4 DEF ChatTyped, PcValues
    <3> QED
      BY <3>2, <3>3, <3>4
  <2> QED
    BY <2>1, <2>2
<1>8. ChatTyped'
  BY <1>2, <1>4, <1>5, <1>6, <1>7 DEF ChatTyped, listenVars
<1>9. Elsewhere(m)
  BY <1>2, <1>4, <1>5, <1>7 DEF Elsewhere, Same
<1>10. HasStatus(m)' /\ Sent(m)' = Sent(m) /\ UNCHANGED <<got, reply, trouble>>
  BY <1>1, <1>2 DEF HasStatus, Sent
<1>11. DeliveryOf(m)'
  <2>1. CASE pc'[m] = "send" /\ left'[m] # <<>> /\ got[m] \o left'[m] = split_response(reply[m])
    BY <1>1, <1>5, <1>10, <2>1 DEF DeliveryOf, Early
  <2>2. CASE pc'[m] = "clear" /\ Sent(m) = Letters(reply[m])
    BY <1>1, <1>5, <1>10, <2>2 DEF DeliveryOf, Delivered, Early
  <2>3. CASE pc'[m] = "clear" /\ Len(reply[m]) <= TelegramMax /\ shown'[m] = Final(reply[m])
    BY <1>1, <1>5, <1>10, <2>3 DEF DeliveryOf, Delivered, Early
  <2>4. CASE pc'[m] = "fallback" /\ left'[m] = <<>>
    BY <1>1, <1>5, <1>10, <2>4 DEF DeliveryOf, Early
  <2> QED
    BY <1>7, <2>1, <2>2, <2>3, <2>4
<1> QED
  BY <1>8, <1>9, <1>11, DeliveryOfOne

LEMMA FallbackDelivers ==
  ASSUME ChatTyped, DeliveryInv, NEW m \in Msgs, NEW out \in Outcome, Fallback(m, out)
  PROVE  ChatTyped' /\ DeliveryInv'
<1>0. DeliveryOf(m)
  BY DEF DeliveryInv
<1>1. HasStatus(m) /\ got[m] = <<>> /\ reply[m] \in ReplyTexts /\ alive[m] = FALSE
  BY <1>0 DEF Fallback, DeliveryOf
<1>2. UNCHANGED <<listenVars, slot, upstream, statusVars, got, reply, trouble>>
  BY DEF Fallback
<1>3. shown' \in [Msgs -> Shown] /\ \A k \in Msgs \ {m} : shown'[k] = shown[k]
  <2>1. shown \in [Msgs -> Shown]
    BY DEF ChatTyped
  <2> QED
    BY <2>1, ShownTyped, EditTyped DEF Fallback, EditShown
<1>4. faults' \in 0..MaxFaults
  BY FailsTyped DEF Fallback, ChatTyped
<1>5. /\ left' \in [Msgs -> Seq(Text)] /\ pc' \in [Msgs -> PcValues]
      /\ \A k \in Msgs \ {m} : left'[k] = left[k] /\ pc'[k] = pc[k]
      /\ \/ pc'[m] = "send" /\ left'[m] # <<>> /\ got[m] \o left'[m] = split_response(reply[m])
         \/ pc'[m] = "clear" /\ Sent(m) = Letters(reply[m])
  BY <1>1, SendStarts DEF Fallback
<1>6. ChatTyped'
  BY <1>2, <1>3, <1>4, <1>5 DEF ChatTyped, listenVars, statusVars
<1>7. Elsewhere(m)
  BY <1>2, <1>3, <1>5 DEF Elsewhere, Same, statusVars
<1>8. HasStatus(m)' /\ Sent(m)' = Sent(m) /\ UNCHANGED <<got, reply, trouble>> /\ alive'[m] = FALSE
  BY <1>1, <1>2 DEF HasStatus, Sent, statusVars
<1>9. DeliveryOf(m)'
  BY <1>1, <1>5, <1>8 DEF DeliveryOf, Delivered, Early
<1> QED
  BY <1>6, <1>7, <1>9, DeliveryOfOne

LEMMA HeadMoves ==
  ASSUME NEW s \in Seq(Text), NEW t \in Seq(Text), t # <<>>
  PROVE  /\ Head(t) \in Text /\ Tail(t) \in Seq(Text) /\ Append(s, Head(t)) \in Seq(Text)
         /\ Append(s, Head(t)) \o Tail(t) = s \o t
<1>1. PICK h \in Text : h = Head(t)
  BY HeadTailProperties
<1>2. PICK rest \in Seq(Text) : rest = Tail(t)
  BY HeadTailProperties
<1>3. t = <<h>> \o rest
  <2>1. Len(t) \in Nat /\ Len(t) # 0
    BY EmptySeq
  <2>2. 1 \in 1..Len(t) /\ Len(t) \in 1..Len(t)
    BY <2>1
  <2>3. SubSeq(t, 1, Len(t)) = <<t[1]>> \o SubSeq(t, 1 + 1, Len(t))
    BY <2>2, SubSeqRecursiveFirst
  <2>4. SubSeq(t, 1, Len(t)) = t
    BY SubSeqFull
  <2>5. SubSeq(t, 1 + 1, Len(t)) = rest /\ t[1] = h
    <3>1. rest = SubSeq(t, 2, Len(t))
      BY <1>2, TailIsSubSeq
    <3>2. h = t[1]
      BY <1>1
    <3>3. 1 + 1 = 2
      OBVIOUS
    <3> QED
      BY <3>1, <3>2, <3>3
  <2> QED
    BY <2>3, <2>4, <2>5
<1>4. <<h>> \in Seq(Text) /\ Append(s, h) = s \o <<h>> /\ Append(s, h) \in Seq(Text)
  BY AppendIsConcat, AppendProperties
<1>5. (s \o <<h>>) \o rest = s \o (<<h>> \o rest)
  BY <1>4, ConcatAssociative
<1> QED
  BY <1>1, <1>2, <1>3, <1>4, <1>5

LEMMA ConcatIsPrefix ==
  ASSUME NEW S, NEW s \in Seq(S), NEW t \in Seq(S)
  PROVE  IsPrefix(s, s \o t)
<1>1. Len(s) \in Nat /\ Len(t) \in Nat /\ Len(s \o t) = Len(s) + Len(t)
  BY ConcatProperties, LenProperties
<1>2. SubSeq(s, 1, Len(s)) = SubSeq(s \o t, 1, Len(s))
  <2>1. CASE Len(s) = 0
    BY <2>1, SubSeqEmpty
  <2>2. CASE Len(s) # 0
    <3>1. 1 \in 1..Len(s) /\ Len(s) \in 1..Len(s)
      BY <1>1, <2>2
    <3> QED
      BY <3>1, SubSeqOfConcat1
  <2> QED
    BY <2>1, <2>2
<1>3. Len(s) <= Len(s \o t)
  BY <1>1
<1> QED
  BY <1>2, <1>3 DEF IsPrefix

LEMMA SendChunkDelivers ==
  ASSUME ChatTyped, DeliveryInv, NEW m \in Msgs, NEW out \in Outcome, SendChunk(m, out)
  PROVE  ChatTyped' /\ DeliveryInv'
<1>0. DeliveryOf(m)
  BY DEF DeliveryInv
<1>1. /\ HasStatus(m) /\ reply[m] \in ReplyTexts /\ alive[m] = FALSE /\ left[m] # <<>>
      /\ "aborted" \notin trouble[m] => got[m] \o left[m] = split_response(reply[m])
  BY <1>0 DEF SendChunk, DeliveryOf
<1>2. UNCHANGED <<listenVars, slot, upstream, statusVars, shown, reply>>
  BY DEF SendChunk
<1>3. got[m] \in Seq(Text) /\ left[m] \in Seq(Text)
  BY DEF ChatTyped
<1>4. PICK rest \in Seq(Text) : rest = Tail(left[m])
  BY <1>1, <1>3, HeadMoves
<1>5. PICK more \in Seq(Text) : more = Append(got[m], Head(left[m])) /\ more \o rest = got[m] \o left[m]
  <2>1. /\ Append(got[m], Head(left[m])) \in Seq(Text)
        /\ Append(got[m], Head(left[m])) \o Tail(left[m]) = got[m] \o left[m]
    <3>1. PICK sent \in Seq(Text) : sent = got[m]
      BY <1>3
    <3>2. PICK todo \in Seq(Text) : todo = left[m] /\ todo # <<>>
      BY <1>1, <1>3
    <3>3. Append(sent, Head(todo)) \in Seq(Text) /\ Append(sent, Head(todo)) \o Tail(todo) = sent \o todo
      BY <3>2, HeadMoves
    <3> QED
      BY <3>1, <3>2, <3>3, Zenon
  <2> QED
    BY <1>4, <2>1, Zenon
<1>6. PICK chunks \in Seq(Text) : chunks = (IF out = "ok" THEN rest ELSE <<>>) /\ SendOn(m, chunks)
  <2>1. SendOn(m, IF out = "ok" THEN Tail(left[m]) ELSE <<>>)
    BY DEF SendChunk
  <2>2. PICK chunks : chunks = IF out = "ok" THEN Tail(left[m]) ELSE <<>>
    OBVIOUS
  <2>3. chunks \in Seq(Text) /\ chunks = IF out = "ok" THEN rest ELSE <<>>
    BY <1>4, <2>2
  <2>4. SendOn(m, chunks)
    BY <2>1, <2>2
  <2> QED
    BY <2>3, <2>4
<1>7. left' \in [Msgs -> Seq(Text)] /\ pc' \in [Msgs -> PcValues]
  BY <1>6, SendOnTyped DEF ChatTyped
<1>8. left'[m] = chunks /\ pc'[m] = (IF chunks = <<>> THEN "clear" ELSE "send")
      /\ \A k \in Msgs \ {m} : left'[k] = left[k] /\ pc'[k] = pc[k]
  BY <1>6 DEF SendOn, ChatTyped
<1>9. /\ got' \in [Msgs -> Seq(Text)] /\ \A k \in Msgs \ {m} : got'[k] = got[k]
      /\ out = "ok" => got'[m] = more
  <2>1. got \in [Msgs -> Seq(Text)]
    BY DEF ChatTyped
  <2>2. got' = got \/ got' = [got EXCEPT ![m] = more]
    BY <1>5 DEF SendChunk
  <2>3. out = "ok" => got' = [got EXCEPT ![m] = more]
    BY <1>5 DEF SendChunk
  <2> QED
    BY <2>1, <2>2, <2>3, ExceptTyped
<1>10. /\ trouble' \in [Msgs -> Troubles] /\ \A k \in Msgs \ {m} : trouble'[k] = trouble[k]
       /\ IF out = "ok" THEN trouble'[m] = trouble[m] ELSE "aborted" \in trouble'[m]
  BY DEF SendChunk, ChatTyped, Troubles
<1>11. faults' \in 0..MaxFaults
  BY FailsTyped DEF SendChunk, ChatTyped
<1>12. ChatTyped'
  BY <1>2, <1>7, <1>9, <1>10, <1>11 DEF ChatTyped, listenVars, statusVars
<1>13. Elsewhere(m)
  BY <1>2, <1>8, <1>9, <1>10 DEF Elsewhere, Same, statusVars
<1>14. HasStatus(m)' /\ alive'[m] = FALSE /\ reply' = reply
  BY <1>1, <1>2 DEF HasStatus, statusVars
<1>15. DeliveryOf(m)'
  <2>1. CASE out # "ok"
    <3>1. pc'[m] = "clear" /\ "aborted" \in trouble'[m]
      BY <1>6, <1>8, <1>10, <2>1
    <3> QED
      BY <1>14, <3>1 DEF DeliveryOf, Early
  <2>2. CASE out = "ok" /\ rest # <<>>
    <3>1. pc'[m] = "send" /\ left'[m] = rest /\ got'[m] = more /\ trouble'[m] = trouble[m]
      BY <1>6, <1>8, <1>9, <1>10, <2>2
    <3> QED
      BY <1>1, <1>5, <1>14, <2>2, <3>1 DEF DeliveryOf, Early
  <2>3. CASE out = "ok" /\ rest = <<>>
    <3>1. pc'[m] = "clear" /\ got'[m] = more /\ trouble'[m] = trouble[m]
      BY <1>6, <1>8, <1>9, <1>10, <2>3
    <3>2. more \o rest = more
      BY <2>3, ConcatEmptySeq
    <3>3. "aborted" \notin trouble[m] => more = split_response(reply[m])
      BY <1>1, <1>5, <3>2
    <3>4. Letters(FlattenSeq(split_response(reply[m]))) = Letters(reply[m])
      BY <1>1, RepliesAreTexts, SplitKeepsText DEF ReplyTexts, SplitIsFaithful
    <3>5. "aborted" \notin trouble'[m] => Delivered(m)'
      BY <1>14, <3>1, <3>3, <3>4 DEF Delivered, Sent
    <3> QED
      BY <1>14, <3>1, <3>5 DEF DeliveryOf, Early
  <2> QED
    BY <2>1, <2>2, <2>3
<1> QED
  BY <1>12, <1>13, <1>15, DeliveryOfOne

LEMMA SendReplyDelivers ==
  ASSUME ChatTyped, DeliveryInv, NEW m \in Msgs, NEW out \in Outcome, SendReply(m, out)
  PROVE  ChatTyped' /\ DeliveryInv'
<1>0. DeliveryOf(m)
  BY DEF DeliveryInv
<1>1. pc[m] = "final" /\ ~HasStatus(m)
  BY DEF SendReply
<1>2. UNCHANGED <<listenVars, slot, upstream, statusVars, shown, left, reply>>
  BY DEF SendReply
<1>3. PICK text \in Text : text = reply[m]
  BY DEF ChatTyped
<1>4. PICK n \in Nat : n = Len(text)
  BY EmptyText
<1>5. PICK cut \in 0..n : cut = IF n > TelegramMax THEN TelegramMax ELSE n
  BY TelegramMaxAssumption
<1>6. PICK first \in Text : first = SubSeq(text, 1, cut)
  <2>1. text \in Seq(Nat)
    BY DEF Text
  <2>2. \A i \in 1..cut : text[i] \in Nat
    BY <1>4, <2>1
  <2>3. SubSeq(text, 1, cut) \in Seq(Nat)
    BY <2>2, SubSeqProperties
  <2> QED
    BY <2>3 DEF Text
<1>7. PICK message \in Seq(Text) : message = <<first>> /\ Letters(FlattenSeq(message)) = Letters(first)
  <2>1. <<first>> = Append(<<>>, first) /\ <<first>> \in Seq(Text) /\ <<>> \in Seq(Text)
    OBVIOUS
  <2>2. FlattenSeq(<<first>>) = <<>> \o first
    BY <2>1, FlattenGrows
  <2>3. <<>> \o first = first
    BY EmptyText
  <2> QED
    BY <2>1, <2>2, <2>3
<1>8. IF n > TelegramMax THEN IsPrefix(Letters(first), Letters(text)) ELSE Letters(first) = Letters(text)
  <2>0. text \in Seq(Nat)
    BY DEF Text
  <2>1. CASE n > TelegramMax
    <3>1. PICK rest \in Text : rest = SubSeq(text, cut + 1, n)
      <4>1. \A i \in (cut + 1)..n : text[i] \in Nat
        BY <1>4, <2>0
      <4>2. SubSeq(text, cut + 1, n) \in Seq(Nat)
        BY <4>1, SubSeqProperties
      <4> QED
        BY <4>2 DEF Text
    <3>2. text = first \o rest
      <4>1. 1 \in 1..Len(text) + 1 /\ cut \in 1 - 1..Len(text) /\ n \in cut..Len(text)
        BY <1>4
      <4>2. SubSeq(text, 1, cut) \o SubSeq(text, cut + 1, n) = SubSeq(text, 1, n)
        BY <2>0, <4>1, ConcatAdjacentSubSeq
      <4>3. SubSeq(text, 1, n) = text
        BY <1>4, <2>0, SubSeqFull
      <4> QED
        BY <1>6, <3>1, <4>2, <4>3
    <3>3. Letters(text) = Letters(first) \o Letters(rest)
      BY <3>2, LettersConcat
    <3>4. Letters(first) \in Seq(Nat) /\ Letters(rest) \in Seq(Nat)
      BY LettersGrow, EmptyText DEF Text
    <3> QED
      BY <2>1, <3>3, <3>4, ConcatIsPrefix
  <2>2. CASE ~(n > TelegramMax)
    <3>1. first = text
      BY <1>4, <1>5, <1>6, <2>0, <2>2, SubSeqFull
    <3> QED
      BY <2>2, <3>1
  <2> QED
    BY <2>1, <2>2
<1>9. got' = (IF out = "refused" THEN got ELSE [got EXCEPT ![m] = message])
  BY <1>3, <1>4, <1>5, <1>6, <1>7 DEF SendReply
<1>10. /\ got' \in [Msgs -> Seq(Text)] /\ \A k \in Msgs \ {m} : got'[k] = got[k]
       /\ out # "refused" => got'[m] = message
  <2>1. got \in [Msgs -> Seq(Text)]
    BY DEF ChatTyped
  <2> QED
    BY <1>9, <2>1, ExceptTyped
<1>11. /\ trouble' \in [Msgs -> Troubles] /\ \A k \in Msgs \ {m} : trouble'[k] = trouble[k]
       /\ out = "refused" => "aborted" \in trouble'[m]
  BY DEF SendReply, ChatTyped, Troubles
<1>12. pc' \in [Msgs -> PcValues] /\ pc'[m] = "clear" /\ \A k \in Msgs \ {m} : pc'[k] = pc[k]
  BY DEF SendReply, ChatTyped, PcValues
<1>13. faults' \in 0..MaxFaults
  BY FailsTyped DEF SendReply, ChatTyped
<1>14. ChatTyped'
  BY <1>2, <1>10, <1>11, <1>12, <1>13 DEF ChatTyped, listenVars, statusVars
<1>15. Elsewhere(m)
  BY <1>2, <1>10, <1>11, <1>12 DEF Elsewhere, Same, statusVars
<1>16. ~HasStatus(m)' /\ reply'[m] = text
  BY <1>1, <1>2, <1>3 DEF HasStatus, statusVars
<1>17. DeliveryOf(m)'
  <2>1. CASE out = "refused"
    BY <1>11, <1>12, <1>16, <2>1 DEF DeliveryOf, Early
  <2>2. CASE out # "refused"
    <3>1. Sent(m)' = Letters(first)
      BY <1>7, <1>10, <2>2 DEF Sent
    <3>2. Delivered(m)'
      BY <1>4, <1>8, <1>16, <3>1 DEF Delivered
    <3> QED
      BY <1>12, <1>16, <3>2 DEF DeliveryOf, Early
  <2> QED
    BY <2>1, <2>2
<1> QED
  BY <1>14, <1>15, <1>17, DeliveryOfOne

-------------------------------------------------------------------------------
(* The chat and the bridge.                                                                       *)
ChatIInv == ChatTyped /\ SlotInv /\ DeliveryInv

LEMMA ChatPreserves ==
  ASSUME ChatIInv, ChatNext
  PROVE  ChatIInv'
<1> USE DEF ChatIInv
<1>1. SlotInv'
  BY SlotHeld
<1>2. CASE Listen
  BY <1>1, <1>2, ListenTyped, ListenDelivers DEF SlotInv
<1>3. ASSUME NEW m \in Msgs, Handle(m) PROVE ChatTyped' /\ DeliveryInv'
  <2>1. CASE SetSlot(m) \/ Ignore(m) \/ StartStatus(m, "ok") \/ StartStatus(m, "refused") \/ Post(m) \/ ClearSlot(m)
    BY <2>1, AskTyped, AskDelivers
  <2>2. CASE Stream(m)
    BY <2>2, StreamTyped, StreamDelivers
  <2>3. CASE Deliver(m)
    BY <2>3, FinalizeDelivers, FallbackDelivers, SendChunkDelivers, SendReplyDelivers DEF Deliver
  <2> QED
    BY <1>3, <2>1, <2>2, <2>3 DEF Handle
<1>4. ASSUME NEW m \in Msgs, Update(m) PROVE ChatTyped' /\ DeliveryInv'
  BY <1>4, UpdateTyped, UpdateDelivers
<1> QED
  BY <1>1, <1>2, <1>3, <1>4 DEF ChatNext

LEMMA ChatUnchanged ==
  ASSUME ChatIInv, UNCHANGED chatVars
  PROVE  ChatIInv'
<1>1. SlotInv'
  BY SlotUnchanged DEF ChatIInv
<1>2. ChatTyped'
  BY DEF ChatIInv, ChatTyped, chatVars, listenVars, statusVars, delivery
<1>3. \A k \in Msgs : Same(k)
  BY DEF Same, chatVars, statusVars, delivery
<1>4. DeliveryInv'
  BY <1>3, SameKeeps DEF ChatIInv, DeliveryInv
<1> QED
  BY <1>1, <1>2, <1>4 DEF ChatIInv

LEMMA ExitPreserves ==
  ASSUME ChatIInv, ChatExit
  PROVE  ChatIInv'
<1> USE DEF ChatIInv
<1>1. SlotInv'
  BY SlotFreedByExit
<1>2. ChatTyped'
  <2>1. FALSE \in BOOLEAN
    BY Zenon
  <2>2. alive' \in [Msgs -> BOOLEAN] /\ slot' \in BOOLEAN
    BY <2>1 DEF ChatExit
  <2>3. NoTools \in Progress /\ <<>> \in Seq(Mark) /\ <<>> \in Seq(Text)
    BY DEF NoTools, Progress
  <2>4. /\ progress' \in [Msgs -> Progress] /\ cached' \in [Msgs -> Seq(Mark)]
        /\ left' \in [Msgs -> Seq(Text)]
    BY <2>3 DEF ChatExit
  <2>5. updater' \in [Msgs -> Updater]
    BY <2>3 DEF ChatExit, Updater
  <2>6. pc' \in [Msgs -> PcValues]
    BY DEF ChatExit, ChatTyped, PcValues
  <2>7. upstream' \in [Msgs -> {"none", "running", "cancelled", "broken"}]
    BY DEF ChatExit
  <2> QED
    BY <2>2, <2>4, <2>5, <2>6, <2>7 DEF ChatExit, ChatTyped
<1>3. ASSUME NEW m \in Msgs PROVE DeliveryOf(m)'
  <2>0. DeliveryOf(m)
    BY DEF DeliveryInv
  <2>1. HasStatus(m)' <=> HasStatus(m)
    BY DEF ChatExit, HasStatus
  <2>2. alive'[m] = FALSE /\ left'[m] = <<>> /\ UNCHANGED <<shown, got, reply, trouble>>
    BY DEF ChatExit
  <2>3. CASE pc[m] \in {"none", "dropped", "command", "done"}
    <3>1. pc'[m] = pc[m]
      BY <2>3 DEF ChatExit, Busy
    <3>2. Delivered(m)' <=> Delivered(m)
      BY <2>1, <2>2 DEF Delivered, Sent
    <3> QED
      BY <2>0, <2>1, <2>2, <2>3, <3>1, <3>2 DEF DeliveryOf, Early
  <2>4. CASE pc[m] \notin {"none", "dropped", "command", "done"}
    <3>1. pc'[m] = "exited"
      BY <2>4 DEF ChatExit, Busy, ChatTyped, PcValues
    <3> QED
      BY <3>1 DEF DeliveryOf, Early
  <2> QED
    BY <2>3, <2>4
<1> QED
  BY <1>1, <1>2, <1>3 DEF DeliveryInv

LEMMA InitChat == ChatInit => ChatIInv
<1> SUFFICES ASSUME ChatInit PROVE ChatIInv
  OBVIOUS
<1>1. SlotInv
  BY InitSlot
<1>2. ChatTyped
  <2>1. FALSE \in BOOLEAN
    BY Zenon
  <2>2. alive \in [Msgs -> BOOLEAN] /\ slot \in BOOLEAN
    BY <2>1 DEF ChatInit
  <2>3. NoTools \in Progress /\ <<>> \in Seq(Mark) /\ <<>> \in Seq(Text) /\ <<>> \in Text
    BY EmptyText DEF NoTools, Progress
  <2>4. /\ progress \in [Msgs -> Progress] /\ cached \in [Msgs -> Seq(Mark)]
        /\ left \in [Msgs -> Seq(Text)] /\ got \in [Msgs -> Seq(Text)] /\ reply \in [Msgs -> Text]
    BY <2>3 DEF ChatInit
  <2>5. updater \in [Msgs -> Updater] /\ shown \in [Msgs -> Shown]
    BY <2>3 DEF ChatInit, Updater, Shown
  <2>6. /\ pc \in [Msgs -> PcValues] /\ upstream \in [Msgs -> {"none", "running", "cancelled", "broken"}]
        /\ trouble \in [Msgs -> Troubles]
    BY DEF ChatInit, PcValues, Troubles
  <2>7. taken \in 0..MaxMsgs /\ faults \in 0..MaxFaults
    BY ChatAssumption DEF ChatInit
  <2> QED
    BY <2>2, <2>4, <2>5, <2>6, <2>7 DEF ChatInit, ChatTyped
<1>3. DeliveryInv
  BY DEF ChatInit, DeliveryInv, DeliveryOf, HasStatus, Early
<1> QED
  BY <1>1, <1>2, <1>3 DEF ChatIInv

LEMMA DeliveredIsWhole == ChatIInv => ReplyWhole
<1> SUFFICES ASSUME DeliveryInv, NEW m \in Msgs, pc[m] = "done", "aborted" \notin trouble[m]
             PROVE  IF HasStatus(m)
                    THEN \/ shown[m].kind = "final" /\ Letters(shown[m].text) = Letters(reply[m])
                         \/ Sent(m) = Letters(reply[m])
                         \/ "stale" \in trouble[m] /\ Len(reply[m]) <= TelegramMax
                    ELSE Sent(m) = Letters(reply[m])
                         \/ (Len(reply[m]) > TelegramMax /\ IsPrefix(Sent(m), Letters(reply[m])))
  BY DEF ChatIInv, ReplyWhole, Sent
<1>1. Delivered(m)
  BY DEF DeliveryInv, DeliveryOf
<1>2. Final(reply[m]).kind = "final" /\ Final(reply[m]).text = reply[m]
  BY DEF Final
<1> QED
  BY <1>1, <1>2 DEF Delivered

(* A handler that is done delivered the whole reply, in the status message or in messages of the  *)
(* chat, for any reply, limit and number of failed calls: what split_response cuts is sent in its *)
(* order, and an edit of the updater that comes late is the only one that can hide it             *)
(* (bot.rs:205-345, status.rs:96-190).                                                            *)
THEOREM ReplyDelivered == ChatSpec => []ReplyWhole
<1>1. ChatIInv /\ [ChatNext]_chatVars => ChatIInv'
  BY ChatPreserves, ChatUnchanged
<1> QED
  BY <1>1, InitChat, DeliveredIsWhole, PTL DEF ChatSpec

LEMMA ChatHolds == Spec => []ChatIInv
<1>1. ASSUME ChatIInv, [Next]_vars PROVE ChatIInv'
  <2>1. CASE Listening /\ ChatStep(Listen)
    BY <1>1, <2>1, ChatPreserves DEF ChatStep, ChatNext
  <2>2. CASE \E m \in Msgs : ChatStep(Handle(m) \/ Update(m))
    BY <1>1, <2>2, ChatPreserves DEF ChatStep, ChatNext
  <2>3. CASE UNCHANGED chatVars
    BY <1>1, <2>3, ChatUnchanged
  <2>4. CASE ChatExit
    BY <1>1, <2>4, ExitPreserves
  <2> QED
    BY <1>1, <2>1, <2>2, <2>3, <2>4 DEF Next, vars
<1> QED
  BY <1>1, InitChat, PTL DEF Spec, Init

(* The same in a process that exits for a new configuration or crashes: a handler that is cut off *)
(* is not done, and one that was done stays delivered.                                            *)
THEOREM ReplyDeliveredInBridge == Spec => []ReplyWhole
  BY ChatHolds, DeliveredIsWhole, PTL

(* The variables of the bridge keep their types.                                                  *)
THEOREM TypeHolds == Spec => []TypeOK
<1>1. ChatIInv /\ IInv => TypeOK
  BY ChatTypedIsTyped DEF ChatIInv, IInv, TypeOK
<1> QED
  BY <1>1, ChatHolds, InvariantHolds, PTL
=============================================================================
