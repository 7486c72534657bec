------------------------------ MODULE BridgeChat ------------------------------
(* One (bot, chat) pair of the telegram bridge: the listener thread of bot.rs, the handler thread *)
(* it spawns for each message, the updater thread of status.rs that edits the ask's status        *)
(* message, and what the chat shows.  Telegram and apytti are external: a call to Telegram is     *)
(* done or not, and answered or not; apytti sends events and ends the stream of an ask it was     *)
(* asked to cancel, and the connection to it may break.                                           *)
EXTENDS Naturals, Sequences, FiniteSets, ResponseSplit

CONSTANTS MaxMsgs,      \* bound on the messages sent to the chat
          Tools,        \* names of tools
          MaxUses,      \* bound on the tools the status messages alive name
          MaxFaults,    \* bound on the calls to Telegram that fail
          HistCap,      \* completed tools the progressive status shows, 20
          Replies,      \* texts apytti may reply
          ErrorText,    \* "(brain unreachable: ...)"
          Verbosity,    \* "minimal", "kind" or "progressive"
          Pinned        \* the bot has a session_id

ASSUME ChatAssumption == /\ {MaxMsgs, MaxUses, MaxFaults, HistCap} \subseteq Nat
                         /\ Replies \subseteq Text /\ ErrorText \in Text
                         /\ Verbosity \in {"minimal", "kind", "progressive"}
                         /\ Pinned \in BOOLEAN

VARIABLES taken,        \* messages the listener took, numbered in order
          listener,     \* "poll", or about to make the call of /kill or /killall
          slot,         \* in_flight is Some
          pc,           \* the handler thread of each message
          upstream,     \* what apytti does with its ask, or "broken": the answer cannot be read
          progress,     \* ProgressState
          updater,      \* the updater thread, and the text it is about to send
          cached,       \* last_text
          alive,
          shown,        \* the status message in the chat
          left,         \* chunks send_split still has to send
          got,          \* messages of the reply in the chat
          reply,        \* the text to deliver
          trouble,      \* per message, what went wrong at Telegram: history
          faults        \* calls to Telegram that failed

listenVars == <<taken, listener>>
statusVars == <<progress, updater, cached, alive>>
delivery == <<left, got, reply, trouble, faults>>
chatVars == <<listenVars, slot, pc, upstream, statusVars, shown, delivery>>

Msgs == 1..MaxMsgs
Mark == Tools \X {"running", "ran"}
Status(marks) == [kind |-> "status", marks |-> marks, text |-> <<>>]
Thinking == Status(<<>>)
Final(text) == [kind |-> "final", marks |-> <<>>, text |-> text]
NoTools == [completed |-> <<>>, current |-> {}]
Placeholder == Final(<<>>)      \* "(empty response)" and the trailer "done": no text of the reply

(* A handler between the two assignments of its thread to the slot.                               *)
Busy(m) == pc[m] \in {"begun", "asking", "stream", "final", "fallback", "send", "clear"}

ChatTypeOK ==
  /\ taken \in 0..MaxMsgs /\ listener \in {"poll", "kill", "killall"} /\ slot \in BOOLEAN
  /\ pc \in [Msgs -> {"none", "thread", "begun", "asking", "stream", "final", "fallback",
                      "send", "clear", "done", "dropped", "command", "exited"}]
  /\ upstream \in [Msgs -> {"none", "running", "cancelled", "broken"}]
  /\ progress \in [Msgs -> [completed : Seq(Tools), current : SUBSET Tools]]
  /\ \A m \in Msgs : Cardinality(progress[m].current) <= 1
  /\ updater \in [Msgs -> [pc : {"none", "look", "edit", "over"}, want : Seq(Mark)]]
  /\ cached \in [Msgs -> Seq(Mark)] /\ alive \in [Msgs -> BOOLEAN]
  /\ shown \in [Msgs -> [kind : {"none", "status", "final"}, marks : Seq(Mark), text : Text]]
  /\ left \in [Msgs -> Seq(Text)] /\ got \in [Msgs -> Seq(Text)] /\ reply \in [Msgs -> Text]
  /\ trouble \in [Msgs -> SUBSET {"unanswered", "aborted", "stale"}] /\ faults \in 0..MaxFaults

ChatInit ==
  /\ taken = 0 /\ listener = "poll" /\ slot = FALSE
  /\ pc = [m \in Msgs |-> "none"]
  /\ upstream = [m \in Msgs |-> "none"]
  /\ progress = [m \in Msgs |-> NoTools]
  /\ updater = [m \in Msgs |-> [pc |-> "none", want |-> <<>>]]
  /\ cached = [m \in Msgs |-> <<>>] /\ alive = [m \in Msgs |-> FALSE]
  /\ shown = [m \in Msgs |-> [kind |-> "none", marks |-> <<>>, text |-> <<>>]]
  /\ left = [m \in Msgs |-> <<>>] /\ got = [m \in Msgs |-> <<>>]
  /\ reply = [m \in Msgs |-> <<>>] /\ trouble = [m \in Msgs |-> {}] /\ faults = 0

-------------------------------------------------------------------------------
(* render: the marks of the status text.  An argument is part of the tool's name.                 *)
Ran(tools) == [i \in 1..Len(tools) |-> <<tools[i], "ran">>]
LastOf(s, n) == SubSeq(s, IF Len(s) > n THEN Len(s) - n + 1 ELSE 1, Len(s))

render(p) ==
  LET running == IF p.current = {} THEN <<>> ELSE << <<CHOOSE t \in p.current : TRUE, "running">> >>
  IN CASE Verbosity = "minimal" -> <<>>
       [] Verbosity = "kind" -> IF running # <<>> THEN running ELSE Ran(LastOf(p.completed, 1))
       [] Verbosity = "progressive" -> Ran(LastOf(p.completed, HistCap)) \o running

(* current.take() pushed on completed.                                                            *)
TakeCurrent(p) == [completed |-> p.completed \o SetToSeq(p.current), current |-> {}]

(* What a call to Telegram does: it is done and answered, refused, or done and not answered.       *)
Outcome == {"ok", "refused", "unanswered"}

Fails(out) == /\ out # "ok" => faults < MaxFaults
              /\ faults' = IF out = "ok" THEN faults ELSE faults + 1

EditShown(m, out, new) == shown' = IF out = "refused" THEN shown ELSE [shown EXCEPT ![m] = new]

-------------------------------------------------------------------------------
(* The listener.                                                                                  *)

(* The slot is tested here and set by the thread this spawns.                                     *)
TakeMessage(m) ==
  /\ listener = "poll" /\ m = taken + 1 /\ m \in Msgs
  /\ taken' = m
  /\ pc' = [pc EXCEPT ![m] = IF slot THEN "dropped" ELSE "thread"]
  /\ UNCHANGED <<listener, slot, upstream, statusVars, shown, delivery>>

(* /kill reads the slot first: nothing in flight, or no session to name, and it only says so.     *)
TakeKill(m, all) ==
  /\ listener = "poll" /\ m = taken + 1 /\ m \in Msgs
  /\ taken' = m
  /\ pc' = [pc EXCEPT ![m] = "command"]
  /\ listener' = IF all THEN "killall" ELSE IF slot /\ Pinned THEN "kill" ELSE "poll"
  /\ UNCHANGED <<slot, upstream, statusVars, shown, delivery>>

(* The cancel call reaches every ask apytti runs by then, or fails.                               *)
Cancel ==
  /\ listener # "poll" /\ listener' = "poll"
  /\ \/ upstream' = [m \in Msgs |-> IF upstream[m] = "running" THEN "cancelled" ELSE upstream[m]]
     \/ UNCHANGED upstream
  /\ UNCHANGED <<taken, slot, pc, statusVars, shown, delivery>>

-------------------------------------------------------------------------------
(* A handler thread.                                                                              *)

SetSlot(m) ==
  /\ pc[m] = "thread"
  /\ slot' = TRUE /\ pc' = [pc EXCEPT ![m] = "begun"]
  /\ UNCHANGED <<listenVars, upstream, statusVars, shown, delivery>>

(* Mutated: the early return skips the slot.                                                     *)
IgnoreWithoutClearing(m) ==
  /\ pc[m] = "begun"
  /\ pc' = [pc EXCEPT ![m] = "done"]
  /\ UNCHANGED <<listenVars, slot, upstream, statusVars, shown, delivery>>

(* prepare_payload: a callback or unknown content is ignored.                                     *)
Ignore(m) ==
  /\ pc[m] = "begun"
  /\ pc' = [pc EXCEPT ![m] = "clear"]
  /\ UNCHANGED <<listenVars, slot, upstream, statusVars, shown, delivery>>

(* status::start, and without an answer the ask goes on without a status message.                 *)
StartStatus(m, out) ==
  /\ pc[m] = "begun" /\ Fails(out)
  /\ pc' = [pc EXCEPT ![m] = "asking"]
  /\ IF out = "ok"
     THEN /\ shown' = [shown EXCEPT ![m] = Thinking]
          /\ alive' = [alive EXCEPT ![m] = TRUE]
          /\ updater' = [updater EXCEPT ![m].pc = "look"]
     ELSE UNCHANGED <<shown, alive, updater>>
  /\ UNCHANGED <<listenVars, slot, upstream, progress, cached, left, got, reply, trouble>>

HasStatus(m) == updater[m].pc # "none"

(* forward_streaming posts the ask and reads the answer, a stream of events or one object.        *)
Post(m) ==
  /\ pc[m] = "asking"
  /\ pc' = [pc EXCEPT ![m] = "stream"]
  /\ upstream' = [upstream EXCEPT ![m] = "running"]
  /\ UNCHANGED <<listenVars, slot, statusVars, shown, delivery>>

Reported(m, p) ==
  /\ pc[m] = "stream" /\ upstream[m] # "broken"
  /\ progress' = IF HasStatus(m) THEN [progress EXCEPT ![m] = p] ELSE progress
  /\ UNCHANGED <<listenVars, slot, pc, upstream, updater, cached, alive, shown, delivery>>

Uses(m) == Len(progress[m].completed) + Cardinality(progress[m].current)

(* A tool may begin with no result of the one before.                                             *)
ToolUse(m, t) ==
  /\ MapThenSumSet(Uses, Msgs) < MaxUses
  /\ Reported(m, [TakeCurrent(progress[m]) EXCEPT !.current = {t}])

ToolResult(m) == Reported(m, TakeCurrent(progress[m]))

(* Returns of forward_streaming: a done or error event, or a plain answer, carries a text; a      *)
(* request that failed, a bad answer or a stream that ends without done is the error text.        *)
Returns(m, text) ==
  /\ pc' = [pc EXCEPT ![m] = "final"]
  /\ reply' = [reply EXCEPT ![m] = text]
  /\ upstream' = [upstream EXCEPT ![m] = "none"]
  /\ UNCHANGED <<listenVars, slot, statusVars, shown, left, got, trouble, faults>>

Answered(m) == /\ pc[m] = "stream" /\ upstream[m] # "broken"
               /\ \E text \in Replies : Returns(m, text)

AskFailed(m) == pc[m] = "asking" /\ Returns(m, ErrorText)

(* A read fails and the loop goes on to the next line: events come no more, and as long as reads  *)
(* fail it goes round.                                                                            *)
StreamBreaks(m) ==
  /\ pc[m] = "stream" /\ upstream[m] # "broken"
  /\ upstream' = [upstream EXCEPT ![m] = "broken"]
  /\ UNCHANGED <<listenVars, slot, pc, statusVars, shown, delivery>>

(* The end of the stream, or of a plain answer that is cut.  A broken connection may be at its    *)
(* end too, if the reader says so after its errors.                                               *)
StreamEnds(m) == pc[m] = "stream" /\ Returns(m, ErrorText)

-------------------------------------------------------------------------------
(* Delivery.                                                                                      *)

(* send_split over the chunks that are left.                                                      *)
SendOn(m, chunks) ==
  /\ left' = [left EXCEPT ![m] = chunks]
  /\ pc' = [pc EXCEPT ![m] = IF chunks = <<>> THEN "clear" ELSE "send"]

Chunks == [text \in Replies \cup {ErrorText} |-> split_response(text)]

StartSend(m) == SendOn(m, Chunks[reply[m]])

(* finalize: stop the updater, then the first edit.                                               *)
StopAndEdit(m, out) ==
  /\ pc[m] = "final" /\ HasStatus(m) /\ Fails(out)
  /\ alive' = [alive EXCEPT ![m] = FALSE]
  /\ LET short == Len(reply[m]) <= TelegramMax
     IN /\ EditShown(m, out, IF short THEN Final(reply[m]) ELSE Placeholder)
        /\ IF ~short THEN StartSend(m)
           ELSE /\ pc' = [pc EXCEPT ![m] = IF reply[m] = <<>> \/ out = "ok" THEN "clear"
                                           ELSE "fallback"]
                /\ UNCHANGED left
  /\ UNCHANGED <<listenVars, slot, upstream, progress, updater, cached, got, reply, trouble>>

(* Mutated: the updater is joined before it is told to stop.                                      *)
FinalizeJoining(m, out) == updater[m].pc = "over" /\ StopAndEdit(m, out)

Finalize(m, out) == StopAndEdit(m, out)

(* Mutated: the error of the edit returns before the reply is sent.                               *)
FallbackWithoutBody(m, out) ==
  /\ pc[m] = "fallback" /\ Fails(out)
  /\ EditShown(m, out, Placeholder)
  /\ pc' = [pc EXCEPT ![m] = "clear"]
  /\ UNCHANGED <<listenVars, slot, upstream, statusVars, left, got, reply, trouble>>

(* The edit failed: the trailer, whose own failure is ignored, then the reply as new messages.    *)
Fallback(m, out) ==
  /\ pc[m] = "fallback" /\ Fails(out)
  /\ EditShown(m, out, Placeholder)
  /\ StartSend(m)
  /\ UNCHANGED <<listenVars, slot, upstream, statusVars, got, reply, trouble>>

(* send_split: the first chunk that fails is the last.                                            *)
SendChunk(m, out) ==
  /\ pc[m] = "send" /\ Fails(out)
  /\ got' = IF out = "refused" THEN got ELSE [got EXCEPT ![m] = Append(@, Head(left[m]))]
  /\ SendOn(m, IF out = "ok" THEN Tail(left[m]) ELSE <<>>)
  /\ trouble' = IF out = "ok" THEN trouble ELSE [trouble EXCEPT ![m] = @ \cup {"aborted"}]
  /\ UNCHANGED <<listenVars, slot, upstream, statusVars, shown, reply>>

(* send_reply: one message, cut at the limit (the words that say so are left out).                *)
SendReply(m, out) ==
  /\ pc[m] = "final" /\ ~HasStatus(m) /\ Fails(out)
  /\ got' = IF out = "refused" THEN got
            ELSE [got EXCEPT ![m] = <<LET n == Len(reply[m])
                                      IN SubSeq(reply[m], 1, IF n > TelegramMax THEN TelegramMax
                                                                                ELSE n)>>]
  /\ trouble' = IF out = "refused" THEN [trouble EXCEPT ![m] = @ \cup {"aborted"}] ELSE trouble
  /\ pc' = [pc EXCEPT ![m] = "clear"]
  /\ UNCHANGED <<listenVars, slot, upstream, statusVars, shown, left, reply>>

ClearSlot(m) ==
  /\ pc[m] = "clear"
  /\ slot' = FALSE /\ pc' = [pc EXCEPT ![m] = "done"]
  /\ UNCHANGED <<listenVars, upstream, statusVars, shown, delivery>>

-------------------------------------------------------------------------------
(* Mutated: last_text is set before the edit is answered.                                        *)
LookAndCache(m) ==
  /\ updater[m].pc = "look" /\ alive[m]
  /\ render(progress[m]) # cached[m]
  /\ updater' = [updater EXCEPT ![m] = [pc |-> "edit", want |-> render(progress[m])]]
  /\ cached' = [cached EXCEPT ![m] = render(progress[m])]
  /\ UNCHANGED <<listenVars, slot, pc, upstream, progress, alive, shown, delivery>>

(* The updater of a status message.  It renders and compares, then edits: the ask may be over by  *)
(* the time the edit lands.                                                                       *)
Look(m) ==
  /\ updater[m].pc = "look" /\ alive[m]
  /\ render(progress[m]) # cached[m]
  /\ updater' = [updater EXCEPT ![m] = [pc |-> "edit", want |-> render(progress[m])]]
  /\ UNCHANGED <<listenVars, slot, pc, upstream, progress, cached, alive, shown, delivery>>

(* Telegram refuses an edit that changes nothing, and that refusal counts as an answer.           *)
Edit(m, out) ==
  /\ updater[m].pc = "edit" /\ Fails(out)
  /\ EditShown(m, out, Status(updater[m].want))
  /\ cached' = IF out = "ok" THEN [cached EXCEPT ![m] = updater[m].want] ELSE cached
  /\ updater' = [updater EXCEPT ![m] = [pc |-> "look", want |-> <<>>]]
  /\ trouble' = [trouble EXCEPT ![m] = @ \cup (IF out = "unanswered" THEN {"unanswered"} ELSE {})
                                         \cup (IF out # "refused" /\ ~alive[m] THEN {"stale"} ELSE {})]
  /\ UNCHANGED <<listenVars, slot, pc, upstream, progress, alive, left, got, reply>>

(* It held the last reference to the state it rendered.                                           *)
UpdaterEnds(m) ==
  /\ updater[m].pc = "look" /\ ~alive[m]
  /\ updater' = [updater EXCEPT ![m].pc = "over"]
  /\ progress' = [progress EXCEPT ![m] = NoTools] /\ cached' = [cached EXCEPT ![m] = <<>>]
  /\ UNCHANGED <<listenVars, slot, pc, upstream, alive, shown, delivery>>

-------------------------------------------------------------------------------
(* Steps of the listener; they need messages.                                                     *)
Listen == Cancel \/ \E m \in Msgs : TakeMessage(m) \/ TakeKill(m, TRUE) \/ TakeKill(m, FALSE)

Stream(m) ==
  \/ Answered(m) \/ AskFailed(m) \/ StreamBreaks(m) \/ StreamEnds(m)
  \/ ToolResult(m) \/ \E t \in Tools : ToolUse(m, t)

Deliver(m) ==
  \E out \in Outcome :
    Finalize(m, out) \/ Fallback(m, out) \/ SendChunk(m, out) \/ SendReply(m, out)

Handle(m) ==
  \/ SetSlot(m) \/ Ignore(m) \/ StartStatus(m, "ok") \/ StartStatus(m, "refused") \/ Post(m)
  \/ Stream(m) \/ Deliver(m) \/ ClearSlot(m)

Update(m) == Look(m) \/ UpdaterEnds(m) \/ \E out \in Outcome : Edit(m, out)

ChatNext == Listen \/ \E m \in Msgs : Handle(m) \/ Update(m)

(* The process ends: every thread with it, and what the threads knew.  The chat keeps what it     *)
(* shows.                                                                                         *)
ChatExit ==
  /\ listener' = "poll" /\ slot' = FALSE
  /\ pc' = [m \in Msgs |-> IF Busy(m) \/ pc[m] = "thread" THEN "exited" ELSE pc[m]]
  /\ upstream' = [m \in Msgs |-> "none"]
  /\ updater' = [m \in Msgs |-> [pc |-> IF HasStatus(m) THEN "over" ELSE "none", want |-> <<>>]]
  /\ progress' = [m \in Msgs |-> NoTools]
  /\ cached' = [m \in Msgs |-> <<>>] /\ alive' = [m \in Msgs |-> FALSE]
  /\ left' = [m \in Msgs |-> <<>>]
  /\ UNCHANGED <<taken, shown, got, reply, trouble, faults>>

(* The chat by itself, in a process that goes on.  Threads run; a call to Telegram is answered    *)
(* once its failures are used up; apytti ends the stream of an ask it cancelled.  A broken stream  *)
(* need not end.                                                                                  *)
HandlerFairness(m) ==
  /\ WF_chatVars(SetSlot(m) \/ Ignore(m) \/ StartStatus(m, "ok") \/ Post(m) \/ Deliver(m) \/ ClearSlot(m))
  /\ WF_chatVars(upstream[m] = "cancelled" /\ StreamEnds(m))

ChatSpec ==
  /\ ChatInit /\ [][ChatNext]_chatVars
  /\ \A m \in Msgs : HandlerFairness(m) /\ WF_chatVars(Update(m))

-------------------------------------------------------------------------------
(* A chat that says "transaction in progress" has one: the slot is never set with no handler      *)
(* between its two assignments, whatever way handlers return, stack or end with the process.      *)
SlotMeansBusy == slot => \E m \in Msgs : Busy(m)

(* A handler that is done delivered the text: the edited status message shows it, or the messages *)
(* sent make it up, chunk by chunk, with nothing a reader sees lost or moved.  Without a status   *)
(* message the first TelegramMax characters do.  Excused: a chunk Telegram failed, and a late     *)
(* edit of the updater that overwrote a reply that lived in the status message.                   *)
ReplyWhole ==
  \A m \in Msgs :
    LET whole == Letters(reply[m])
        sent == Letters(FlattenSeq(got[m]))
        edited == shown[m].kind = "final" /\ Letters(shown[m].text) = whole
    IN (pc[m] = "done" /\ "aborted" \notin trouble[m]) =>
         IF HasStatus(m)
         THEN edited \/ sent = whole \/ ("stale" \in trouble[m] /\ Len(reply[m]) <= TelegramMax)
         ELSE sent = whole \/ (Len(reply[m]) > TelegramMax /\ IsPrefix(sent, whole))

(* An ask that apytti was told to cancel frees the chat: its handler ends, on every path of       *)
(* delivery, or the process does.  Excused: a connection that broke, whose reads fail for ever    *)
(* (bot.rs:396); the handler then never returns, and the chat stays busy.                         *)
KilledAskFreesChat ==
  \A m \in Msgs : \/ (upstream[m] = "cancelled") ~> (pc[m] \in {"done", "exited"})
                  \/ <>[](upstream[m] = "broken")

(* The status message comes to show the progress of the ask, unless progress moves on, the ask    *)
(* ends, or an edit of it got no answer (last_text is then wrong and may hide a difference).      *)
StatusCatchesUp ==
  \A m \in Msgs :
    (HasStatus(m) /\ alive[m] /\ shown[m] # Status(render(progress[m]))) ~>
      (shown[m] = Status(render(progress[m])) \/ ~alive[m] \/ "unanswered" \in trouble[m])
===============================================================================
