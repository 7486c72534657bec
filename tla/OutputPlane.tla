----------------------------- MODULE OutputPlane -----------------------------
(* The output of one PTY session: the reader thread of session.rs, the scrollback, the broadcast  *)
(* ring, and those who read it - terminal sockets (rest.rs), the forwarders of mqtt_pty.rs and    *)
(* the event streams of rest.rs, both behind the BufferedOutput of buffer.rs.                     *)
(* A chunk is what one read returned, numbered in order; Exit is PTY_EXIT_SENTINEL.  sent is all  *)
(* that was ever put in the ring: its last Cap elements are still there.  A chunk is one line of  *)
(* scrollback and one unit of BufferedOutput's max_bytes.                                         *)
EXTENDS Naturals, Sequences, FiniteSets, Functions

CONSTANTS Sockets,      \* terminal sockets ever opened
          Streams,      \* buffered readers ever opened
          MaxChunks,    \* bound on the chunks read
          Cap,          \* slots of the broadcast ring
          ScrollCap,    \* lines of the scrollback
          MaxBuf,       \* max_bytes
          Exit

ASSUME CapsAssumption == /\ MaxChunks \in Nat
                         /\ {Cap, ScrollCap, MaxBuf} \subseteq Nat \ {0}
ASSUME ExitAssumption == Exit \notin Nat

VARIABLES shell,    \* "running", then "jobs" while others hold the terminal, then "gone"
          listed,   \* the session is in the manager's map
          reader,   \* the reader thread: in read, about to send the chunk it pushed, or done
          made,     \* chunks read
          text,     \* those of them that are UTF-8
          scroll,   \* the scrollback
          sent,
          socket,
          stream

session == <<shell, listed, reader, made, text, scroll, sent>>
vars == <<session, socket, stream>>

Chunks == 1..MaxChunks
Message == Chunks \cup {Exit}

(* first is where it subscribed, next where it reads on; hist and live are what the client got. *)
(* "typing": the task waits for room in the session's input and does nothing else. *)
SocketType == [pc : {"off", "attached", "subscribed", "open", "typing", "told", "closed", "left"},
               first : Nat, next : Nat, hist : Seq(Chunks), live : Seq(Chunks)]

(* buf and out hold places of the ring; skipped, the places it was told it lagged behind. *)
StreamType == [kind : {"mqtt", "sse"}, pc : {"off", "got", "open", "told", "ended", "left"},
               first : Nat, next : Nat, buf : Seq(Nat), out : Seq(Nat), skipped : SUBSET Nat]

TypeOK ==
  /\ shell \in {"running", "jobs", "gone"} /\ listed \in BOOLEAN
  /\ reader \in {"read", "send", "done"}
  /\ made \in 0..MaxChunks /\ text \subseteq 1..made
  /\ scroll \in Seq(text) /\ Len(scroll) <= ScrollCap
  /\ sent \in Seq(Message)
  /\ socket \in [Sockets -> SocketType]
  /\ stream \in [Streams -> StreamType]
  /\ \A x \in Streams : Len(stream[x].buf) < MaxBuf

Init ==
  /\ shell = "running" /\ listed = TRUE /\ reader = "read"
  /\ made = 0 /\ text = {} /\ scroll = <<>> /\ sent = <<>>
  /\ socket = [s \in Sockets |-> [pc |-> "off", first |-> 0, next |-> 0,
                                  hist |-> <<>>, live |-> <<>>]]
  /\ stream = [x \in Streams |-> [kind |-> "mqtt", pc |-> "off", first |-> 0, next |-> 0,
                                  buf |-> <<>>, out |-> <<>>, skipped |-> {}]]

------------------------------------------------------------------------------
(* The broadcast ring.  Mutated forms, used by no specification, stand before what they mutate.   *)

Oldest == IF Len(sent) > Cap THEN Len(sent) - Cap + 1 ELSE 1

Ready(next) == next \in Oldest..Len(sent)
Lagged(next) == next < Oldest

(* Every handle is a sender: the map's, the reader's clone, and those of tasks that keep theirs. *)
Closed(next) ==
  /\ next > Len(sent)
  /\ ~listed /\ reader = "done"
  /\ \A s \in Sockets : socket[s].pc \notin {"attached", "subscribed", "open", "typing"}
  /\ \A x \in Streams : stream[x].pc # "got"

------------------------------------------------------------------------------
(* The session *)

Pushed(chunk) ==
  LET kept == IF Len(scroll) >= ScrollCap THEN Tail(scroll) ELSE scroll
  IN  Append(kept, chunk)

ReaderRead ==
  /\ reader = "read" /\ made < MaxChunks
  /\ made' = made + 1
  /\ \/ text' = text \cup {made'} /\ scroll' = Pushed(made')
     \/ UNCHANGED <<text, scroll>>
  /\ reader' = "send"
  /\ UNCHANGED <<shell, listed, sent, socket, stream>>

ReaderSend ==
  /\ reader = "send"
  /\ sent' = Append(sent, made)
  /\ reader' = "read"
  /\ UNCHANGED <<shell, listed, made, text, scroll, socket, stream>>

(* The session's own slave end keeps the terminal open while the map holds the session, and so do *)
(* the jobs that the shell left behind.                                                           *)
TerminalClosed == shell = "gone" /\ ~listed

ReaderEof ==
  /\ reader = "read" /\ TerminalClosed
  /\ sent' = Append(sent, Exit)
  /\ reader' = "done"
  /\ UNCHANGED <<shell, listed, made, text, scroll, socket, stream>>

UnregisterSilent ==
  /\ listed /\ listed' = FALSE
  /\ UNCHANGED <<shell, reader, made, text, scroll, sent, socket, stream>>

Unregister ==
  /\ listed /\ listed' = FALSE
  /\ sent' = Append(sent, Exit)
  /\ UNCHANGED <<shell, reader, made, text, scroll, socket, stream>>

(* The clean-up asks for the shell alone, and sends no farewell: that is left to the reader. *)
Cleanup ==
  /\ listed /\ shell # "running"
  /\ listed' = FALSE
  /\ UNCHANGED <<shell, reader, made, text, scroll, sent, socket, stream>>

ShellExits ==
  /\ shell = "running" /\ shell' \in {"jobs", "gone"}
  /\ UNCHANGED <<listed, reader, made, text, scroll, sent, socket, stream>>

JobsExit ==
  /\ shell = "jobs" /\ shell' = "gone"
  /\ UNCHANGED <<listed, reader, made, text, scroll, sent, socket, stream>>

------------------------------------------------------------------------------
(* A terminal socket: look the session up, subscribe, send the history, then follow the ring. *)

SocketAttach(s) ==
  /\ socket[s].pc = "off" /\ listed
  /\ socket' = [socket EXCEPT ![s].pc = "attached"]
  /\ UNCHANGED <<session, stream>>

Subscription(r, pc) == [r EXCEPT !.pc = pc, !.first = Len(sent) + 1, !.next = Len(sent) + 1]

SocketSubscribe(s) ==
  /\ socket[s].pc = "attached"
  /\ socket' = [socket EXCEPT ![s] = Subscription(@, "subscribed")]
  /\ UNCHANGED <<session, stream>>

SocketHistory(s) ==
  /\ socket[s].pc = "subscribed"
  /\ socket' = [socket EXCEPT ![s].hist = scroll, ![s].pc = "open"]
  /\ UNCHANGED <<session, stream>>

SocketRecv(s) ==
  /\ socket[s].pc = "open" /\ Ready(socket[s].next)
  /\ LET message == sent[socket[s].next] IN
     socket' = IF message = Exit
               THEN [socket EXCEPT ![s].pc = "told", ![s].next = @ + 1]
               ELSE [socket EXCEPT ![s].live = Append(@, message), ![s].next = @ + 1]
  /\ UNCHANGED <<session, stream>>

SocketRecvErrGoesOn(s) ==
  /\ socket[s].pc = "open" /\ Lagged(socket[s].next)
  /\ socket' = [socket EXCEPT ![s].next = Oldest]
  /\ UNCHANGED <<session, stream>>

(* Any error ends the connection.  The channel is never closed here: the task keeps a handle. *)
SocketRecvErr(s) ==
  /\ socket[s].pc = "open" /\ Lagged(socket[s].next)
  /\ socket' = [socket EXCEPT ![s].pc = "closed"]
  /\ UNCHANGED <<session, stream>>

SocketLeave(s) ==
  /\ socket[s].pc = "open"
  /\ socket' = [socket EXCEPT ![s].pc = "left"]
  /\ UNCHANGED <<session, stream>>

(* The client types: stdin_tx.send waits in the body of the select!, which reads nothing of the   *)
(* session meanwhile, until there is room or the receiver is gone.                                *)
SocketTypes(s) ==
  /\ socket[s].pc = "open"
  /\ socket' = [socket EXCEPT ![s].pc = "typing"]
  /\ UNCHANGED <<session, stream>>

SocketTyped(s) ==
  /\ socket[s].pc = "typing"
  /\ socket' = [socket EXCEPT ![s].pc = "open"]
  /\ UNCHANGED <<session, stream>>

(* A write to a terminal that is closed fails, and with it the task that took the input. *)
SocketRefused(s) ==
  /\ socket[s].pc = "typing" /\ TerminalClosed
  /\ socket' = [socket EXCEPT ![s].pc = "closed"]
  /\ UNCHANGED <<session, stream>>

SocketStart(s) == SocketSubscribe(s) \/ SocketHistory(s)
SocketFollow(s) == SocketRecv(s) \/ SocketRecvErr(s)
SocketInput(s) == SocketTypes(s) \/ SocketTyped(s) \/ SocketRefused(s)

------------------------------------------------------------------------------
(* A reader behind a BufferedOutput: an MQTT forwarder or an event stream *)

StreamGet(x, kind) ==
  /\ stream[x].pc = "off" /\ listed
  /\ stream' = [stream EXCEPT ![x].pc = "got", ![x].kind = kind]
  /\ UNCHANGED <<session, socket>>

StreamSubscribe(x) ==
  /\ stream[x].pc = "got"
  /\ stream' = [stream EXCEPT ![x] = Subscription(@, "open")]
  /\ UNCHANGED <<session, socket>>

(* What the reader's loop does with the bytes that recv returned: a forwarder whose bytes end with *)
(* the sentinel announces the exit and publishes none of them.                                     *)
IsExit(blob) == Len(blob) = 1 /\ sent[blob[1]] = Exit
EndsWithExit(blob) == sent[blob[Len(blob)]] = Exit

Returned(r, blob) ==
  IF r.kind = "mqtt" /\ EndsWithExit(blob)
  THEN [r EXCEPT !.pc = "told", !.buf = <<>>]
  ELSE [r EXCEPT !.out = @ \o blob, !.buf = <<>>]

StreamTakeOffByOne(x) ==
  /\ stream[x].pc = "open" /\ Ready(stream[x].next)
  /\ LET r == [stream[x] EXCEPT !.next = @ + 1]
         buf == Append(r.buf, stream[x].next)
     IN  stream' = [stream EXCEPT ![x] = IF Len(buf) > MaxBuf THEN Returned(r, buf)
                                         ELSE [r EXCEPT !.buf = buf]]
  /\ UNCHANGED <<session, socket>>

StreamTake(x) ==
  /\ stream[x].pc = "open" /\ Ready(stream[x].next)
  /\ LET r == [stream[x] EXCEPT !.next = @ + 1]
         buf == Append(r.buf, stream[x].next)
     IN  stream' = [stream EXCEPT ![x] = IF Len(buf) >= MaxBuf THEN Returned(r, buf)
                                         ELSE [r EXCEPT !.buf = buf]]
  /\ UNCHANGED <<session, socket>>

StreamDeadline(x) ==
  /\ stream[x].pc = "open" /\ stream[x].buf # <<>>
  /\ stream' = [stream EXCEPT ![x] = Returned(@, @.buf)]
  /\ UNCHANGED <<session, socket>>

StreamLagged(x) ==
  /\ stream[x].pc = "open" /\ Lagged(stream[x].next)
  /\ stream' = [stream EXCEPT ![x].next = Oldest,
                              ![x].skipped = @ \cup stream[x].next..(Oldest - 1)]
  /\ UNCHANGED <<session, socket>>

StreamClosedDropsBuffer(x) ==
  /\ stream[x].pc = "open" /\ Closed(stream[x].next)
  /\ stream' = [stream EXCEPT ![x].pc = "ended", ![x].buf = <<>>]
  /\ UNCHANGED <<session, socket>>

StreamClosed(x) ==
  /\ stream[x].pc = "open" /\ Closed(stream[x].next)
  /\ stream' = [stream EXCEPT ![x] = IF @.buf = <<>> THEN [@ EXCEPT !.pc = "ended"]
                                     ELSE Returned(@, @.buf)]
  /\ UNCHANGED <<session, socket>>

(* The client of an event stream hangs up. *)
StreamLeave(x) ==
  /\ stream[x].pc = "open" /\ stream[x].kind = "sse"
  /\ stream' = [stream EXCEPT ![x].pc = "left", ![x].buf = <<>>]
  /\ UNCHANGED <<session, socket>>

StreamStep(x) ==
  StreamSubscribe(x) \/ StreamTake(x) \/ StreamLagged(x) \/ StreamClosed(x)

------------------------------------------------------------------------------
Next ==
  \/ ReaderRead \/ ReaderSend \/ ReaderEof
  \/ Unregister \/ Cleanup \/ ShellExits \/ JobsExit
  \/ \E s \in Sockets : SocketAttach(s) \/ SocketStart(s) \/ SocketFollow(s)
                            \/ SocketInput(s) \/ SocketLeave(s)
  \/ \E x \in Streams : StreamGet(x, "mqtt") \/ StreamGet(x, "sse") \/ StreamStep(x)
                            \/ StreamDeadline(x) \/ StreamLeave(x)

(* The reader thread returns from a read that can return; tokio runs every task that can run, and *)
(* a timer fires.  A terminal's select! polls the session and the client in random order, so that *)
(* typing does not starve the output: strong fairness.  Input is taken for sure only when the     *)
(* terminal is closed and refuses it.  Nothing is assumed of shells, of clients, nor of those who *)
(* remove sessions.                                                                               *)
Fairness ==
  /\ WF_vars(ReaderSend) /\ WF_vars(ReaderEof)
  /\ \A s \in Sockets : /\ WF_vars(SocketStart(s)) /\ SF_vars(SocketFollow(s))
                        /\ WF_vars(TerminalClosed /\ (SocketTyped(s) \/ SocketRefused(s)))
  /\ \A x \in Streams : WF_vars(StreamStep(x)) /\ WF_vars(StreamDeadline(x))

Spec == Init /\ [][Next]_vars /\ Fairness

------------------------------------------------------------------------------
(* Properties *)

Contains(seq, c) == \E i \in DOMAIN seq : seq[i] = c

(* What a terminal has been shown is without a hole (rest.rs:575-600): of the live output, every  *)
(* chunk since it subscribed up to the one it reads next; of what was sent before, every chunk of *)
(* text that the scrollback had not dropped to make room for newer ones.  It rests on subscribing *)
(* before reading the history and on closing the socket when it lags.                             *)
SocketSeesNoGap ==
  \A s \in Sockets : LET r == socket[s] IN
    r.pc \in {"open", "typing", "told", "closed", "left"} =>
      /\ \A i \in r.first..(r.next - 1) : sent[i] # Exit => Contains(r.live, sent[i])
      /\ \A i \in 1..(r.first - 1) : sent[i] \in text =>
           \/ Contains(r.hist, sent[i])
           \/ Len(r.hist) = ScrollCap /\ sent[i] < r.hist[1]

Increasing(seq) == \A i, j \in DOMAIN seq : i < j => seq[i] < seq[j]

(* BufferedOutput loses and repeats nothing (buffer.rs:55-106): what it returned and what it still *)
(* holds are together, in order, what came since it subscribed, but for what the ring overwrote;   *)
(* and when it ends because the channel closed nothing is left in it.                              *)
StreamComplete ==
  \A x \in Streams : LET r == stream[x] IN
    /\ r.pc \in {"open", "ended"} =>
         /\ Increasing(r.out \o r.buf)
         /\ Range(r.out \o r.buf) = (r.first..(r.next - 1)) \ r.skipped
    /\ r.pc = "ended" => r.next = Len(sent) + 1 /\ r.buf = <<>>

(* A forwarder that was attached when the terminal ended announces it, also when the sentinel was *)
(* buffered behind the last output or the forwarder lagged (mqtt_pty.rs:119).                     *)
ForwarderAnnouncesExit ==
  \A x \in Streams :
    (stream[x].kind = "mqtt" /\ stream[x].pc = "open" /\ reader = "done" /\ stream[x].first <= Len(sent))
      ~> stream[x].pc = "told"

NoFarewell(s) == \A i \in DOMAIN sent : i >= socket[s].first => sent[i] # Exit

(* A client whose terminal follows a session when it is listed does not outlive it: if the session *)
(* is removed, by hand or by the clean-up, the terminal is told, or is closed because it lagged or *)
(* its input was refused (session.rs:199-217 and 357-367, rest.rs:589-598).  Two things can keep   *)
(* it: input that a terminal which stays open does not take, and jobs that hold the terminal for   *)
(* ever after the clean-up removed the session without a farewell.                                 *)
SocketEnds ==
  \A s \in Sockets :
    []((socket[s].pc \in {"subscribed", "open", "typing"} /\ listed) =>
         <>(\/ []listed
            \/ socket[s].pc \in {"told", "closed", "left"}
            \/ [](socket[s].pc = "typing" /\ ~TerminalClosed)
            \/ [](shell = "jobs" /\ ~listed /\ NoFarewell(s))))
==============================================================================
