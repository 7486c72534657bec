------------------------------ MODULE ControlHub ------------------------------
(***************************************************************************)
(* hermytt-core/src/control.rs with the connection tasks of                *)
(* hermytt-transport/src/control_ws.rs: how hermytt reaches the hosts      *)
(* ("shytti") that run shells for it.                                      *)
(*                                                                         *)
(* A host connects under a name; a task serves its web socket until it     *)
(* ends.  The hub keeps, behind one async mutex, the sender of a bounded   *)
(* queue for each name; the task forwards that queue to the socket.        *)
(* hub.spawn asks a host for a shell and waits for the answer under a      *)
(* ten-second timer; hub.send_to passes keystrokes on and holds the mutex  *)
(* while it waits for room in the queue.                                   *)
(***************************************************************************)
EXTENDS Integers, Sequences

CONSTANTS
    Names,      \* host names
    Conns,      \* web socket connections, a bound on how many ever arrive
    Reqs,       \* spawn requests, a bound on how many are ever made
    Senders,    \* stdin forwarder tasks, the callers of send_to
    QueueCap,   \* room in a connection's queue (64 in the code)
    MaxInputs,  \* bound on the messages the senders send
    None

ASSUME QueueCapAssumption == QueueCap \in Nat \ {0}
ASSUME MaxInputsAssumption == MaxInputs \in Nat
ASSUME NoneAssumption ==
    None \notin Names \union Conns \union Reqs \union Senders
ASSUME InputIsNoReq == "input" \notin Reqs

VARIABLES
    hub,       \* ControlHub.connections: the connection whose sender a name has
    lock,      \* the sender that holds the mutex of connections across an await
    registry,  \* ServiceRegistry: the names listed as connected services
    conn,      \* each connection's task
    queue,     \* each connection's queue of control messages
    spawner,   \* each call of hub.spawn
    pending,   \* ControlHub.pending_spawns
    asked,     \* spawn requests written to a host's socket and not answered
    sending,   \* the connection each sender is pushing to
    inputs     \* messages the senders have sent so far

vars == <<hub, lock, registry, conn, queue, spawner, pending, asked, sending, inputs>>

Message == Reqs \union {"input"}

ConnPcs == {"off", "joining", "announcing", "loop", "beat", "beatRegistry",
            "leaving", "retiring", "closed"}
SpawnPcs == {"idle", "found", "sending", "waiting", "expired", "done", "cancelled"}
Results == {"none", "ok", "err", "lost", "timeout", "notConnected"}

TypeOK ==
    /\ hub \in [Names -> Conns \union {None}]
    /\ lock \in Senders \union {None}
    /\ registry \in SUBSET Names
    /\ conn \in [Conns -> [pc : ConnPcs, name : Names \union {None}, listed : BOOLEAN]]
    /\ queue \in [Conns -> Seq(Message)]
    /\ \A c \in Conns : Len(queue[c]) <= QueueCap
    /\ spawner \in [Reqs -> [pc : SpawnPcs, tx : Conns \union {None},
                             reply : {"none", "ok", "err"}, result : Results]]
    /\ pending \in SUBSET Reqs
    /\ asked \in SUBSET Reqs
    /\ sending \in [Senders -> Conns \union {None}]
    /\ inputs \in 0..MaxInputs

(* The calls of spawn that still own a clone of c's sender.                *)
HoldsTx(r, c) == spawner[r].tx = c

(* c's queue is open while its task has not returned, and closed for its   *)
(* task when neither the hub nor a spawn has a sender left.                *)
ReceiverAlive(c) == conn[c].pc # "closed"

NoSendersButOwn(c) == conn[c].pc = "closed"  \* mutated: the task keeps a sender

NoSenders(c) ==
    /\ \A n \in Names : hub[n] # c
    /\ \A r \in Reqs : ~HoldsTx(r, c)

HasRoomOffByOne(c) == Len(queue[c]) <= QueueCap   \* mutated

HasRoom(c) == Len(queue[c]) < QueueCap

Init ==
    /\ hub = [n \in Names |-> None]
    /\ lock = None
    /\ registry = {}
    /\ conn = [c \in Conns |-> [pc |-> "off", name |-> None, listed |-> FALSE]]
    /\ queue = [c \in Conns |-> <<>>]
    /\ spawner = [r \in Reqs |-> [pc |-> "idle", tx |-> None,
                                  reply |-> "none", result |-> "none"]]
    /\ pending = {}
    /\ asked = {}
    /\ sending = [s \in Senders |-> None]
    /\ inputs = 0

-----------------------------------------------------------------------------
(* The task of a connection.                                               *)
Goto(c, pc) == conn' = [conn EXCEPT ![c].pc = pc]

(* The first message authenticated the host and gave its name.             *)
Connect(c, n) ==
    /\ conn[c].pc = "off"
    /\ c = CHOOSE d \in Conns : conn[d].pc = "off"    \* any unused one will do
    /\ conn' = [conn EXCEPT ![c] = [pc |-> "joining", name |-> n, listed |-> FALSE]]
    /\ UNCHANGED <<hub, lock, registry, queue, spawner, pending, asked, sending, inputs>>

(* hub.register: whatever connection had the name is displaced.            *)
HubRegister(c) ==
    /\ conn[c].pc = "joining"
    /\ lock = None
    /\ hub' = [hub EXCEPT ![conn[c].name] = c]
    /\ Goto(c, "announcing")
    /\ UNCHANGED <<lock, registry, queue, spawner, pending, asked, sending, inputs>>

RegistryRegister(c) ==
    /\ conn[c].pc = "announcing"
    /\ registry' = registry \union {conn[c].name}
    /\ Goto(c, "loop")
    /\ UNCHANGED <<hub, lock, queue, spawner, pending, asked, sending, inputs>>

(* A heartbeat goes to the hub (only metadata changes there), then to the  *)
(* registry; the first one makes the task ask the host for its shells.     *)
RecvHeartbeat(c) ==
    /\ conn[c].pc = "loop"
    /\ Goto(c, "beat")
    /\ UNCHANGED <<hub, lock, registry, queue, spawner, pending, asked, sending, inputs>>

BeatHub(c) ==
    /\ conn[c].pc = "beat"
    /\ lock = None
    /\ Goto(c, "beatRegistry")
    /\ UNCHANGED <<hub, lock, registry, queue, spawner, pending, asked, sending, inputs>>

BeatRegistry(c) ==
    /\ conn[c].pc = "beatRegistry"
    /\ registry' = registry \union {conn[c].name}
    /\ conn' = [conn EXCEPT ![c].pc = "loop", ![c].listed = TRUE]
    /\ UNCHANGED <<hub, lock, queue, spawner, pending, asked, sending, inputs>>

(* handle_spawn_ok and handle_spawn_err: the answer goes to the call that  *)
(* still has its entry; one that stopped waiting has dropped its receiver. *)
RecvSpawnAnswer(c, r, answer) ==
    /\ conn[c].pc = "loop"
    /\ r \in asked
    /\ asked' = asked \ {r}
    /\ pending' = pending \ {r}
    /\ spawner' = IF r \in pending /\ spawner[r].pc = "waiting"
                  THEN [spawner EXCEPT ![r].reply = answer] ELSE spawner
    /\ UNCHANGED <<hub, lock, registry, conn, queue, sending, inputs>>

(* rx.recv: the oldest message goes to the socket; a failed write ends the *)
(* loop and the message is lost.                                           *)
Forward(c) ==
    /\ conn[c].pc = "loop"
    /\ queue[c] # <<>>
    /\ queue' = [queue EXCEPT ![c] = Tail(@)]
    /\ \/ /\ asked' = asked \union ({Head(queue[c])} \intersect Reqs)
          /\ UNCHANGED conn
       \/ /\ Goto(c, "leaving")
          /\ UNCHANGED asked
    /\ UNCHANGED <<hub, lock, registry, spawner, pending, sending, inputs>>

(* rx.recv gives None: the connection was replaced or removed.             *)
ReceiverClosed(c) ==
    /\ conn[c].pc = "loop"
    /\ queue[c] = <<>>
    /\ NoSenders(c)
    /\ Goto(c, "leaving")
    /\ UNCHANGED <<hub, lock, registry, queue, spawner, pending, asked, sending, inputs>>

SocketClosed(c) ==
    /\ conn[c].pc = "loop"
    /\ Goto(c, "leaving")
    /\ UNCHANGED <<hub, lock, registry, queue, spawner, pending, asked, sending, inputs>>

HubUnregisterUnlocked(c) ==          \* mutated: does not wait for the mutex
    /\ conn[c].pc = "leaving"
    /\ hub' = [hub EXCEPT ![conn[c].name] = None]
    /\ Goto(c, "retiring")
    /\ UNCHANGED <<lock, registry, queue, spawner, pending, asked, sending, inputs>>

HubUnregisterSkipped(c) ==           \* mutated: leaves the entry behind
    /\ conn[c].pc = "leaving"
    /\ lock = None
    /\ Goto(c, "retiring")
    /\ UNCHANGED <<hub, lock, registry, queue, spawner, pending, asked, sending, inputs>>

(* The clean-up removes the name from the hub whoever has it now.          *)
HubUnregister(c) ==
    /\ conn[c].pc = "leaving"
    /\ lock = None
    /\ hub' = [hub EXCEPT ![conn[c].name] = None]
    /\ Goto(c, "retiring")
    /\ UNCHANGED <<lock, registry, queue, spawner, pending, asked, sending, inputs>>

RegistryUnregisterIfReplaced(c) ==   \* mutated: the wrong way round
    /\ conn[c].pc = "retiring"
    /\ registry' = IF hub[conn[c].name] # None THEN registry \ {conn[c].name} ELSE registry
    /\ Goto(c, "closed")
    /\ queue' = [queue EXCEPT ![c] = <<>>]
    /\ UNCHANGED <<hub, lock, spawner, pending, asked, sending, inputs>>

(* The service registry follows, and the task returns with its receiver.   *)
RegistryUnregister(c) ==
    /\ conn[c].pc = "retiring"
    /\ registry' = registry \ {conn[c].name}
    /\ Goto(c, "closed")
    /\ queue' = [queue EXCEPT ![c] = <<>>]
    /\ UNCHANGED <<hub, lock, spawner, pending, asked, sending, inputs>>

-----------------------------------------------------------------------------
(* hub.spawn.                                                              *)
Return(r, result) ==
    spawner' = [spawner EXCEPT ![r] =
        [pc |-> "done", tx |-> None, reply |-> "none", result |-> result]]

SpawnLookup(r, n) ==
    /\ spawner[r].pc = "idle"
    /\ lock = None
    /\ IF hub[n] = None
       THEN Return(r, "notConnected")
       ELSE spawner' = [spawner EXCEPT ![r].pc = "found", ![r].tx = hub[n]]
    /\ UNCHANGED <<hub, lock, registry, conn, queue, pending, asked, sending, inputs>>

SpawnInsert(r) ==
    /\ spawner[r].pc = "found"
    /\ pending' = pending \union {r}
    /\ spawner' = [spawner EXCEPT ![r].pc = "sending"]
    /\ UNCHANGED <<hub, lock, registry, conn, queue, asked, sending, inputs>>

(* tx.send waits for room, under no timer, and fails once the receiver is  *)
(* gone.                                                                   *)
SpawnSend(r) ==
    LET c == spawner[r].tx IN
    /\ spawner[r].pc = "sending"
    /\ ReceiverAlive(c)
    /\ HasRoom(c)
    /\ queue' = [queue EXCEPT ![c] = Append(@, r)]
    /\ spawner' = [spawner EXCEPT ![r].pc = "waiting"]
    /\ UNCHANGED <<hub, lock, registry, conn, pending, asked, sending, inputs>>

SpawnLostKeepingEntry(r) ==          \* mutated: forgets pending_spawns.remove
    /\ spawner[r].pc = "sending"
    /\ ~ReceiverAlive(spawner[r].tx)
    /\ Return(r, "lost")
    /\ UNCHANGED <<hub, lock, registry, conn, queue, pending, asked, sending, inputs>>

SpawnLostAfterSend(r) ==             \* mutated: also gives up once it has sent
    /\ spawner[r].pc \in {"sending", "waiting"}
    /\ ~ReceiverAlive(spawner[r].tx)
    /\ pending' = pending \ {r}
    /\ Return(r, "lost")
    /\ UNCHANGED <<hub, lock, registry, conn, queue, asked, sending, inputs>>

SpawnLost(r) ==
    /\ spawner[r].pc = "sending"
    /\ ~ReceiverAlive(spawner[r].tx)
    /\ pending' = pending \ {r}
    /\ Return(r, "lost")
    /\ UNCHANGED <<hub, lock, registry, conn, queue, asked, sending, inputs>>

SpawnReply(r) ==
    /\ spawner[r].pc = "waiting"
    /\ spawner[r].reply # "none"
    /\ Return(r, spawner[r].reply)
    /\ UNCHANGED <<hub, lock, registry, conn, queue, pending, asked, sending, inputs>>

SpawnTimeoutFirst(r) ==              \* mutated: the timer is polled first
    /\ spawner[r].pc = "waiting"
    /\ spawner' = [spawner EXCEPT ![r].pc = "expired"]
    /\ UNCHANGED <<hub, lock, registry, conn, queue, pending, asked, sending, inputs>>

SpawnTimeoutOnClose(r) ==            \* mutated: no timer, waits for the connection
    /\ spawner[r].pc = "waiting"
    /\ spawner[r].reply = "none"
    /\ ~ReceiverAlive(spawner[r].tx)
    /\ spawner' = [spawner EXCEPT ![r].pc = "expired"]
    /\ UNCHANGED <<hub, lock, registry, conn, queue, pending, asked, sending, inputs>>

(* The timer fires only when no answer is there: the receiver is dropped,  *)
(* then the entry is removed.                                              *)
SpawnTimeout(r) ==
    /\ spawner[r].pc = "waiting"
    /\ spawner[r].reply = "none"
    /\ spawner' = [spawner EXCEPT ![r].pc = "expired"]
    /\ UNCHANGED <<hub, lock, registry, conn, queue, pending, asked, sending, inputs>>

SpawnExpire(r) ==
    /\ spawner[r].pc = "expired"
    /\ pending' = pending \ {r}
    /\ Return(r, "timeout")
    /\ UNCHANGED <<hub, lock, registry, conn, queue, asked, sending, inputs>>

(* The HTTP client goes away: the handler is dropped where it stands and   *)
(* takes nothing out of pending_spawns.                                    *)
SpawnCancel(r) ==
    /\ spawner[r].pc \in {"found", "sending", "waiting", "expired"}
    /\ spawner' = [spawner EXCEPT ![r] =
        [pc |-> "cancelled", tx |-> None, reply |-> "none", result |-> "none"]]
    /\ UNCHANGED <<hub, lock, registry, conn, queue, pending, asked, sending, inputs>>

-----------------------------------------------------------------------------
(* hub.send_to takes the mutex, finds the sender and keeps the mutex until *)
(* the message is in the queue.                                            *)
SendLock(s, n) ==
    /\ lock = None
    /\ inputs < MaxInputs
    /\ hub[n] # None
    /\ lock' = s
    /\ sending' = [sending EXCEPT ![s] = hub[n]]
    /\ UNCHANGED <<hub, registry, conn, queue, spawner, pending, asked, inputs>>

SendPush(s) ==
    /\ lock = s
    /\ ReceiverAlive(sending[s])
    /\ HasRoom(sending[s])
    /\ queue' = [queue EXCEPT ![sending[s]] = Append(@, "input")]
    /\ lock' = None
    /\ sending' = [sending EXCEPT ![s] = None]
    /\ inputs' = inputs + 1
    /\ UNCHANGED <<hub, registry, conn, spawner, pending, asked>>

Task(c) ==
    \/ HubRegister(c)
    \/ RegistryRegister(c)
    \/ BeatHub(c)
    \/ BeatRegistry(c)
    \/ Forward(c)
    \/ ReceiverClosed(c)
    \/ HubUnregister(c)
    \/ RegistryUnregister(c)

Spawner(r) ==
    \/ SpawnInsert(r)
    \/ SpawnSend(r)
    \/ SpawnLost(r)
    \/ SpawnReply(r)
    \/ SpawnTimeout(r)
    \/ SpawnExpire(r)

Next ==
    \/ \E c \in Conns, n \in Names : Connect(c, n)
    \/ \E c \in Conns : Task(c)
    \/ \E c \in Conns : RecvHeartbeat(c)
    \/ \E c \in Conns, r \in Reqs, answer \in {"ok", "err"} : RecvSpawnAnswer(c, r, answer)
    \/ \E c \in Conns : SocketClosed(c)
    \/ \E r \in Reqs, n \in Names : SpawnLookup(r, n)
    \/ \E r \in Reqs : Spawner(r)
    \/ \E r \in Reqs : SpawnCancel(r)
    \/ \E s \in Senders, n \in Names : SendLock(s, n)
    \/ \E s \in Senders : SendPush(s)

(* Tokio runs every task that can run and hands the mutex out in order.    *)
(* The select! of a task polls its two sources in random order, so neither *)
(* starves the other: strong fairness of the queue's side.  A write to a   *)
(* web socket is assumed to end, well or badly.                            *)
(* Nothing is assumed of the hosts and clients: what they send, when they  *)
(* answer and when they go away.                                           *)
Fairness ==
    /\ \A c \in Conns : WF_vars(Task(c)) /\ SF_vars(Forward(c) \/ ReceiverClosed(c))
    /\ \A r \in Reqs : WF_vars(Spawner(r))
    /\ \A s \in Senders : WF_vars(SendPush(s))

Spec == Init /\ [][Next]_vars /\ Fairness

-----------------------------------------------------------------------------
InHub(c) == \E n \in Names : hub[n] = c

(* The hub never names a task that will not clean up after itself: a dead  *)
(* sender cannot stay in connections and swallow a host's name.            *)
HubNeverDangles ==
    \A n \in Names : hub[n] # None =>
        /\ conn[hub[n]].name = n
        /\ conn[hub[n]].pc \in {"announcing", "loop", "beat", "beatRegistry", "leaving"}

(* While send_to waits for room the hub cannot lose the connection it      *)
(* waits for, so the wait is for a queue that still has its task:          *)
(* send_to never returns "connection lost" (control.rs:206-210).           *)
SendTargetStays ==
    lock # None => /\ sending[lock] # None
                   /\ InHub(sending[lock])
                   /\ ReceiverAlive(sending[lock])

(* An entry of pending_spawns belongs to a call that is still under way or *)
(* was cut off by its client; a call that returned left none behind.       *)
PendingOwned ==
    \A r \in pending : spawner[r].pc \in {"sending", "waiting", "expired", "cancelled"}

(* "shytti connection lost" is only said of a request no host has seen or  *)
(* will see, so asking again cannot start a second shell.                  *)
LostWasNeverAsked ==
    \A r \in Reqs : spawner[r].result = "lost" =>
        /\ r \notin asked
        /\ \A c \in Conns : \A k \in 1..Len(queue[c]) : queue[c][k] # r

(* A name listed as a connected service has a task behind it.              *)
RegistryHasTask ==
    \A n \in registry : \E c \in Conns :
        /\ conn[c].name = n
        /\ conn[c].pc \in {"loop", "beat", "beatRegistry", "leaving", "retiring"}

(* An answer that reached the call before its timer fired is what the call *)
(* returns, even when both are ready together (control.rs:178).            *)
AnswerInTimeIsReturned ==
    [][\A r \in Reqs :
          /\ spawner[r].pc = "waiting"
          /\ spawner[r].reply # "none"
          /\ spawner'[r] # spawner[r]
          => spawner'[r].pc = "cancelled" \/ spawner'[r].result = spawner[r].reply]_vars

(* "Last-writer-wins: if name exists, the old connection is replaced"      *)
(* (control.rs:114): a connection leaves the hub when a newer one takes    *)
(* its name or when its own task ends, not when an older one ends.         *)
LastWriterWins ==
    [][\A n \in Names :
          hub[n] # None /\ hub'[n] = None => conn[hub[n]].pc = "leaving"]_vars

(* A send_to that holds the mutex and finds the queue full, and stays so.  *)
Stuck == lock # None /\ ~HasRoom(sending[lock])

(* Every call of spawn returns, whatever the host does and however often   *)
(* it reconnects, unless the hub is stuck for good: the ten-second timer   *)
(* covers the answer, and a task that ends frees a call that still waits   *)
(* for room in its queue (control.rs:172-188).                             *)
SpawnReturns ==
    \A r \in Reqs :
        \/ spawner[r].pc = "found" ~> spawner[r].pc \in {"done", "cancelled"}
        \/ <>[]Stuck

(* The task of a displaced connection ends and lets go of its socket, also *)
(* when calls of spawn still had a sender of it.                           *)
ReplacedCloses ==
    \A c \in Conns :
        \/ conn[c].pc = "loop" /\ ~InHub(c) ~> conn[c].pc = "closed"
        \/ <>[]Stuck

(* "Request shell list after first heartbeat (session recovery)"           *)
(* (control_ws.rs:105): every first heartbeat gets list_shells.            *)
FirstHeartbeatListsShells ==
    \A c \in Conns : conn[c].pc = "beat" ~> conn[c].listed
=============================================================================
