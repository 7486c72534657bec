-------------------------- MODULE ControlHubProofs --------------------------
(***************************************************************************)
(* Theorems of ControlHub for any hosts, connections, spawn requests and   *)
(* forwarders and any queue size.  IInv is the inductive invariant.        *)
(***************************************************************************)
EXTENDS ControlHub, TLAPS

ConnType == [Conns -> [pc : ConnPcs, name : Names \union {None}, listed : BOOLEAN]]
SpawnerType == [Reqs -> [pc : SpawnPcs, tx : Conns \union {None},
                         reply : {"none", "ok", "err"}, result : Results]]

(* A connection has its name from the moment it exists.                    *)
Named == \A c \in Conns : conn[c].pc # "off" => conn[c].name \in Names

(* A call holds a sender exactly while it is under way.                    *)
TxHeld == \A r \in Reqs :
    spawner[r].pc \in {"found", "sending", "waiting", "expired"} => spawner[r].tx \in Conns

(* An answer is stored only in a call that waits, and its entry is gone.   *)
AnswerTaken == \A r \in Reqs :
    spawner[r].reply # "none" => spawner[r].pc = "waiting" /\ r \notin pending

Queued(r) == \E c \in Conns : \E k \in 1..Len(queue[c]) : queue[c][k] = r

(* A request no call has sent, or that was given up as lost, is nowhere.   *)
UnsentIsNowhere == \A r \in Reqs :
    spawner[r].pc \in {"idle", "found", "sending"} \/ spawner[r].result = "lost"
       => r \notin asked /\ ~Queued(r)

(* No call has a result before it is done.                                 *)
ResultWhenDone == \A r \in Reqs : spawner[r].pc # "done" => spawner[r].result = "none"

(* Only a sender below its bound takes the mutex.                          *)
InputsBounded == lock # None => inputs < MaxInputs

IInv == /\ TypeOK
        /\ InputsBounded
        /\ Named
        /\ TxHeld
        /\ HubNeverDangles
        /\ SendTargetStays
        /\ AnswerTaken
        /\ PendingOwned
        /\ ResultWhenDone
        /\ UnsentIsNowhere
        /\ RegistryHasTask

-----------------------------------------------------------------------------
(* What Goto does to the table of tasks.                                   *)
LEMMA GotoFacts ==
    ASSUME conn \in ConnType, NEW c \in Conns, NEW pc \in ConnPcs, Goto(c, pc)
    PROVE  /\ conn' \in ConnType
           /\ conn'[c].pc = pc
           /\ \A d \in Conns : /\ conn'[d].name = conn[d].name
                               /\ d # c => conn'[d] = conn[d]
<1>1. conn' = [conn EXCEPT ![c] = [conn[c] EXCEPT !.pc = pc]]
  BY DEF Goto
<1>2. conn[c] \in [pc : ConnPcs, name : Names \union {None}, listed : BOOLEAN]
  BY DEF ConnType
<1>3. /\ [conn[c] EXCEPT !.pc = pc] \in [pc : ConnPcs, name : Names \union {None}, listed : BOOLEAN]
      /\ [conn[c] EXCEPT !.pc = pc].pc = pc
      /\ [conn[c] EXCEPT !.pc = pc].name = conn[c].name
  BY <1>2
<1> QED
  BY <1>1, <1>3 DEF ConnType

(* What changing one call does to the table of calls.                      *)
LEMMA CallFacts ==
    ASSUME spawner \in SpawnerType, NEW r \in Reqs,
           NEW new \in [pc : SpawnPcs, tx : Conns \union {None},
                        reply : {"none", "ok", "err"}, result : Results],
           spawner' = [spawner EXCEPT ![r] = new]
    PROVE  /\ spawner' \in SpawnerType
           /\ spawner'[r] = new
           /\ \A q \in Reqs : q # r => spawner'[q] = spawner[q]
BY DEF SpawnerType

LEMMA ReturnFacts ==
    ASSUME spawner \in SpawnerType, NEW r \in Reqs, NEW result \in Results, Return(r, result)
    PROVE  /\ spawner' \in SpawnerType
           /\ spawner'[r] = [pc |-> "done", tx |-> None, reply |-> "none", result |-> result]
           /\ \A q \in Reqs : q # r => spawner'[q] = spawner[q]
<1>1. [pc |-> "done", tx |-> None, reply |-> "none", result |-> result]
         \in [pc : SpawnPcs, tx : Conns \union {None},
              reply : {"none", "ok", "err"}, result : Results]
  BY DEF SpawnPcs
<1> QED
  BY <1>1, CallFacts DEF Return

(* A call moves on without an answer, a result or another sender.          *)
LEMMA MoveFacts ==
    ASSUME spawner \in SpawnerType, NEW r \in Reqs, NEW pc \in SpawnPcs,
           spawner' = [spawner EXCEPT ![r].pc = pc]
    PROVE  /\ spawner' \in SpawnerType
           /\ spawner'[r].pc = pc
           /\ spawner'[r].tx = spawner[r].tx
           /\ spawner'[r].reply = spawner[r].reply
           /\ spawner'[r].result = spawner[r].result
           /\ \A q \in Reqs : q # r => spawner'[q] = spawner[q]
<1> DEFINE new == [spawner[r] EXCEPT !.pc = pc]
<1>1. spawner[r] \in [pc : SpawnPcs, tx : Conns \union {None},
                     reply : {"none", "ok", "err"}, result : Results]
  BY DEF SpawnerType
<1>2. /\ new \in [pc : SpawnPcs, tx : Conns \union {None},
                  reply : {"none", "ok", "err"}, result : Results]
      /\ new.pc = pc /\ new.tx = spawner[r].tx
      /\ new.reply = spawner[r].reply /\ new.result = spawner[r].result
  BY <1>1
<1>3. spawner' = [spawner EXCEPT ![r] = new]
  OBVIOUS
<1> HIDE DEF new
<1> QED
  BY <1>2, <1>3, CallFacts

(* Appending keeps what is in a queue and adds the message.                *)
LEMMA AppendFacts ==
    ASSUME NEW q \in Seq(Message), NEW m \in Message, Len(q) < QueueCap
    PROVE  /\ Append(q, m) \in Seq(Message)
           /\ Len(Append(q, m)) <= QueueCap
           /\ \A x : (\E k \in 1..Len(Append(q, m)) : Append(q, m)[k] = x)
                        <=> x = m \/ \E k \in 1..Len(q) : q[k] = x
BY QueueCapAssumption

(* Taking the head leaves nothing new behind.                              *)
LEMMA TailFacts ==
    ASSUME NEW q \in Seq(Message), q # <<>>, Len(q) <= QueueCap
    PROVE  /\ Tail(q) \in Seq(Message)
           /\ Len(Tail(q)) <= QueueCap
           /\ \A x : (\E k \in 1..Len(Tail(q)) : Tail(q)[k] = x)
                        => \E k \in 1..Len(q) : q[k] = x
           /\ Head(q) \in Message
           /\ \E k \in 1..Len(q) : q[k] = Head(q)
<1>1. Len(q) \in Nat \ {0} /\ Len(Tail(q)) = Len(q) - 1
  OBVIOUS
<1>2. \A k \in 1..Len(Tail(q)) : Tail(q)[k] = q[k + 1] /\ k + 1 \in 1..Len(q)
  BY <1>1
<1>3. Head(q) = q[1] /\ 1 \in 1..Len(q)
  BY <1>1
<1> QED
  BY <1>1, <1>2, <1>3, QueueCapAssumption

(* A queue that grows by one message holds no other message it lacked.     *)
LEMMA QueueGrows ==
    ASSUME TypeOK, NEW c \in Conns, NEW m \in Message, HasRoom(c),
           queue' = [queue EXCEPT ![c] = Append(queue[c], m)]
    PROVE  /\ queue' \in [Conns -> Seq(Message)]
           /\ \A d \in Conns : Len(queue'[d]) <= QueueCap
           /\ \A q \in Reqs : q # m /\ Queued(q)' => Queued(q)
<1>1. queue[c] \in Seq(Message) /\ Len(queue[c]) < QueueCap
  BY DEF TypeOK, HasRoom
<1> DEFINE new == Append(queue[c], m)
<1>2. /\ new \in Seq(Message)
      /\ Len(new) <= QueueCap
      /\ \A x : (\E k \in 1..Len(new) : new[k] = x)
                   <=> x = m \/ \E k \in 1..Len(queue[c]) : queue[c][k] = x
  BY <1>1, AppendFacts
<1>3. queue' = [queue EXCEPT ![c] = new]
  OBVIOUS
<1> HIDE DEF new
<1>4. /\ queue' \in [Conns -> Seq(Message)]
      /\ queue'[c] = new
      /\ \A d \in Conns : d # c => queue'[d] = queue[d]
  BY <1>2, <1>3 DEF TypeOK
<1>5. \A d \in Conns : Len(queue'[d]) <= QueueCap
  BY <1>2, <1>4 DEF TypeOK
<1>6. \A q \in Reqs : q # m /\ Queued(q)' => Queued(q)
  <2> SUFFICES ASSUME NEW q \in Reqs, q # m,
                      NEW d \in Conns, NEW k \in 1..Len(queue'[d]), queue'[d][k] = q
               PROVE  \E e \in Conns : \E j \in 1..Len(queue[e]) : queue[e][j] = q
    BY DEF Queued
  <2>1. CASE d = c
    BY <1>2, <1>4, <2>1
  <2>2. CASE d # c
    BY <1>4, <2>2
  <2> QED
    BY <2>1, <2>2
<1> QED
  BY <1>4, <1>5, <1>6

LEMMA InitIInv == Init => IInv
<1> SUFFICES ASSUME Init PROVE IInv
  OBVIOUS
<1>1. TypeOK
  BY QueueCapAssumption, MaxInputsAssumption
     DEF Init, TypeOK, ConnPcs, SpawnPcs, Results, Message
<1> QED
  BY <1>1 DEF Init, IInv, InputsBounded, Named, TxHeld, HubNeverDangles, SendTargetStays, AnswerTaken,
     PendingOwned, ResultWhenDone, UnsentIsNowhere, Queued, RegistryHasTask
-----------------------------------------------------------------------------
Serving == {"announcing", "loop", "beat", "beatRegistry", "leaving"}
Listed == {"loop", "beat", "beatRegistry", "leaving", "retiring"}

(* What the invariant says of a name's entry and of a sender's target.     *)
LEMMA HubEntry ==
    ASSUME IInv, NEW n \in Names, hub[n] # None
    PROVE  hub[n] \in Conns /\ conn[hub[n]].name = n /\ conn[hub[n]].pc \in Serving
BY DEF IInv, TypeOK, HubNeverDangles, Serving

LEMMA SendEntry ==
    ASSUME IInv, lock # None
    PROVE  /\ lock \in Senders
           /\ sending[lock] \in Conns
           /\ sending[lock] # None
           /\ \E n \in Names : hub[n] = sending[lock]
           /\ conn[sending[lock]].pc # "closed"
BY DEF IInv, TypeOK, SendTargetStays, InHub, ReceiverAlive

(* A task moves on within its loop, or lists its name in the registry.     *)
LEMMA TaskMoves ==
    ASSUME IInv, NEW c \in Conns, NEW pc \in ConnPcs \ {"off", "closed"},
           conn[c].pc # "off", conn' \in ConnType, conn'[c].pc = pc,
           \A d \in Conns : /\ conn'[d].name = conn[d].name
                            /\ d # c => conn'[d] = conn[d],
           conn[c].pc \in Serving => pc \in Serving,
           conn[c].pc \in Listed => pc \in Listed,
           \/ registry' = registry
           \/ registry' = registry \union {conn[c].name} /\ pc \in Listed,
           UNCHANGED <<hub, lock, queue, spawner, pending, asked, sending, inputs>>
    PROVE  IInv'
<1>1. conn[c].name \in Names
  BY DEF IInv, Named
<1>2. TypeOK'
  BY <1>1 DEF IInv, TypeOK, ConnType
<1>3. Named'
  BY <1>1 DEF IInv, Named
<1>4. HubNeverDangles'
  <2> SUFFICES ASSUME NEW n \in Names, hub[n] # None
               PROVE  conn'[hub[n]].name = n /\ conn'[hub[n]].pc \in Serving
    BY DEF HubNeverDangles, Serving
  <2>1. hub[n] \in Conns /\ conn[hub[n]].name = n /\ conn[hub[n]].pc \in Serving
    BY HubEntry
  <2>2. CASE hub[n] = c
    BY <2>1, <2>2
  <2>3. CASE hub[n] # c
    BY <2>1, <2>3
  <2> QED
    BY <2>2, <2>3
<1>5. SendTargetStays'
  <2> SUFFICES ASSUME lock # None
               PROVE  /\ sending[lock] # None
                      /\ \E n \in Names : hub[n] = sending[lock]
                      /\ conn'[sending[lock]].pc # "closed"
    BY DEF SendTargetStays, InHub, ReceiverAlive
  <2>1. /\ sending[lock] \in Conns
        /\ sending[lock] # None
        /\ \E n \in Names : hub[n] = sending[lock]
        /\ conn[sending[lock]].pc # "closed"
    BY SendEntry
  <2>2. CASE sending[lock] = c
    BY <2>1, <2>2
  <2>3. CASE sending[lock] # c
    BY <2>1, <2>3
  <2> QED
    BY <2>1, <2>2, <2>3
<1>6. RegistryHasTask'
  <2> SUFFICES ASSUME NEW n \in registry'
               PROVE  \E d \in Conns : conn'[d].name = n /\ conn'[d].pc \in Listed
    BY DEF RegistryHasTask, Listed
  <2>1. CASE n \in registry
    <3>1. PICK d \in Conns : conn[d].name = n /\ conn[d].pc \in Listed
      BY <2>1 DEF IInv, RegistryHasTask, Listed
    <3> QED
      BY <3>1
  <2>2. CASE n \notin registry
    BY <2>2
  <2> QED
    BY <2>1, <2>2
<1>7. (InputsBounded /\ TxHeld /\ AnswerTaken /\ PendingOwned /\ ResultWhenDone /\ UnsentIsNowhere)'
  BY DEF IInv, InputsBounded, TxHeld, AnswerTaken, PendingOwned, ResultWhenDone, UnsentIsNowhere, Queued
<1> QED
  BY <1>2, <1>3, <1>4, <1>5, <1>6, <1>7 DEF IInv

LEMMA ConnectStep ==
    ASSUME IInv, NEW c \in Conns, NEW n \in Names, Connect(c, n)
    PROVE  IInv'
<1>1. /\ conn[c].pc = "off"
      /\ conn' = [conn EXCEPT ![c] = [pc |-> "joining", name |-> n, listed |-> FALSE]]
      /\ UNCHANGED <<hub, lock, registry, queue, spawner, pending, asked, sending, inputs>>
  BY DEF Connect
<1>2. /\ conn' \in ConnType
      /\ conn'[c].pc = "joining" /\ conn'[c].name = n
      /\ \A d \in Conns : d # c => conn'[d] = conn[d]
  BY <1>1 DEF IInv, TypeOK, ConnType, ConnPcs
<1>3. TypeOK'
  BY <1>1, <1>2 DEF IInv, TypeOK, ConnType
<1>4. Named'
  BY <1>2 DEF IInv, Named
<1>5. HubNeverDangles'
  BY <1>1, <1>2 DEF IInv, TypeOK, HubNeverDangles
<1>6. SendTargetStays'
  BY <1>1, <1>2 DEF IInv, SendTargetStays, InHub, ReceiverAlive
<1>7. RegistryHasTask'
  BY <1>1, <1>2 DEF IInv, RegistryHasTask
<1>8. (InputsBounded /\ TxHeld /\ AnswerTaken /\ PendingOwned /\ ResultWhenDone /\ UnsentIsNowhere)'
  BY <1>1 DEF IInv, InputsBounded, TxHeld, AnswerTaken, PendingOwned, ResultWhenDone, UnsentIsNowhere, Queued
<1> QED
  BY <1>3, <1>4, <1>5, <1>6, <1>7, <1>8 DEF IInv

LEMMA HubRegisterStep ==
    ASSUME IInv, NEW c \in Conns, HubRegister(c)
    PROVE  IInv'
<1>1. /\ conn[c].pc = "joining" /\ lock = None
      /\ hub' = [hub EXCEPT ![conn[c].name] = c]
      /\ UNCHANGED <<lock, registry, queue, spawner, pending, asked, sending, inputs>>
  BY DEF HubRegister
<1>2. /\ conn' \in ConnType
      /\ conn'[c].pc = "announcing"
      /\ \A d \in Conns : /\ conn'[d].name = conn[d].name
                          /\ d # c => conn'[d] = conn[d]
  BY GotoFacts DEF HubRegister, IInv, TypeOK, ConnType, ConnPcs
<1>3. conn[c].name \in Names
  BY <1>1 DEF IInv, Named
<1>4. /\ hub' \in [Names -> Conns \union {None}]
      /\ \A n \in Names : hub'[n] = IF n = conn[c].name THEN c ELSE hub[n]
  BY <1>1, <1>3 DEF IInv, TypeOK
<1>5. TypeOK'
  BY <1>1, <1>2, <1>4 DEF IInv, TypeOK, ConnType
<1>6. Named'
  BY <1>1, <1>2, <1>3 DEF IInv, Named
<1>7. HubNeverDangles'
  BY <1>1, <1>2, <1>3, <1>4 DEF IInv, TypeOK, HubNeverDangles
<1>8. SendTargetStays'
  BY <1>1 DEF SendTargetStays
<1>9. RegistryHasTask'
  BY <1>1, <1>2 DEF IInv, RegistryHasTask
<1>10. (InputsBounded /\ TxHeld /\ AnswerTaken /\ PendingOwned /\ ResultWhenDone /\ UnsentIsNowhere)'
  BY <1>1 DEF IInv, InputsBounded, TxHeld, AnswerTaken, PendingOwned, ResultWhenDone, UnsentIsNowhere, Queued
<1> QED
  BY <1>5, <1>6, <1>7, <1>8, <1>9, <1>10 DEF IInv

LEMMA HubUnregisterStep ==
    ASSUME IInv, NEW c \in Conns, HubUnregister(c)
    PROVE  IInv'
<1>1. /\ conn[c].pc = "leaving" /\ lock = None
      /\ hub' = [hub EXCEPT ![conn[c].name] = None]
      /\ UNCHANGED <<lock, registry, queue, spawner, pending, asked, sending, inputs>>
  BY DEF HubUnregister
<1>2. /\ conn' \in ConnType
      /\ conn'[c].pc = "retiring"
      /\ \A d \in Conns : /\ conn'[d].name = conn[d].name
                          /\ d # c => conn'[d] = conn[d]
  BY GotoFacts DEF HubUnregister, IInv, TypeOK, ConnType, ConnPcs
<1>3. conn[c].name \in Names
  BY <1>1 DEF IInv, Named
<1>4. /\ hub' \in [Names -> Conns \union {None}]
      /\ \A n \in Names : hub'[n] = IF n = conn[c].name THEN None ELSE hub[n]
  BY <1>1, <1>3 DEF IInv, TypeOK
<1>5. TypeOK'
  BY <1>1, <1>2, <1>4 DEF IInv, TypeOK, ConnType
<1>6. Named'
  BY <1>1, <1>2, <1>3 DEF IInv, Named
<1>7. HubNeverDangles'
  <2> SUFFICES ASSUME NEW n \in Names, hub'[n] # None
               PROVE  conn'[hub'[n]].name = n /\ conn'[hub'[n]].pc \in Serving
    BY DEF HubNeverDangles, Serving
  <2>1. n # conn[c].name /\ hub'[n] = hub[n]
    BY <1>4
  <2>2. hub[n] \in Conns /\ conn[hub[n]].name = n /\ conn[hub[n]].pc \in Serving
    BY <2>1 DEF IInv, TypeOK, HubNeverDangles, Serving
  <2>3. hub[n] # c
    BY <2>1, <2>2
  <2> QED
    BY <1>2, <2>1, <2>2, <2>3
<1>8. SendTargetStays'
  BY <1>1 DEF SendTargetStays
<1>9. RegistryHasTask'
  BY <1>1, <1>2 DEF IInv, RegistryHasTask
<1>10. (InputsBounded /\ TxHeld /\ AnswerTaken /\ PendingOwned /\ ResultWhenDone /\ UnsentIsNowhere)'
  BY <1>1 DEF IInv, InputsBounded, TxHeld, AnswerTaken, PendingOwned, ResultWhenDone, UnsentIsNowhere, Queued
<1> QED
  BY <1>5, <1>6, <1>7, <1>8, <1>9, <1>10 DEF IInv

LEMMA RegistryUnregisterStep ==
    ASSUME IInv, NEW c \in Conns, RegistryUnregister(c)
    PROVE  IInv'
<1>1. /\ conn[c].pc = "retiring"
      /\ registry' = registry \ {conn[c].name}
      /\ queue' = [queue EXCEPT ![c] = <<>>]
      /\ UNCHANGED <<hub, lock, spawner, pending, asked, sending, inputs>>
  BY DEF RegistryUnregister
<1>2. /\ conn' \in ConnType
      /\ conn'[c].pc = "closed"
      /\ \A d \in Conns : /\ conn'[d].name = conn[d].name
                          /\ d # c => conn'[d] = conn[d]
  BY GotoFacts DEF RegistryUnregister, IInv, TypeOK, ConnType, ConnPcs
<1>3. /\ queue' \in [Conns -> Seq(Message)]
      /\ queue'[c] = <<>>
      /\ \A d \in Conns : d # c => queue'[d] = queue[d]
  BY <1>1 DEF IInv, TypeOK
<1>4. TypeOK'
  <2>1. Len(queue'[c]) <= QueueCap
    <3>1. Len(<<>>) = 0
      OBVIOUS
    <3> QED
      BY <1>3, <3>1, QueueCapAssumption
  <2>2. \A d \in Conns : d # c => Len(queue'[d]) <= QueueCap
    BY <1>3 DEF IInv, TypeOK
  <2> QED
    BY <1>1, <1>2, <1>3, <2>1, <2>2 DEF IInv, TypeOK, ConnType
<1>5. Named'
  BY <1>1, <1>2 DEF IInv, Named
<1>6. HubNeverDangles'
  <2> SUFFICES ASSUME NEW n \in Names, hub[n] # None
               PROVE  conn'[hub[n]].name = n /\ conn'[hub[n]].pc \in Serving
    BY <1>1 DEF HubNeverDangles, Serving
  <2>1. hub[n] \in Conns /\ conn[hub[n]].name = n /\ conn[hub[n]].pc \in Serving
    BY HubEntry
  <2>2. hub[n] # c
    BY <1>1, <2>1 DEF Serving
  <2> QED
    BY <1>2, <2>1, <2>2
<1>7. SendTargetStays'
  <2> SUFFICES ASSUME lock # None
               PROVE  /\ sending[lock] # None
                      /\ \E n \in Names : hub[n] = sending[lock]
                      /\ conn'[sending[lock]].pc # "closed"
    BY <1>1 DEF SendTargetStays, InHub, ReceiverAlive
  <2>1. PICK n \in Names : hub[n] = sending[lock] /\ sending[lock] # None
    BY DEF IInv, SendTargetStays, InHub
  <2>2. hub[n] \in Conns /\ conn[hub[n]].pc \in Serving
    BY <2>1 DEF IInv, TypeOK, HubNeverDangles, Serving
  <2>3. hub[n] # c
    BY <1>1, <2>2 DEF Serving
  <2> QED
    BY <1>2, <2>1, <2>2, <2>3 DEF Serving
<1>8. RegistryHasTask'
  BY <1>1, <1>2 DEF IInv, RegistryHasTask
<1>9. UnsentIsNowhere'
  <2>1. \A r \in Reqs : Queued(r)' => Queued(r)
    BY <1>3 DEF Queued
  <2> QED
    BY <1>1, <2>1 DEF IInv, UnsentIsNowhere
<1>10. (InputsBounded /\ TxHeld /\ AnswerTaken /\ PendingOwned /\ ResultWhenDone)'
  BY <1>1 DEF IInv, InputsBounded, TxHeld, AnswerTaken, PendingOwned, ResultWhenDone
<1> QED
  BY <1>4, <1>5, <1>6, <1>7, <1>8, <1>9, <1>10 DEF IInv

-----------------------------------------------------------------------------
(* A step of one call, or of the answer it gets, that touches no task.     *)
LEMMA CallStep ==
    ASSUME IInv, NEW r \in Reqs,
           spawner' \in SpawnerType,
           \A q \in Reqs : q # r => spawner'[q] = spawner[q],
           pending' \in {pending, pending \union {r}, pending \ {r}},
           asked' \in {asked, asked \ {r}},
           UNCHANGED <<hub, lock, registry, conn, queue, sending, inputs>>,
           r \in pending' => spawner'[r].pc \in {"sending", "waiting", "expired", "cancelled"},
           spawner'[r].pc \in {"found", "sending", "waiting", "expired"} => spawner'[r].tx \in Conns,
           spawner'[r].reply # "none" => spawner'[r].pc = "waiting" /\ r \notin pending',
           spawner'[r].pc # "done" => spawner'[r].result = "none",
           spawner'[r].pc \in {"idle", "found", "sending"} \/ spawner'[r].result = "lost"
              => r \notin asked' /\ ~Queued(r)
    PROVE  IInv'
<1>1. TypeOK'
  BY DEF IInv, TypeOK, SpawnerType
<1>2. (InputsBounded /\ Named /\ HubNeverDangles /\ RegistryHasTask)'
  BY DEF IInv, InputsBounded, Named, HubNeverDangles, RegistryHasTask
<1>3. SendTargetStays'
  BY DEF IInv, SendTargetStays, InHub, ReceiverAlive
<1>4. \A q \in Reqs : q # r => /\ spawner'[q] = spawner[q]
                               /\ q \in pending' <=> q \in pending
                               /\ q \in asked' => q \in asked
  OBVIOUS
<1>5. TxHeld'
  BY <1>4 DEF IInv, TxHeld
<1>6. AnswerTaken'
  BY <1>4 DEF IInv, AnswerTaken
<1>7. PendingOwned'
  <2> SUFFICES ASSUME NEW q \in pending'
               PROVE  spawner'[q].pc \in {"sending", "waiting", "expired", "cancelled"}
    BY DEF PendingOwned
  <2>1. q \in Reqs
    BY DEF IInv, TypeOK
  <2> QED
    BY <1>4, <2>1 DEF IInv, PendingOwned
<1>8. ResultWhenDone'
  BY <1>4 DEF IInv, ResultWhenDone
<1>9. UnsentIsNowhere'
  <2>1. \A q : Queued(q)' <=> Queued(q)
    BY DEF Queued
  <2> QED
    BY <1>4, <2>1 DEF IInv, UnsentIsNowhere
<1> QED
  BY <1>1, <1>2, <1>3, <1>5, <1>6, <1>7, <1>8, <1>9 DEF IInv

LEMMA SpawnLookupStep ==
    ASSUME IInv, NEW r \in Reqs, NEW n \in Names, SpawnLookup(r, n)
    PROVE  IInv'
<1>1. /\ spawner[r].pc = "idle"
      /\ UNCHANGED <<hub, lock, registry, conn, queue, pending, asked, sending, inputs>>
  BY DEF SpawnLookup
<1>2. spawner \in SpawnerType
  BY DEF IInv, TypeOK, SpawnerType
<1>3. /\ r \notin pending /\ r \notin asked /\ ~Queued(r)
      /\ spawner[r].reply = "none" /\ spawner[r].result = "none"
  BY <1>1 DEF IInv, PendingOwned, UnsentIsNowhere, AnswerTaken, ResultWhenDone
<1>4. CASE hub[n] = None
  <2>1. Return(r, "notConnected")
    BY <1>4 DEF SpawnLookup
  <2>2. /\ spawner' \in SpawnerType
        /\ spawner'[r] = [pc |-> "done", tx |-> None, reply |-> "none", result |-> "notConnected"]
        /\ \A q \in Reqs : q # r => spawner'[q] = spawner[q]
    BY <1>2, <2>1, ReturnFacts DEF Results
  <2> QED
    BY <1>1, <1>3, <2>2, CallStep
<1>5. CASE hub[n] # None
  <2> DEFINE new == [spawner[r] EXCEPT !.pc = "found", !.tx = hub[n]]
  <2>1. hub[n] \in Conns
    BY <1>5, HubEntry
  <2>2. spawner[r] \in [pc : SpawnPcs, tx : Conns \union {None},
                        reply : {"none", "ok", "err"}, result : Results]
    BY <1>2 DEF SpawnerType
  <2>3. /\ new \in [pc : SpawnPcs, tx : Conns \union {None},
                    reply : {"none", "ok", "err"}, result : Results]
        /\ new.pc = "found" /\ new.tx = hub[n]
        /\ new.reply = spawner[r].reply /\ new.result = spawner[r].result
    BY <2>1, <2>2 DEF SpawnPcs
  <2>4. spawner' = [spawner EXCEPT ![r] = new]
    BY <1>5 DEF SpawnLookup
  <2> HIDE DEF new
  <2>5. /\ spawner' \in SpawnerType
        /\ spawner'[r] = new
        /\ \A q \in Reqs : q # r => spawner'[q] = spawner[q]
    BY <1>2, <2>3, <2>4, CallFacts
  <2> QED
    BY <1>1, <1>3, <2>1, <2>3, <2>5, CallStep
<1> QED
  BY <1>4, <1>5

LEMMA SpawnInsertStep ==
    ASSUME IInv, NEW r \in Reqs, SpawnInsert(r)
    PROVE  IInv'
<1>1. /\ spawner[r].pc = "found"
      /\ pending' = pending \union {r}
      /\ UNCHANGED <<hub, lock, registry, conn, queue, asked, sending, inputs>>
  BY DEF SpawnInsert
<1>2. spawner \in SpawnerType /\ spawner' = [spawner EXCEPT ![r].pc = "sending"]
  BY DEF SpawnInsert, IInv, TypeOK, SpawnerType
<1>3. /\ spawner' \in SpawnerType
      /\ spawner'[r].pc = "sending" /\ spawner'[r].tx = spawner[r].tx
      /\ spawner'[r].reply = spawner[r].reply /\ spawner'[r].result = spawner[r].result
      /\ \A q \in Reqs : q # r => spawner'[q] = spawner[q]
  BY <1>2, MoveFacts DEF SpawnPcs
<1>4. /\ spawner[r].tx \in Conns /\ r \notin asked /\ ~Queued(r)
      /\ spawner[r].reply = "none" /\ spawner[r].result = "none"
  BY <1>1 DEF IInv, TxHeld, UnsentIsNowhere, AnswerTaken, ResultWhenDone
<1> QED
  BY <1>1, <1>3, <1>4, CallStep

(* A call that returns after it has left pending_spawns.                   *)
LEMMA ReturnStep ==
    ASSUME IInv, NEW r \in Reqs, NEW result \in Results, Return(r, result),
           pending' \in {pending, pending \ {r}}, r \notin pending',
           result = "lost" => r \notin asked /\ ~Queued(r),
           UNCHANGED <<hub, lock, registry, conn, queue, asked, sending, inputs>>
    PROVE  IInv'
<1>1. spawner \in SpawnerType
  BY DEF IInv, TypeOK, SpawnerType
<1>2. /\ spawner' \in SpawnerType
      /\ spawner'[r] = [pc |-> "done", tx |-> None, reply |-> "none", result |-> result]
      /\ \A q \in Reqs : q # r => spawner'[q] = spawner[q]
  BY <1>1, ReturnFacts
<1>3. /\ spawner'[r].pc = "done" /\ spawner'[r].reply = "none"
      /\ spawner'[r].result = result
  BY <1>2
<1> QED
  BY <1>2, <1>3, CallStep

LEMMA SpawnReturnsStep ==
    ASSUME IInv, NEW r \in Reqs, SpawnLost(r) \/ SpawnReply(r) \/ SpawnExpire(r)
    PROVE  IInv'
<1>1. CASE SpawnLost(r)
  <2>1. r \notin asked /\ ~Queued(r)
    BY <1>1 DEF SpawnLost, IInv, UnsentIsNowhere
  <2>2. "lost" \in Results
    BY DEF Results
  <2> QED
    BY <1>1, <2>1, <2>2, ReturnStep DEF SpawnLost
<1>2. CASE SpawnReply(r)
  <2>1. r \notin pending
    BY <1>2 DEF SpawnReply, IInv, AnswerTaken
  <2>2. spawner[r].reply \in Results /\ spawner[r].reply # "lost"
    BY DEF IInv, TypeOK, Results
  <2> QED
    BY <1>2, <2>1, <2>2, ReturnStep DEF SpawnReply
<1>3. CASE SpawnExpire(r)
  <2>1. "timeout" \in Results
    BY DEF Results
  <2> QED
    BY <1>3, <2>1, ReturnStep DEF SpawnExpire
<1> QED
  BY <1>1, <1>2, <1>3

LEMMA SpawnTimeoutStep ==
    ASSUME IInv, NEW r \in Reqs, SpawnTimeout(r)
    PROVE  IInv'
<1>1. /\ spawner[r].pc = "waiting" /\ spawner[r].reply = "none"
      /\ UNCHANGED <<hub, lock, registry, conn, queue, pending, asked, sending, inputs>>
  BY DEF SpawnTimeout
<1>2. spawner \in SpawnerType /\ spawner' = [spawner EXCEPT ![r].pc = "expired"]
  BY DEF SpawnTimeout, IInv, TypeOK, SpawnerType
<1>3. /\ spawner' \in SpawnerType
      /\ spawner'[r].pc = "expired" /\ spawner'[r].tx = spawner[r].tx
      /\ spawner'[r].reply = spawner[r].reply /\ spawner'[r].result = spawner[r].result
      /\ \A q \in Reqs : q # r => spawner'[q] = spawner[q]
  BY <1>2, MoveFacts DEF SpawnPcs
<1>4. spawner[r].tx \in Conns /\ spawner[r].result = "none"
  BY <1>1 DEF IInv, TxHeld, ResultWhenDone
<1> QED
  BY <1>1, <1>3, <1>4, CallStep

LEMMA SpawnCancelStep ==
    ASSUME IInv, NEW r \in Reqs, SpawnCancel(r)
    PROVE  IInv'
<1> DEFINE new == [pc |-> "cancelled", tx |-> None, reply |-> "none", result |-> "none"]
<1>1. /\ UNCHANGED <<hub, lock, registry, conn, queue, pending, asked, sending, inputs>>
      /\ spawner \in SpawnerType /\ spawner' = [spawner EXCEPT ![r] = new]
  BY DEF SpawnCancel, IInv, TypeOK, SpawnerType
<1>2. /\ new \in [pc : SpawnPcs, tx : Conns \union {None},
                  reply : {"none", "ok", "err"}, result : Results]
      /\ new.pc = "cancelled" /\ new.reply = "none" /\ new.result = "none"
  BY DEF SpawnPcs, Results
<1> HIDE DEF new
<1>3. /\ spawner' \in SpawnerType /\ spawner'[r] = new
      /\ \A q \in Reqs : q # r => spawner'[q] = spawner[q]
  BY <1>1, <1>2, CallFacts
<1> QED
  BY <1>1, <1>2, <1>3, CallStep

LEMMA RecvSpawnAnswerStep ==
    ASSUME IInv, NEW c \in Conns, NEW r \in Reqs, NEW answer \in {"ok", "err"},
           RecvSpawnAnswer(c, r, answer)
    PROVE  IInv'
<1>1. /\ r \in asked /\ asked' = asked \ {r} /\ pending' = pending \ {r}
      /\ UNCHANGED <<hub, lock, registry, conn, queue, sending, inputs>>
  BY DEF RecvSpawnAnswer
<1>2. spawner \in SpawnerType
  BY DEF IInv, TypeOK, SpawnerType
<1>3. /\ spawner[r].pc \notin {"idle", "found", "sending"}
      /\ spawner[r].result # "lost"
  BY <1>1 DEF IInv, UnsentIsNowhere
<1>4. CASE r \in pending /\ spawner[r].pc = "waiting"
  <2> DEFINE new == [spawner[r] EXCEPT !.reply = answer]
  <2>1. spawner[r] \in [pc : SpawnPcs, tx : Conns \union {None},
                        reply : {"none", "ok", "err"}, result : Results]
    BY <1>2 DEF SpawnerType
  <2>2. /\ new \in [pc : SpawnPcs, tx : Conns \union {None},
                    reply : {"none", "ok", "err"}, result : Results]
        /\ new.pc = spawner[r].pc /\ new.tx = spawner[r].tx
        /\ new.reply = answer /\ new.result = spawner[r].result
    BY <2>1
  <2>3. spawner' = [spawner EXCEPT ![r] = new]
    BY <1>4 DEF RecvSpawnAnswer
  <2> HIDE DEF new
  <2>4. /\ spawner' \in SpawnerType /\ spawner'[r] = new
        /\ \A q \in Reqs : q # r => spawner'[q] = spawner[q]
    BY <1>2, <2>2, <2>3, CallFacts
  <2>5. spawner[r].tx \in Conns /\ spawner[r].result = "none"
    BY <1>4 DEF IInv, TxHeld, ResultWhenDone
  <2> QED
    BY <1>1, <1>4, <2>2, <2>4, <2>5, CallStep
<1>5. CASE ~(r \in pending /\ spawner[r].pc = "waiting")
  <2>1. spawner' = spawner
    BY <1>5 DEF RecvSpawnAnswer
  <2>2. /\ spawner[r].pc \in {"found", "sending", "waiting", "expired"} => spawner[r].tx \in Conns
        /\ spawner[r].reply # "none" => spawner[r].pc = "waiting"
        /\ spawner[r].pc # "done" => spawner[r].result = "none"
    BY DEF IInv, TxHeld, AnswerTaken, ResultWhenDone
  <2> QED
    BY <1>1, <1>2, <1>3, <2>1, <2>2, CallStep
<1> QED
  BY <1>4, <1>5

-----------------------------------------------------------------------------
(* Steps that move a message into or out of a queue.                       *)
LEMMA SpawnSendStep ==
    ASSUME IInv, NEW r \in Reqs, SpawnSend(r)
    PROVE  IInv'
<1> DEFINE c == spawner[r].tx
<1>1. /\ spawner[r].pc = "sending"
      /\ HasRoom(c)
      /\ queue' = [queue EXCEPT ![c] = Append(queue[c], r)]
      /\ UNCHANGED <<hub, lock, registry, conn, pending, asked, sending, inputs>>
  BY DEF SpawnSend
<1>2. spawner \in SpawnerType /\ spawner' = [spawner EXCEPT ![r].pc = "waiting"]
  BY DEF SpawnSend, IInv, TypeOK, SpawnerType
<1>3. c \in Conns /\ spawner[r].reply = "none" /\ spawner[r].result = "none"
  BY <1>1 DEF IInv, TxHeld, AnswerTaken, ResultWhenDone
<1> HIDE DEF c
<1>4. /\ spawner' \in SpawnerType
      /\ spawner'[r].pc = "waiting" /\ spawner'[r].tx = spawner[r].tx
      /\ spawner'[r].reply = spawner[r].reply /\ spawner'[r].result = spawner[r].result
      /\ \A q \in Reqs : q # r => spawner'[q] = spawner[q]
  BY <1>2, MoveFacts DEF SpawnPcs
<1>5. /\ queue' \in [Conns -> Seq(Message)]
      /\ \A d \in Conns : Len(queue'[d]) <= QueueCap
      /\ \A q \in Reqs : q # r /\ Queued(q)' => Queued(q)
  BY <1>1, <1>3, QueueGrows DEF IInv, Message
<1>6. TypeOK'
  BY <1>1, <1>4, <1>5 DEF IInv, TypeOK, SpawnerType
<1>7. (InputsBounded /\ Named /\ HubNeverDangles /\ RegistryHasTask)'
  BY <1>1 DEF IInv, InputsBounded, Named, HubNeverDangles, RegistryHasTask
<1>8. SendTargetStays'
  BY <1>1 DEF IInv, SendTargetStays, InHub, ReceiverAlive
<1>9. TxHeld'
  BY <1>1, <1>3, <1>4 DEF IInv, TxHeld, c
<1>10. AnswerTaken' /\ ResultWhenDone'
  BY <1>1, <1>3, <1>4 DEF IInv, AnswerTaken, ResultWhenDone
<1>11. PendingOwned'
  <2> SUFFICES ASSUME NEW q \in pending
               PROVE  spawner'[q].pc \in {"sending", "waiting", "expired", "cancelled"}
    BY <1>1 DEF PendingOwned
  <2>1. q \in Reqs
    BY DEF IInv, TypeOK
  <2> QED
    BY <1>4, <2>1 DEF IInv, PendingOwned
<1>12. UnsentIsNowhere'
  BY <1>1, <1>3, <1>4, <1>5 DEF IInv, UnsentIsNowhere
<1> QED
  BY <1>6, <1>7, <1>8, <1>9, <1>10, <1>11, <1>12 DEF IInv

LEMMA SendLockStep ==
    ASSUME IInv, NEW s \in Senders, NEW n \in Names, SendLock(s, n)
    PROVE  IInv'
<1>1. /\ lock = None /\ hub[n] # None /\ inputs < MaxInputs
      /\ lock' = s /\ sending' = [sending EXCEPT ![s] = hub[n]]
      /\ UNCHANGED <<hub, registry, conn, queue, spawner, pending, asked, inputs>>
  BY DEF SendLock
<1>2. hub[n] \in Conns /\ conn[hub[n]].pc \in Serving
  BY <1>1, HubEntry
<1>3. sending' \in [Senders -> Conns \union {None}] /\ sending'[s] = hub[n]
  BY <1>1, <1>2 DEF IInv, TypeOK
<1>4. TypeOK'
  BY <1>1, <1>3 DEF IInv, TypeOK
<1>5. SendTargetStays'
  BY <1>1, <1>2, <1>3 DEF SendTargetStays, InHub, ReceiverAlive, Serving
<1>6. (Named /\ HubNeverDangles /\ RegistryHasTask)'
  BY <1>1 DEF IInv, Named, HubNeverDangles, RegistryHasTask
<1>7. (InputsBounded /\ TxHeld /\ AnswerTaken /\ PendingOwned /\ ResultWhenDone /\ UnsentIsNowhere)'
  BY <1>1 DEF IInv, InputsBounded, TxHeld, AnswerTaken, PendingOwned, ResultWhenDone, UnsentIsNowhere, Queued
<1> QED
  BY <1>4, <1>5, <1>6, <1>7 DEF IInv

LEMMA SendPushStep ==
    ASSUME IInv, NEW s \in Senders, SendPush(s)
    PROVE  IInv'
<1> DEFINE c == sending[s]
<1>1. /\ lock = s /\ HasRoom(c) /\ lock' = None
      /\ queue' = [queue EXCEPT ![c] = Append(queue[c], "input")]
      /\ sending' = [sending EXCEPT ![s] = None]
      /\ inputs' = inputs + 1
      /\ UNCHANGED <<hub, registry, conn, spawner, pending, asked>>
  BY DEF SendPush
<1>2. c \in Conns /\ inputs < MaxInputs
  BY <1>1, SendEntry, NoneAssumption DEF IInv, InputsBounded
<1> HIDE DEF c
<1>3. /\ queue' \in [Conns -> Seq(Message)]
      /\ \A d \in Conns : Len(queue'[d]) <= QueueCap
      /\ \A q \in Reqs : q # "input" /\ Queued(q)' => Queued(q)
  BY <1>1, <1>2, QueueGrows DEF IInv, Message
<1>4. inputs' \in 0..MaxInputs
  BY <1>1, <1>2, MaxInputsAssumption DEF IInv, TypeOK
<1>5. TypeOK'
  BY <1>1, <1>3, <1>4 DEF IInv, TypeOK
<1>6. SendTargetStays'
  BY <1>1 DEF SendTargetStays
<1>7. (Named /\ HubNeverDangles /\ RegistryHasTask)'
  BY <1>1 DEF IInv, Named, HubNeverDangles, RegistryHasTask
<1>8. (InputsBounded /\ TxHeld /\ AnswerTaken /\ PendingOwned /\ ResultWhenDone)'
  BY <1>1 DEF IInv, InputsBounded, TxHeld, AnswerTaken, PendingOwned, ResultWhenDone
<1>9. UnsentIsNowhere'
  BY <1>1, <1>3, InputIsNoReq DEF IInv, UnsentIsNowhere
<1> QED
  BY <1>5, <1>6, <1>7, <1>8, <1>9 DEF IInv

(* The head of the queue was sent by its call before it reaches the socket *)
(* or is lost with it.                                                     *)
LEMMA ForwardStep ==
    ASSUME IInv, NEW c \in Conns, Forward(c)
    PROVE  IInv'
<1> DEFINE m == Head(queue[c])
<1>1. /\ conn[c].pc = "loop" /\ queue[c] # <<>>
      /\ queue' = [queue EXCEPT ![c] = Tail(queue[c])]
      /\ asked' = asked \union ({m} \intersect Reqs) \/ asked' = asked
      /\ Goto(c, "leaving") \/ conn' = conn
      /\ UNCHANGED <<hub, lock, registry, spawner, pending, sending, inputs>>
  BY DEF Forward
<1>2. /\ queue[c] \in Seq(Message) /\ Len(queue[c]) <= QueueCap
      /\ conn \in ConnType
  BY DEF IInv, TypeOK, ConnType
<1>3. /\ Tail(queue[c]) \in Seq(Message) /\ Len(Tail(queue[c])) <= QueueCap
      /\ \A x : (\E k \in 1..Len(Tail(queue[c])) : Tail(queue[c])[k] = x)
                   => \E k \in 1..Len(queue[c]) : queue[c][k] = x
      /\ \E k \in 1..Len(queue[c]) : queue[c][k] = m
  BY <1>1, <1>2, TailFacts
<1> HIDE DEF m
<1>4. /\ queue' \in [Conns -> Seq(Message)]
      /\ queue'[c] = Tail(queue[c])
      /\ \A d \in Conns : d # c => queue'[d] = queue[d]
  BY <1>1, <1>3 DEF IInv, TypeOK
<1>5. \A q \in Reqs : Queued(q)' => Queued(q)
  <2> SUFFICES ASSUME NEW q \in Reqs,
                      NEW d \in Conns, NEW k \in 1..Len(queue'[d]), queue'[d][k] = q
               PROVE  \E e \in Conns : \E j \in 1..Len(queue[e]) : queue[e][j] = q
    BY DEF Queued
  <2>1. CASE d = c
    BY <1>3, <1>4, <2>1
  <2>2. CASE d # c
    BY <1>4, <2>2
  <2> QED
    BY <2>1, <2>2
<1>6. /\ conn' \in ConnType
      /\ conn'[c].pc \in {"loop", "leaving"}
      /\ \A d \in Conns : /\ conn'[d].name = conn[d].name
                          /\ d # c => conn'[d] = conn[d]
  <2>1. CASE Goto(c, "leaving")
    <3>1. "leaving" \in ConnPcs
      BY DEF ConnPcs
    <3> QED
      BY <1>2, <2>1, <3>1, GotoFacts
  <2>2. CASE conn' = conn
    BY <1>1, <1>2, <2>2
  <2> QED
    BY <1>1, <2>1, <2>2
<1>7. TypeOK'
  <2>1. \A d \in Conns : Len(queue'[d]) <= QueueCap
    BY <1>3, <1>4 DEF IInv, TypeOK
  <2> QED
    BY <1>1, <1>4, <1>6, <2>1 DEF IInv, TypeOK, ConnType
<1>8. Named'
  BY <1>1, <1>6 DEF IInv, Named
<1>9. HubNeverDangles'
  <2> SUFFICES ASSUME NEW n \in Names, hub[n] # None
               PROVE  conn'[hub[n]].name = n /\ conn'[hub[n]].pc \in Serving
    BY <1>1 DEF HubNeverDangles, Serving
  <2>1. hub[n] \in Conns /\ conn[hub[n]].name = n /\ conn[hub[n]].pc \in Serving
    BY HubEntry
  <2>2. CASE hub[n] = c
    BY <1>6, <2>1, <2>2 DEF Serving
  <2>3. CASE hub[n] # c
    BY <1>6, <2>1, <2>3
  <2> QED
    BY <2>2, <2>3
<1>10. SendTargetStays'
  <2> SUFFICES ASSUME lock # None
               PROVE  /\ sending[lock] # None
                      /\ \E n \in Names : hub[n] = sending[lock]
                      /\ conn'[sending[lock]].pc # "closed"
    BY <1>1 DEF SendTargetStays, InHub, ReceiverAlive
  <2>1. /\ sending[lock] \in Conns
        /\ sending[lock] # None
        /\ \E n \in Names : hub[n] = sending[lock]
        /\ conn[sending[lock]].pc # "closed"
    BY SendEntry
  <2>2. conn'[sending[lock]].pc # "closed"
    BY <1>6, <2>1
  <2> QED
    BY <2>1, <2>2
<1>11. RegistryHasTask'
  <2> SUFFICES ASSUME NEW n \in registry
               PROVE  \E d \in Conns : conn'[d].name = n /\ conn'[d].pc \in Listed
    BY <1>1 DEF RegistryHasTask, Listed
  <2>1. PICK d \in Conns : conn[d].name = n /\ conn[d].pc \in Listed
    BY DEF IInv, RegistryHasTask, Listed
  <2> QED
    BY <1>6, <2>1 DEF Listed
<1>12. UnsentIsNowhere'
  <2> SUFFICES ASSUME NEW r \in Reqs,
                      spawner[r].pc \in {"idle", "found", "sending"} \/ spawner[r].result = "lost"
               PROVE  r \notin asked' /\ ~Queued(r)'
    BY <1>1 DEF UnsentIsNowhere
  <2>1. r \notin asked /\ ~Queued(r)
    BY DEF IInv, UnsentIsNowhere
  <2>2. r # m
    BY <1>3, <2>1 DEF Queued
  <2> QED
    BY <1>1, <1>5, <2>1, <2>2
<1>13. (InputsBounded /\ TxHeld /\ AnswerTaken /\ PendingOwned /\ ResultWhenDone)'
  BY <1>1 DEF IInv, InputsBounded, TxHeld, AnswerTaken, PendingOwned, ResultWhenDone
<1> QED
  BY <1>7, <1>8, <1>9, <1>10, <1>11, <1>12, <1>13 DEF IInv

(* The steps of a task that only move it on or list its name.              *)
LEMMA MovingStep ==
    ASSUME IInv, NEW c \in Conns,
           \/ RegistryRegister(c) \/ RecvHeartbeat(c) \/ BeatHub(c) \/ BeatRegistry(c)
           \/ ReceiverClosed(c) \/ SocketClosed(c)
    PROVE  IInv'
<1>1. conn \in ConnType
  BY DEF IInv, TypeOK, ConnType
<1>2. CASE RegistryRegister(c)
  BY <1>1, <1>2, GotoFacts, TaskMoves DEF RegistryRegister, ConnPcs, Serving, Listed
<1>3. CASE RecvHeartbeat(c)
  BY <1>1, <1>3, GotoFacts, TaskMoves DEF RecvHeartbeat, ConnPcs, Serving, Listed
<1>4. CASE BeatHub(c)
  BY <1>1, <1>4, GotoFacts, TaskMoves DEF BeatHub, ConnPcs, Serving, Listed
<1>5. CASE BeatRegistry(c)
  <2> DEFINE new == [conn[c] EXCEPT !.pc = "loop", !.listed = TRUE]
  <2>1. conn[c] \in [pc : ConnPcs, name : Names \union {None}, listed : BOOLEAN]
    BY <1>1 DEF ConnType
  <2>2. /\ new \in [pc : ConnPcs, name : Names \union {None}, listed : BOOLEAN]
        /\ new.pc = "loop" /\ new.name = conn[c].name
    BY <2>1 DEF ConnPcs
  <2>3. conn' = [conn EXCEPT ![c] = new]
    BY <1>5 DEF BeatRegistry
  <2> HIDE DEF new
  <2>4. /\ conn' \in ConnType
        /\ conn'[c].pc = "loop"
        /\ \A d \in Conns : /\ conn'[d].name = conn[d].name
                            /\ d # c => conn'[d] = conn[d]
    BY <1>1, <2>2, <2>3 DEF ConnType
  <2>5. "loop" \in ConnPcs \ {"off", "closed"} /\ "loop" \in Listed /\ "loop" \in Serving
    BY DEF ConnPcs, Listed, Serving
  <2>6. /\ conn[c].pc = "beatRegistry"
        /\ registry' = registry \union {conn[c].name}
        /\ UNCHANGED <<hub, lock, queue, spawner, pending, asked, sending, inputs>>
    BY <1>5 DEF BeatRegistry
  <2> QED
    BY <2>4, <2>5, <2>6, TaskMoves
<1>6. CASE ReceiverClosed(c)
  BY <1>1, <1>6, GotoFacts, TaskMoves DEF ReceiverClosed, ConnPcs, Serving, Listed
<1>7. CASE SocketClosed(c)
  BY <1>1, <1>7, GotoFacts, TaskMoves DEF SocketClosed, ConnPcs, Serving, Listed
<1> QED
  BY <1>2, <1>3, <1>4, <1>5, <1>6, <1>7

LEMMA NextIInv == IInv /\ [Next]_vars => IInv'
<1> SUFFICES ASSUME IInv, [Next]_vars PROVE IInv'
  OBVIOUS
<1>1. ASSUME NEW c \in Conns, NEW n \in Names, Connect(c, n) PROVE IInv'
  BY <1>1, ConnectStep
<1>2. ASSUME NEW c \in Conns, Task(c) PROVE IInv'
  BY <1>2, HubRegisterStep, MovingStep, ForwardStep, HubUnregisterStep,
     RegistryUnregisterStep DEF Task
<1>3. ASSUME NEW c \in Conns, RecvHeartbeat(c) \/ SocketClosed(c) PROVE IInv'
  BY <1>3, MovingStep
<1>4. ASSUME NEW c \in Conns, NEW r \in Reqs, NEW answer \in {"ok", "err"},
             RecvSpawnAnswer(c, r, answer)
      PROVE  IInv'
  BY <1>4, RecvSpawnAnswerStep
<1>5. ASSUME NEW r \in Reqs, NEW n \in Names, SpawnLookup(r, n) PROVE IInv'
  BY <1>5, SpawnLookupStep
<1>6. ASSUME NEW r \in Reqs, Spawner(r) PROVE IInv'
  BY <1>6, SpawnInsertStep, SpawnSendStep, SpawnReturnsStep, SpawnTimeoutStep DEF Spawner
<1>7. ASSUME NEW r \in Reqs, SpawnCancel(r) PROVE IInv'
  BY <1>7, SpawnCancelStep
<1>8. ASSUME NEW s \in Senders, NEW n \in Names, SendLock(s, n) PROVE IInv'
  BY <1>8, SendLockStep
<1>9. ASSUME NEW s \in Senders, SendPush(s) PROVE IInv'
  BY <1>9, SendPushStep
<1>10. CASE UNCHANGED vars
  <2>1. UNCHANGED <<hub, lock, registry, conn, queue, spawner, pending, asked, sending, inputs>>
    BY <1>10 DEF vars
  <2>2. TypeOK'
    BY <2>1 DEF IInv, TypeOK
  <2> QED
    BY <2>1, <2>2 DEF IInv, InputsBounded, Named, TxHeld, HubNeverDangles, SendTargetStays,
       InHub, ReceiverAlive, AnswerTaken, PendingOwned, ResultWhenDone, UnsentIsNowhere,
       Queued, RegistryHasTask
<1> QED
  BY <1>1, <1>2, <1>3, <1>4, <1>5, <1>6, <1>7, <1>8, <1>9, <1>10 DEF Next

-----------------------------------------------------------------------------
(* Every reachable state satisfies the inductive invariant.                *)
THEOREM InvariantHolds == Spec => []IInv
BY InitIInv, NextIInv, PTL DEF Spec

(* The variables keep their types and no queue exceeds its bound.          *)
THEOREM TypeCorrect == Spec => []TypeOK
<1>1. IInv => TypeOK
  BY DEF IInv
<1> QED
  BY <1>1, InvariantHolds, PTL

(* The hub never names a connection whose task will not clean up.          *)
THEOREM HubEntriesLive == Spec => []HubNeverDangles
<1>1. IInv => HubNeverDangles
  BY DEF IInv
<1> QED
  BY <1>1, InvariantHolds, PTL

(* send_to waits only for a queue that still has its task.                 *)
THEOREM SendNeverLost == Spec => []SendTargetStays
<1>1. IInv => SendTargetStays
  BY DEF IInv
<1> QED
  BY <1>1, InvariantHolds, PTL

(* A call of spawn that returned left nothing in pending_spawns.           *)
THEOREM NoPendingLeftBehind == Spec => []PendingOwned
<1>1. IInv => PendingOwned
  BY DEF IInv
<1> QED
  BY <1>1, InvariantHolds, PTL

(* A request reported as lost was never written to a host's socket and is  *)
(* in no queue.                                                            *)
THEOREM LostIsSafeToRetry == Spec => []LostWasNeverAsked
<1>1. IInv => LostWasNeverAsked
  BY DEF IInv, LostWasNeverAsked, UnsentIsNowhere, Queued
<1> QED
  BY <1>1, InvariantHolds, PTL

(* A name listed as connected has a task behind it.                        *)
THEOREM ListedNamesHaveTasks == Spec => []RegistryHasTask
<1>1. IInv => RegistryHasTask
  BY DEF IInv
<1> QED
  BY <1>1, InvariantHolds, PTL

(* What an answered call can do next.                                      *)
AnswerKept ==
    \A r \in Reqs :
       /\ spawner[r].pc = "waiting"
       /\ spawner[r].reply # "none"
       /\ spawner'[r] # spawner[r]
       => spawner'[r].pc = "cancelled" \/ spawner'[r].result = spawner[r].reply

(* A call that has its answer is left alone by every step of another call. *)
LEMMA OthersKeepAnswer ==
    ASSUME NEW r \in Reqs,
           \A q \in Reqs : q # r => spawner'[q] = spawner[q],
           \/ spawner[r].pc # "waiting" \/ spawner[r].reply = "none"
           \/ spawner'[r].pc = "cancelled" \/ spawner'[r].result = spawner[r].reply
    PROVE  AnswerKept
BY DEF AnswerKept

LEMMA NextAnswerKept == IInv /\ [Next]_vars => AnswerKept
<1> SUFFICES ASSUME IInv, [Next]_vars PROVE AnswerKept
  OBVIOUS
<1>1. spawner \in SpawnerType
  BY DEF IInv, TypeOK, SpawnerType
<1>2. CASE UNCHANGED spawner
  BY <1>2 DEF AnswerKept
<1>3. ASSUME NEW c \in Conns, NEW r \in Reqs, NEW answer \in {"ok", "err"},
             RecvSpawnAnswer(c, r, answer)
      PROVE  AnswerKept
  <2>1. CASE spawner[r].reply # "none"
    <3>1. r \notin pending
      BY <2>1 DEF IInv, AnswerTaken
    <3> QED
      BY <1>2, <1>3, <3>1 DEF RecvSpawnAnswer
  <2>2. CASE spawner[r].reply = "none"
    <3>1. \A q \in Reqs : q # r => spawner'[q] = spawner[q]
      BY <1>1, <1>3 DEF RecvSpawnAnswer, SpawnerType
    <3> QED
      BY <2>2, <3>1, OthersKeepAnswer
  <2> QED
    BY <2>1, <2>2
<1>4. ASSUME NEW r \in Reqs, NEW n \in Names, SpawnLookup(r, n)
      PROVE  AnswerKept
  <2>1. \A q \in Reqs : q # r => spawner'[q] = spawner[q]
    BY <1>1, <1>4 DEF SpawnLookup, Return, SpawnerType
  <2> QED
    BY <1>4, <2>1, OthersKeepAnswer DEF SpawnLookup
<1>5. ASSUME NEW r \in Reqs, Spawner(r)
      PROVE  AnswerKept
  <2>1. \A q \in Reqs : q # r => spawner'[q] = spawner[q]
    BY <1>1, <1>5 DEF Spawner, SpawnInsert, SpawnSend, SpawnLost, SpawnReply, SpawnTimeout,
       SpawnExpire, Return, SpawnerType
  <2>2. CASE SpawnReply(r)
    <3>1. spawner'[r].result = spawner[r].reply
      BY <1>1, <2>2 DEF SpawnReply, Return, SpawnerType
    <3> QED
      BY <2>1, <3>1, OthersKeepAnswer
  <2>3. CASE SpawnInsert(r) \/ SpawnSend(r) \/ SpawnLost(r) \/ SpawnTimeout(r) \/ SpawnExpire(r)
    <3>1. spawner[r].pc # "waiting" \/ spawner[r].reply = "none"
      BY <2>3 DEF SpawnInsert, SpawnSend, SpawnLost, SpawnTimeout, SpawnExpire
    <3> QED
      BY <2>1, <3>1, OthersKeepAnswer
  <2> QED
    BY <1>5, <2>2, <2>3 DEF Spawner
<1>6. ASSUME NEW r \in Reqs, SpawnCancel(r)
      PROVE  AnswerKept
  <2>1. /\ \A q \in Reqs : q # r => spawner'[q] = spawner[q]
        /\ spawner'[r].pc = "cancelled"
    BY <1>1, <1>6 DEF SpawnCancel, SpawnerType
  <2> QED
    BY <2>1, OthersKeepAnswer
<1>7. ASSUME NEW c \in Conns, NEW n \in Names, Connect(c, n) PROVE UNCHANGED spawner
  BY <1>7 DEF Connect
<1>8. ASSUME NEW c \in Conns, Task(c) \/ RecvHeartbeat(c) \/ SocketClosed(c)
      PROVE  UNCHANGED spawner
  BY <1>8 DEF Task, RecvHeartbeat, SocketClosed, HubRegister, RegistryRegister, BeatHub,
     BeatRegistry, Forward, ReceiverClosed, HubUnregister, RegistryUnregister
<1>9. ASSUME NEW s \in Senders, NEW n \in Names, SendLock(s, n) PROVE UNCHANGED spawner
  BY <1>9 DEF SendLock
<1>10. ASSUME NEW s \in Senders, SendPush(s) PROVE UNCHANGED spawner
  BY <1>10 DEF SendPush
<1>11. CASE UNCHANGED vars
  BY <1>2, <1>11 DEF vars
<1> QED
  BY <1>2, <1>3, <1>4, <1>5, <1>6, <1>7, <1>8, <1>9, <1>10, <1>11 DEF Next

(* An answer that reached the call before its timer is what it returns.    *)
THEOREM AnswerWinsOverTimer == Spec => AnswerInTimeIsReturned
<1>1. IInv /\ [Next]_vars => [AnswerKept]_vars
  BY NextAnswerKept
<1>2. Spec => [][AnswerKept]_vars
  BY <1>1, InvariantHolds, PTL DEF Spec
<1> QED
  BY <1>2 DEF AnswerInTimeIsReturned, AnswerKept
=============================================================================
