-------------------------- MODULE ControlPlaneProofs --------------------------
(* Theorems of the control plane, for any shells, sessions, connections and number of keystrokes: *)
(* what a client types into a session arrives in the order it was typed, across lost connections. *)
(* The invariant follows a keystroke from the session's channel over the forwarder's hand and a   *)
(* connection's queue to the shell, and says that no place holds one older than the next holds.   *)
EXTENDS ControlPlane, TLAPS

Increasing(keys) == \A i, j \in 1..Len(keys) : i < j => keys[i] < keys[j]

(* Keystroke k has left session o: it is older than what the forwarder holds and what waits.      *)
Older(k, o) ==
    /\ k <= typed
    /\ session[o].held # 0 => k < session[o].held
    /\ \A j \in 1..Len(session[o].stdin) : k < session[o].stdin[j]

SessionInOrder ==
    \A o \in Objs :
        /\ Increasing(session[o].stdin)
        /\ \A j \in 1..Len(session[o].stdin) :
              session[o].stdin[j] <= typed /\ session[o].held < session[o].stdin[j]
        /\ session[o].held <= typed

QueuesInOrder ==
    \A c \in Conns : \A i \in 1..Len(queue[c]) :
        /\ Older(queue[c][i].key, queue[c][i].o)
        /\ \A j \in 1..Len(queue[c]) :
              i < j /\ queue[c][i].o = queue[c][j].o => queue[c][i].key < queue[c][j].key

ArrivedLeft == \A o \in Objs : \A i \in 1..Len(arrived[o]) : Older(arrived[o][i], o)

(* The queue of the host's connection holds nothing older than what has arrived; the queue of one *)
(* it has given up may, and is lost.                                                              *)
CurrentIsAhead ==
    current # None =>
        \A i \in 1..Len(queue[current]) :
            \A k \in 1..Len(arrived[queue[current][i].o]) :
                arrived[queue[current][i].o][k] < queue[current][i].key

(* A connection that the hub has not had yet has no keystroke: none is kept for a reconnection.   *)
NewConnIsEmpty ==
    \A c \in Conns : conn[c].pc \in {"off", "joining"} => queue[c] = <<>> /\ hub # c

BornHasSid == \A o \in Objs : session[o].fwd # "unborn" => session[o].sid \in Sids

(* The mutex is held only by a forwarder with a keystroke to send, to a connection the hub has.   *)
LockHeld == lock # None => hub # None /\ session[lock].fwd = "send"

Shape == TypeOK /\ BornHasSid /\ LockHeld

ConnType == [pc : {"off", "joining", "loop", "beat", "leaving", "closed"}, listed : BOOLEAN]

OrderInv ==
    /\ SessionInOrder /\ QueuesInOrder /\ ArrivedLeft /\ CurrentIsAhead /\ NewConnIsEmpty
    /\ KeysInOrder

IInv == Shape /\ OrderInv

-----------------------------------------------------------------------------
(* Sequences.                                                                                     *)

LEMMA TailMember ==
    ASSUME NEW S, NEW s \in Seq(S), s # <<>>
    PROVE  /\ Head(s) \in S /\ Head(s) = s[1] /\ Tail(s) \in Seq(S)
           /\ Len(s) \in Nat \ {0} /\ Len(Tail(s)) = Len(s) - 1
           /\ \A i \in 1..Len(Tail(s)) : Tail(s)[i] = s[i + 1]
  OBVIOUS

LEMMA AppendMember ==
    ASSUME NEW S, NEW s \in Seq(S), NEW e \in S
    PROVE  /\ Append(s, e) \in Seq(S) /\ Len(Append(s, e)) = Len(s) + 1 /\ Len(s) \in Nat
           /\ \A i \in 1..Len(s) : Append(s, e)[i] = s[i]
           /\ Append(s, e)[Len(s) + 1] = e
  OBVIOUS

-----------------------------------------------------------------------------
(* Types.                                                                                         *)

LEMMA InitInvariant == Init => IInv
<1> SUFFICES ASSUME Init PROVE IInv
  OBVIOUS
<1>1. TypeOK
  BY MaxKeysAssumption, QueueCapAssumption DEF Init, TypeOK, Session
<1>2. OrderInv
  BY MaxKeysAssumption, NoneAssumption
     DEF Init, OrderInv, SessionInOrder, Increasing, QueuesInOrder, ArrivedLeft, CurrentIsAhead,
         NewConnIsEmpty, KeysInOrder
<1> QED
  BY <1>1, <1>2 DEF Init, IInv, Shape, BornHasSid, LockHeld

LEMMA SayIsTyped ==
    ASSUME TypeOK, current # None, NEW report \in Report, Say(report)
    PROVE  uplink' \in [Conns -> Seq(Report)]
  BY DEF TypeOK, Say

LEMMA HostIsTyped ==
    ASSUME Shape,
           \/ \E c \in Conns : HostConnect(c)
           \/ HostDisconnect \/ HostSeesClose \/ HostLists
           \/ \E i \in Sids : HostSpawn(i) \/ HostShellDies(i)
    PROVE  Shape'
<1> USE DEF Shape, TypeOK, sessionVars
<1>1. UNCHANGED <<hub, lock, queue, session, sessions, typed, arrived>>
  BY DEF HostConnect, HostDisconnect, HostSeesClose, HostLists, HostSpawn, HostShellDies
<1>2. BornHasSid' /\ LockHeld'
  BY <1>1 DEF BornHasSid, LockHeld
<1>3. ASSUME NEW c \in Conns, HostConnect(c) PROVE TypeOK'
  BY <1>1, <1>3 DEF HostConnect
<1>4. CASE HostDisconnect \/ HostSeesClose
  BY <1>1, <1>2, <1>4 DEF HostDisconnect, HostSeesClose
<1>5. CASE HostLists
  <2>1. [type |-> "shells_list", sids |-> Alive] \in Report
    BY DEF Report, Alive
  <2>2. uplink' \in [Conns -> Seq(Report)]
    BY <1>5, <2>1, SayIsTyped, NoneAssumption DEF HostLists
  <2>3. TypeOK'
    BY <1>1, <1>5, <2>2 DEF HostLists
  <2> QED
    BY <1>2, <2>3
<1>6. ASSUME NEW i \in Sids, HostSpawn(i) \/ HostShellDies(i) PROVE TypeOK'
  <2>1. [type |-> "spawn_ok", sid |-> i] \in Report /\ [type |-> "shell_died", sid |-> i] \in Report
    BY DEF Report
  <2>2. uplink' \in [Conns -> Seq(Report)]
    BY <1>6, <2>1, SayIsTyped DEF HostSpawn, HostShellDies
  <2> QED
    BY <1>1, <1>6, <2>2 DEF HostSpawn, HostShellDies
<1> QED
  BY <1>2, <1>3, <1>4, <1>5, <1>6

(* What a registration does to the objects: nothing to their keystrokes.                          *)
LEMMA AdoptEffect ==
    ASSUME TypeOK, BornHasSid, NEW ids \in SUBSET Sids, Adopt(ids)
    PROVE  /\ sessions' \in [Sids -> Objs \union {None}] /\ session' \in [Objs -> Session]
           /\ \A o \in Objs : /\ session'[o].stdin = session[o].stdin
                              /\ session'[o].held = session[o].held
                              /\ session'[o].held # 0 <=> session'[o].fwd = "send"
           /\ BornHasSid'
<1>0. PICK new \in SUBSET (ids \ Registered) : \E f \in [new -> Unborn] :
        /\ sessions' = [i \in Sids |-> IF i \in new THEN f[i] ELSE sessions[i]]
        /\ session' = [o \in Objs |->
              IF o \in Range(f)
              THEN [session[o] EXCEPT !.sid = CHOOSE i \in new : f[i] = o, !.fwd = "recv"]
              ELSE session[o]]
  BY DEF Adopt
<1>1. PICK f \in [new -> Unborn] :
        /\ sessions' = [i \in Sids |-> IF i \in new THEN f[i] ELSE sessions[i]]
        /\ session' = [o \in Objs |->
              IF o \in Range(f)
              THEN [session[o] EXCEPT !.sid = CHOOSE i \in new : f[i] = o, !.fwd = "recv"]
              ELSE session[o]]
  BY <1>0
<1>2. \A i \in new : f[i] \in Objs
  BY <1>1 DEF Unborn
<1>3. sessions' \in [Sids -> Objs \union {None}]
  BY <1>1, <1>2 DEF TypeOK
<1>4. ASSUME NEW o \in Objs
      PROVE  /\ session'[o] \in Session
             /\ session'[o].stdin = session[o].stdin /\ session'[o].held = session[o].held
             /\ session'[o].held # 0 <=> session'[o].fwd = "send"
             /\ session'[o].fwd # "unborn" => session'[o].sid \in Sids
  <2>1. CASE o \in Range(f)
    <3>1. PICK i \in new : f[i] = o
      BY <2>1 DEF Range
    <3>2. session[o].fwd = "unborn"
      BY <1>1, <3>1 DEF Unborn
    <3> DEFINE sid == CHOOSE j \in new : f[j] = o
    <3>3. sid \in Sids
      BY <3>1
    <3> HIDE DEF sid
    <3>4. session'[o] = [session[o] EXCEPT !.sid = sid, !.fwd = "recv"]
      BY <1>1, <2>1 DEF sid
    <3> QED
      BY <3>2, <3>3, <3>4 DEF TypeOK, Session
  <2>2. CASE o \notin Range(f)
    BY <1>1, <2>2 DEF TypeOK, BornHasSid
  <2> QED
    BY <2>1, <2>2
<1>5. session' \in [Objs -> Session]
  BY <1>1, <1>4
<1> QED
  BY <1>3, <1>4, <1>5 DEF BornHasSid

LEMMA ReceivesEffect ==
    ASSUME TypeOK, NEW c \in Conns, NEW type, Receives(c, type)
    PROVE  /\ uplink' \in [Conns -> Seq(Report)] /\ Head(uplink[c]) \in Report
           /\ Head(uplink[c]).type = type
  BY TailMember DEF TypeOK, Receives

LEMMA PcIsTyped ==
    ASSUME TypeOK, NEW c \in Conns, NEW pc \in {"loop", "beat", "leaving", "closed"},
           conn' = [conn EXCEPT ![c].pc = pc]
    PROVE  conn' \in [Conns -> ConnType] /\ conn'[c].pc = pc
           /\ \A d \in Conns \ {c} : conn'[d] = conn[d]
<1>1. conn \in [Conns -> ConnType]
  BY DEF TypeOK, ConnType
<1>2. conn'[c] = [conn[c] EXCEPT !.pc = pc]
  BY <1>1
<1>3. conn[c] \in ConnType
  BY <1>1
<1>4. conn'[c] \in ConnType /\ conn'[c].pc = pc
  BY <1>2, <1>3 DEF ConnType
<1> QED
  BY <1>1, <1>4

LEMMA RecvReportIsTyped ==
    ASSUME Shape, NEW c \in Conns, RecvReport(c)
    PROVE  /\ Shape'
           /\ \A o \in Objs : session'[o].stdin = session[o].stdin /\ session'[o].held = session[o].held
<1>0. TypeOK /\ BornHasSid /\ LockHeld
  BY DEF Shape
<1>1. CASE RecvHeartbeat(c)
  <2>1. /\ conn' = [conn EXCEPT ![c].pc = "beat"]
        /\ UNCHANGED <<shells, current, uplink, toList, hub, lock, queue, sessions, session, typed, arrived>>
    BY <1>1 DEF RecvHeartbeat, sessionVars, hostVars
  <2>2. conn' \in [Conns -> ConnType]
    BY <1>0, <2>1, PcIsTyped
  <2>3. TypeOK'
    BY <1>0, <2>1, <2>2 DEF TypeOK, ConnType
  <2> QED
    BY <1>0, <2>1, <2>3 DEF Shape, BornHasSid, LockHeld
<1>2. CASE RecvShellDied(c)
  <2>1. uplink' \in [Conns -> Seq(Report)]
    BY <1>0, <1>2, ReceivesEffect DEF RecvShellDied
  <2>2. sessions' \in [Sids -> Objs \union {None}]
    BY <1>0, <1>2 DEF RecvShellDied, TypeOK
  <2>3. UNCHANGED <<shells, current, toList, conn, hub, lock, queue, session, typed, arrived>>
    BY <1>2 DEF RecvShellDied
  <2>4. TypeOK'
    BY <1>0, <2>1, <2>2, <2>3 DEF TypeOK
  <2> QED
    BY <1>0, <2>3, <2>4 DEF Shape, BornHasSid, LockHeld
<1>3. ASSUME NEW type \in {"spawn_ok", "shells_list"}, Receives(c, type),
             NEW ids \in SUBSET Sids, Adopt(ids),
             UNCHANGED <<shells, current, toList, conn, hub, lock, queue, typed, arrived>>
      PROVE  /\ Shape'
             /\ \A o \in Objs : session'[o].stdin = session[o].stdin /\ session'[o].held = session[o].held
  <2>1. uplink' \in [Conns -> Seq(Report)]
    BY <1>0, <1>3, ReceivesEffect
  <2>2. /\ sessions' \in [Sids -> Objs \union {None}] /\ session' \in [Objs -> Session]
        /\ \A o \in Objs : /\ session'[o].stdin = session[o].stdin
                           /\ session'[o].held = session[o].held
                           /\ session'[o].held # 0 <=> session'[o].fwd = "send"
        /\ BornHasSid'
    BY <1>0, <1>3, AdoptEffect
  <2>3. TypeOK'
    BY <1>0, <1>3, <2>1, <2>2 DEF TypeOK
  <2>4. LockHeld'
    <3> SUFFICES ASSUME lock # None PROVE hub # None /\ session'[lock].fwd = "send"
      BY <1>3 DEF LockHeld
    <3>1. lock \in Objs /\ session[lock].fwd = "send" /\ hub # None
      BY <1>0 DEF LockHeld, TypeOK
    <3>2. session[lock].held # 0
      BY <1>0, <3>1 DEF TypeOK
    <3> QED
      BY <2>2, <3>1, <3>2
  <2> QED
    BY <2>2, <2>3, <2>4 DEF Shape
<1>4. CASE RecvSpawnOk(c)
  <2>1. Head(uplink[c]).sid \in Sids
    BY <1>0, <1>4, ReceivesEffect DEF RecvSpawnOk, Report
  <2> QED
    BY <1>3, <1>4, <2>1 DEF RecvSpawnOk
<1>5. CASE RecvShellsList(c)
  <2>1. Head(uplink[c]).sids \subseteq Sids
    BY <1>0, <1>5, ReceivesEffect DEF RecvShellsList, Report
  <2> QED
    BY <1>3, <1>5, <2>1 DEF RecvShellsList
<1> QED
  BY <1>1, <1>2, <1>4, <1>5 DEF RecvReport

(* A connection's other steps leave the sessions alone; those that change the hub need the mutex. *)
LEMMA ConnIsTyped ==
    ASSUME Shape, NEW c \in Conns,
           HubRegister(c) \/ Beat(c) \/ Forward(c) \/ EndLoop(c) \/ Leave(c)
    PROVE  Shape'
<1>0. TypeOK /\ BornHasSid /\ LockHeld
  BY DEF Shape
<1>1. /\ UNCHANGED <<shells, current, session, sessions, typed, lock>>
      /\ hub' = hub \/ (lock = None /\ hub' \in {c, None})
  BY DEF HubRegister, Beat, Forward, EndLoop, Leave, hostVars, sessionVars
<1>2. BornHasSid' /\ LockHeld' /\ hub' \in Conns \union {None}
  BY <1>0, <1>1 DEF BornHasSid, LockHeld, TypeOK
<1>3. conn' \in [Conns -> ConnType]
  <2>1. CASE conn' = conn
    BY <1>0, <2>1 DEF TypeOK, ConnType
  <2>2. ASSUME NEW pc \in {"loop", "leaving", "closed"}, conn' = [conn EXCEPT ![c].pc = pc]
        PROVE  conn' \in [Conns -> ConnType]
    BY <1>0, <2>2, PcIsTyped
  <2>3. CASE conn' = [conn EXCEPT ![c].pc = "loop", ![c].listed = TRUE]
    BY <1>0, <2>3 DEF TypeOK, ConnType
  <2> QED
    BY <2>1, <2>2, <2>3 DEF HubRegister, Beat, Forward, EndLoop, Leave
<1>4. toList' \in SUBSET Conns
  BY <1>0 DEF HubRegister, Beat, Forward, EndLoop, Leave, hostVars, TypeOK
<1>5. /\ queue' \in [Conns -> Seq(Input)] /\ arrived' \in [Objs -> Seq(Key)]
      /\ \A d \in Conns : Len(queue'[d]) <= QueueCap
  <2>0. /\ queue \in [Conns -> Seq(Input)] /\ arrived \in [Objs -> Seq(Key)]
        /\ \A d \in Conns : Len(queue[d]) <= QueueCap
    BY <1>0 DEF TypeOK
  <2>1. CASE Forward(c)
    <3> DEFINE m == Head(queue[c])
    <3>1. queue[c] # <<>> /\ queue' = [queue EXCEPT ![c] = Tail(@)]
      BY <2>1 DEF Forward
    <3>2. /\ m \in Input /\ Tail(queue[c]) \in Seq(Input)
          /\ Len(queue[c]) \in Nat /\ Len(Tail(queue[c])) = Len(queue[c]) - 1
      BY <2>0, <3>1, TailMember
    <3>3. queue' \in [Conns -> Seq(Input)] /\ \A d \in Conns : Len(queue'[d]) <= QueueCap
      BY <2>0, <3>1, <3>2, QueueCapAssumption
    <3>4. m.o \in Objs /\ m.key \in Key
      BY <3>2 DEF Input
    <3>5. arrived' = arrived \/ arrived' = [arrived EXCEPT ![m.o] = Append(@, m.key)]
      BY <2>1 DEF Forward
    <3> HIDE DEF m
    <3>6. Append(arrived[m.o], m.key) \in Seq(Key)
      BY <2>0, <3>4, AppendMember
    <3>7. arrived' \in [Objs -> Seq(Key)]
      BY <2>0, <3>4, <3>5, <3>6
    <3> QED
      BY <3>3, <3>7
  <2>2. CASE Leave(c)
    <3>1. queue' = [queue EXCEPT ![c] = <<>>] /\ arrived' = arrived
      BY <2>2 DEF Leave
    <3>2. <<>> \in Seq(Input) /\ Len(<<>>) = 0
      OBVIOUS
    <3> QED
      BY <2>0, <3>1, <3>2, QueueCapAssumption
  <2>3. CASE HubRegister(c) \/ Beat(c) \/ EndLoop(c)
    <3>1. queue' = queue /\ arrived' = arrived
      BY <2>3 DEF HubRegister, Beat, EndLoop
    <3> QED
      BY <2>0, <3>1
  <2> QED
    BY <2>1, <2>2, <2>3
<1>6. uplink' \in [Conns -> Seq(Report)]
  <2>1. uplink' = uplink \/ uplink' = [uplink EXCEPT ![c] = <<>>]
    BY DEF HubRegister, Beat, Forward, EndLoop, Leave, hostVars
  <2>2. uplink \in [Conns -> Seq(Report)] /\ <<>> \in Seq(Report)
    BY <1>0 DEF TypeOK
  <2> QED
    BY <2>1, <2>2
<1>7. TypeOK'
  BY <1>0, <1>1, <1>2, <1>3, <1>4, <1>5, <1>6 DEF TypeOK, ConnType
<1> QED
  BY <1>2, <1>7 DEF Shape

QueuesTyped ==
    queue \in [Conns -> Seq(Input)] /\ \A c \in Conns : Len(queue[c]) <= QueueCap

LEMMA SessionIsTyped ==
    ASSUME Shape, NEW o \in Objs,
           \/ Type(o) \/ FwdRecv(o) \/ FwdLock(o) \/ FwdPush(o)
           \/ FwdBreaks(o) \/ FwdDrained(o)
    PROVE  Shape'
<1> USE DEF hostVars, sessionVars
<1>0. TypeOK /\ BornHasSid /\ LockHeld /\ QueuesTyped
  BY DEF Shape, TypeOK, QueuesTyped
<1>1. UNCHANGED <<shells, current, uplink, toList, conn, hub, sessions, arrived>>
  BY DEF Type, FwdRecv, FwdLock, FwdPush, FwdBreaks, FwdDrained
<1>2. /\ session[o] \in Session /\ session[o].stdin \in Seq(Key)
      /\ session[o].held # 0 <=> session[o].fwd = "send"
      /\ lock = o => session[o].fwd = "send"
      /\ o # None
  BY <1>0, NoneAssumption DEF TypeOK, Session, LockHeld
<1>3. ASSUME NEW new \in Session, session' = [session EXCEPT ![o] = new],
             new.sid = session[o].sid, new.held # 0 <=> new.fwd = "send", session[o].fwd # "unborn",
             QueuesTyped', typed' \in 0..MaxKeys,
             lock' = lock \/ lock' = None, lock' = o => new.fwd = "send"
      PROVE  Shape'
  <2>1. session' \in [Objs -> Session] /\ BornHasSid'
    BY <1>0, <1>3 DEF BornHasSid, TypeOK
  <2>2. \A x \in Objs : session'[x].held # 0 <=> session'[x].fwd = "send"
    BY <1>0, <1>3 DEF TypeOK
  <2>3. LockHeld'
    <3> SUFFICES ASSUME lock' # None PROVE hub # None /\ session'[lock'].fwd = "send"
      BY <1>1 DEF LockHeld
    <3>1. lock' = lock /\ lock \in Objs /\ hub # None /\ session[lock].fwd = "send"
      BY <1>0, <1>3 DEF LockHeld, TypeOK
    <3>2. session \in [Objs -> Session]
      BY <1>0 DEF TypeOK
    <3> QED
      BY <1>3, <3>1, <3>2
  <2>4. TypeOK'
    BY <1>0, <1>1, <1>3, <2>1, <2>2 DEF TypeOK, QueuesTyped
  <2> QED
    BY <2>1, <2>3, <2>4 DEF Shape
<1>4. CASE Type(o)
  <2>1. typed + 1 \in Key /\ typed' \in 0..MaxKeys
    BY <1>0, <1>4, MaxKeysAssumption DEF Type, Key, TypeOK
  <2> DEFINE new == [session[o] EXCEPT !.stdin = Append(@, typed + 1)]
  <2>2. Append(session[o].stdin, typed + 1) \in Seq(Key)
    BY <1>2, <2>1, AppendMember
  <2>3. new \in Session /\ new.sid = session[o].sid /\ (new.held # 0 <=> new.fwd = "send")
    BY <1>2, <2>2 DEF Session
  <2>4. /\ session' = [session EXCEPT ![o] = new] /\ session[o].fwd # "unborn"
        /\ queue' = queue /\ lock' = lock /\ new.fwd = session[o].fwd
    BY <1>0, <1>4 DEF Type, TypeOK, Session
  <2>5. QueuesTyped'
    BY <1>0, <2>4 DEF QueuesTyped
  <2> HIDE DEF new
  <2> QED
    BY <1>2, <1>3, <2>1, <2>3, <2>4, <2>5
<1>5. CASE FwdRecv(o)
  <2> DEFINE key == Head(session[o].stdin)
             rest == Tail(session[o].stdin)
             new == [session[o] EXCEPT !.fwd = "send", !.held = key, !.stdin = rest]
  <2>1. key \in Key /\ rest \in Seq(Key)
    BY <1>2, <1>5, TailMember DEF FwdRecv
  <2>2. key # 0
    BY <2>1, MaxKeysAssumption DEF Key
  <2>3. /\ session' = [session EXCEPT ![o] = new] /\ session[o].fwd # "unborn"
        /\ UNCHANGED <<queue, typed, lock>>
    BY <1>0, <1>5 DEF FwdRecv, TypeOK
  <2> HIDE DEF key, rest
  <2>4. /\ new \in Session /\ new.sid = session[o].sid /\ new.fwd = "send"
        /\ new.held # 0 <=> new.fwd = "send"
    BY <1>2, <2>1, <2>2 DEF Session
  <2>5. QueuesTyped' /\ typed' \in 0..MaxKeys
    BY <1>0, <2>3 DEF TypeOK, QueuesTyped
  <2> HIDE DEF new
  <2> QED
    BY <1>3, <2>3, <2>4, <2>5
<1>9. CASE FwdLock(o)
  <2>1. UNCHANGED <<session, queue, typed>> /\ lock' = o /\ hub # None /\ session[o].fwd = "send"
    BY <1>9 DEF FwdLock
  <2>2. TypeOK'
    BY <1>0, <1>1, <2>1 DEF TypeOK
  <2> QED
    BY <1>0, <1>1, <2>1, <2>2 DEF Shape, BornHasSid, LockHeld
<1>6. CASE FwdPush(o)
  <2> DEFINE new == [session[o] EXCEPT !.fwd = "recv", !.held = 0]
             input == [o |-> o, sid |-> session[o].sid, key |-> session[o].held]
  <2>1. new \in Session /\ new.sid = session[o].sid /\ (new.held # 0 <=> new.fwd = "send")
    BY <1>2 DEF Session
  <2>2. /\ session' = [session EXCEPT ![o] = new] /\ typed' = typed /\ lock' = None
        /\ session[o].fwd = "send" /\ hub \in Conns
        /\ queue' = [queue EXCEPT ![hub] = Append(@, input)] /\ Len(queue[hub]) < QueueCap
    BY <1>0, <1>2, <1>6 DEF FwdPush, TypeOK, LockHeld, HasRoom
  <2>3. input \in Input
    BY <1>0, <1>2, <2>2 DEF Input, Session, BornHasSid
  <2> HIDE DEF new, input
  <2>4. QueuesTyped'
    <3>1. /\ Append(queue[hub], input) \in Seq(Input) /\ Len(queue[hub]) \in Nat
          /\ Len(Append(queue[hub], input)) = Len(queue[hub]) + 1
      BY <1>0, <2>2, <2>3, AppendMember DEF QueuesTyped
    <3>2. Len(Append(queue[hub], input)) <= QueueCap
      BY <2>2, <3>1, QueueCapAssumption
    <3> QED
      BY <1>0, <2>2, <3>1, <3>2 DEF QueuesTyped
  <2>5. typed' \in 0..MaxKeys
    BY <1>0, <2>2 DEF TypeOK
  <2> QED
    BY <1>2, <1>3, <2>1, <2>2, <2>4, <2>5
<1>7. CASE FwdBreaks(o)
  <2> DEFINE new == [session[o] EXCEPT !.fwd = "gone", !.held = 0, !.stdin = <<>>]
  <2>1. new \in Session /\ new.sid = session[o].sid /\ (new.held # 0 <=> new.fwd = "send")
    <3>1. <<>> \in Seq(Key)
      OBVIOUS
    <3>2. new \in Session
      BY <1>2, <3>1 DEF Session
    <3>3. new.sid = session[o].sid /\ new.held = 0 /\ new.fwd = "gone"
      BY <1>2 DEF Session
    <3> HIDE DEF new
    <3> QED
      BY <3>2, <3>3
  <2>2. /\ session' = [session EXCEPT ![o] = new] /\ session[o].fwd = "send"
        /\ queue' = queue /\ typed' = typed /\ lock = None /\ lock' = None
    BY <1>0, <1>7 DEF FwdBreaks, TypeOK
  <2>3. QueuesTyped' /\ typed' \in 0..MaxKeys
    BY <1>0, <2>2 DEF TypeOK, QueuesTyped
  <2> HIDE DEF new
  <2> QED
    BY <1>2, <1>3, <2>1, <2>2, <2>3
<1>8. CASE FwdDrained(o)
  <2> DEFINE new == [session[o] EXCEPT !.fwd = "gone"]
  <2>1. session[o].fwd = "recv"
    BY <1>8 DEF FwdDrained
  <2>2. new \in Session /\ new.sid = session[o].sid /\ (new.held # 0 <=> new.fwd = "send")
    <3>1. new \in Session
      BY <1>2 DEF Session
    <3>2. new.sid = session[o].sid /\ new.held = session[o].held /\ new.fwd = "gone"
      BY <1>2 DEF Session
    <3>3. session[o].held = 0
      BY <1>2, <2>1
    <3> HIDE DEF new
    <3> QED
      BY <3>1, <3>2, <3>3
  <2>3. /\ session' = [session EXCEPT ![o] = new]
        /\ queue' = queue /\ typed' = typed /\ lock' = lock
    BY <1>0, <1>8 DEF FwdDrained, TypeOK
  <2>4. QueuesTyped' /\ typed' \in 0..MaxKeys
    BY <1>0, <2>3 DEF TypeOK, QueuesTyped
  <2>5. lock # o
    BY <1>2, <2>1
  <2> HIDE DEF new
  <2> QED
    BY <1>3, <2>1, <2>2, <2>3, <2>4, <2>5
<1> QED
  BY <1>4, <1>5, <1>6, <1>7, <1>8, <1>9

LEMMA StepIsTyped ==
    ASSUME Shape, [Next]_vars
    PROVE  Shape'
<1>1. CASE UNCHANGED vars
  BY <1>1 DEF vars, Shape, TypeOK, BornHasSid, LockHeld
<1>2. ASSUME NEW c \in Conns, RecvReport(c) PROVE Shape'
  BY <1>2, RecvReportIsTyped
<1>3. ASSUME NEW c \in Conns,
             HubRegister(c) \/ Beat(c) \/ Forward(c) \/ EndLoop(c) \/ Leave(c)
      PROVE  Shape'
  BY <1>3, ConnIsTyped
<1>4. ASSUME NEW o \in Objs, Type(o) \/ Forwarder(o) \/ FwdDrained(o) PROVE Shape'
  BY <1>4, SessionIsTyped DEF Forwarder
<1> QED
  BY <1>1, <1>2, <1>3, <1>4, HostIsTyped DEF Next

-----------------------------------------------------------------------------
(* The order of the keystrokes.                                                                   *)

LEMMA SeqMember ==
    ASSUME NEW S, NEW s \in Seq(S)
    PROVE  Len(s) \in Nat /\ \A i \in 1..Len(s) : s[i] \in S
  OBVIOUS

(* The lengths and the keystrokes are numbers.                                                    *)
LEMMA Numbers ==
    ASSUME TypeOK
    PROVE  /\ \A c \in Conns : Len(queue[c]) \in Nat /\
                 \A i \in 1..Len(queue[c]) : queue[c][i].o \in Objs /\ queue[c][i].key \in Nat
           /\ \A o \in Objs : Len(arrived[o]) \in Nat /\ \A i \in 1..Len(arrived[o]) : arrived[o][i] \in Nat
           /\ \A o \in Objs : Len(session[o].stdin) \in Nat /\ session[o].held \in Nat /\
                 \A i \in 1..Len(session[o].stdin) : session[o].stdin[i] \in Nat
           /\ typed \in Nat
<1>1. Key \subseteq Nat /\ typed \in Nat
  BY MaxKeysAssumption DEF Key, TypeOK
<1>2. ASSUME NEW c \in Conns
      PROVE  Len(queue[c]) \in Nat /\
             \A i \in 1..Len(queue[c]) : queue[c][i].o \in Objs /\ queue[c][i].key \in Nat
  <2>1. queue[c] \in Seq(Input)
    BY DEF TypeOK
  <2>2. Len(queue[c]) \in Nat /\ \A i \in 1..Len(queue[c]) : queue[c][i] \in Input
    BY <2>1, SeqMember
  <2> QED
    BY <1>1, <2>2 DEF Input
<1>3. ASSUME NEW o \in Objs
      PROVE  Len(arrived[o]) \in Nat /\ \A i \in 1..Len(arrived[o]) : arrived[o][i] \in Nat
  <2>1. arrived[o] \in Seq(Key)
    BY DEF TypeOK
  <2> QED
    BY <1>1, <2>1, SeqMember
<1>4. ASSUME NEW o \in Objs
      PROVE  Len(session[o].stdin) \in Nat /\ session[o].held \in Nat /\
             \A i \in 1..Len(session[o].stdin) : session[o].stdin[i] \in Nat
  <2>1. session[o] \in Session
    BY DEF TypeOK
  <2>2. session[o].stdin \in Seq(Key) /\ session[o].held \in Key \union {0}
    BY <2>1 DEF Session
  <2> QED
    <3>1. /\ Len(session[o].stdin) \in Nat
          /\ \A i \in 1..Len(session[o].stdin) : session[o].stdin[i] \in Key
      BY <2>2, SeqMember
    <3>2. session[o].held \in Nat
      <4>1. CASE session[o].held \in Key
        BY <1>1, <4>1
      <4>2. CASE session[o].held = 0
        BY <4>2
      <4> QED
        BY <2>2, <4>1, <4>2
    <3> QED
      BY <1>1, <3>1, <3>2
<1> QED
  BY <1>1, <1>2, <1>3, <1>4

SameKeys ==
    \A o \in Objs : session'[o].stdin = session[o].stdin /\ session'[o].held = session[o].held

(* Whatever moves no keystroke and joins no connection to the host or the hub.                    *)
LEMMA NothingMoves ==
    ASSUME TypeOK, OrderInv, SameKeys, UNCHANGED <<queue, typed, arrived>>,
           current' = current \/ current' = None,
           \A c \in Conns : conn'[c].pc \in {"off", "joining"} =>
               conn[c].pc \in {"off", "joining"} /\ hub' # c
    PROVE  OrderInv'
<1>1. \A o \in Objs : \A k : Older(k, o) => Older(k, o)'
  BY DEF Older, SameKeys
<1>2. \A c \in Conns : \A i \in 1..Len(queue[c]) : queue[c][i].o \in Objs
  BY Numbers
<1>3. SessionInOrder'
  BY DEF OrderInv, SessionInOrder, Increasing, SameKeys
<1>4. QueuesInOrder'
  BY <1>1, <1>2 DEF OrderInv, QueuesInOrder
<1>5. ArrivedLeft' /\ KeysInOrder'
  BY <1>1 DEF OrderInv, ArrivedLeft, KeysInOrder
<1>6. CurrentIsAhead'
  BY DEF OrderInv, CurrentIsAhead
<1>7. NewConnIsEmpty'
  BY DEF OrderInv, NewConnIsEmpty
<1> QED
  BY <1>3, <1>4, <1>5, <1>6, <1>7 DEF OrderInv

LEMMA ConnectKeepsOrder ==
    ASSUME TypeOK, OrderInv, NEW c \in Conns, HostConnect(c)
    PROVE  OrderInv'
<1>1. /\ UNCHANGED <<queue, typed, arrived, session, hub>> /\ current' = c
      /\ conn' = [conn EXCEPT ![c].pc = "joining"]
  BY DEF HostConnect, sessionVars
<1>2. conn[c].pc = "off"
  <2>1. c # None /\ c = FirstOf({d \in Conns : conn[d].pc = "off"})
    BY NoneAssumption DEF HostConnect
  <2> DEFINE off == {d \in Conns : conn[d].pc = "off"}
  <2>2. off # {} /\ c = CHOOSE u \in off : TRUE
    BY <2>1 DEF FirstOf
  <2>3. c \in off
    BY <2>2
  <2> QED
    BY <2>3
<1>3. queue[c] = <<>> /\ hub # c
  BY <1>2 DEF OrderInv, NewConnIsEmpty
<1>4. NewConnIsEmpty'
  BY <1>1, <1>3 DEF OrderInv, NewConnIsEmpty, TypeOK
<1>5. CurrentIsAhead'
  BY <1>1, <1>3 DEF CurrentIsAhead
<1> QED
  BY <1>1, <1>4, <1>5
     DEF OrderInv, SessionInOrder, QueuesInOrder, ArrivedLeft, KeysInOrder, Older

LEMMA RegisterKeepsOrder ==
    ASSUME TypeOK, OrderInv, NEW c \in Conns, HubRegister(c)
    PROVE  OrderInv'
<1>1. /\ UNCHANGED <<queue, typed, arrived, session, current>>
      /\ conn' = [conn EXCEPT ![c].pc = "loop"] /\ hub' = c
  BY DEF HubRegister, sessionVars, hostVars
<1>2. NewConnIsEmpty'
  BY <1>1 DEF OrderInv, NewConnIsEmpty, TypeOK
<1> QED
  BY <1>1, <1>2
     DEF OrderInv, SessionInOrder, QueuesInOrder, ArrivedLeft, KeysInOrder, Older, CurrentIsAhead

LEMMA LeaveKeepsOrder ==
    ASSUME TypeOK, OrderInv, NEW c \in Conns, Leave(c)
    PROVE  OrderInv'
<1>1. /\ UNCHANGED <<typed, arrived, session, current>> /\ hub' = None
      /\ conn' = [conn EXCEPT ![c].pc = "closed"] /\ queue' = [queue EXCEPT ![c] = <<>>]
  BY DEF Leave, sessionVars
<1>2. queue'[c] = <<>> /\ \A d \in Conns \ {c} : queue'[d] = queue[d]
  BY <1>1 DEF TypeOK
<1>3. NewConnIsEmpty'
  BY <1>1, <1>2, NoneAssumption DEF OrderInv, NewConnIsEmpty, TypeOK
<1>4. QueuesInOrder'
  BY <1>1, <1>2 DEF OrderInv, QueuesInOrder, Older
<1>5. CurrentIsAhead'
  <2>1. CASE current = c
    BY <1>1, <1>2, <2>1 DEF CurrentIsAhead
  <2>2. CASE current # c
    BY <1>1, <1>2, <2>2 DEF OrderInv, CurrentIsAhead, TypeOK
  <2> QED
    BY <2>1, <2>2
<1> QED
  BY <1>1, <1>3, <1>4, <1>5 DEF OrderInv, SessionInOrder, ArrivedLeft, KeysInOrder, Older

(* The oldest keystroke of the connection's queue arrives, or is lost.                            *)
LEMMA ForwardKeepsOrder ==
    ASSUME TypeOK, OrderInv, NEW c \in Conns, Forward(c)
    PROVE  OrderInv'
<1> DEFINE m == Head(queue[c])
<1>1. /\ UNCHANGED <<typed, session, current, hub>>
      /\ queue' = [queue EXCEPT ![c] = Tail(@)] /\ queue[c] # <<>> /\ conn[c].pc = "loop"
      /\ \/ arrived' = arrived
         \/ current = c /\ arrived' = [arrived EXCEPT ![m.o] = Append(@, m.key)]
      /\ \A d \in Conns : conn'[d].pc \in {"off", "joining"} => conn'[d].pc = conn[d].pc
  BY DEF Forward, sessionVars, hostVars, TypeOK
<1>2. /\ m = queue[c][1] /\ m \in Input /\ Len(queue[c]) \in Nat \ {0}
      /\ Len(queue'[c]) = Len(queue[c]) - 1
      /\ \A i \in 1..Len(queue'[c]) : queue'[c][i] = queue[c][i + 1]
      /\ \A d \in Conns \ {c} : queue'[d] = queue[d]
  BY <1>1, TailMember DEF TypeOK
<1>3. m.o \in Objs /\ m.key \in Key
  BY <1>2 DEF Input
<1>4. SessionInOrder'
  BY <1>1 DEF OrderInv, SessionInOrder
<1>5. NewConnIsEmpty'
  BY <1>1, <1>2 DEF OrderInv, NewConnIsEmpty
<1>6. QueuesInOrder'
  <2>1. ASSUME NEW i \in 1..Len(queue'[c])
        PROVE  i + 1 \in 1..Len(queue[c]) /\ queue'[c][i] = queue[c][i + 1]
    BY <1>2
  <2>2. ASSUME NEW i \in 1..Len(queue'[c])
        PROVE  /\ Older(queue'[c][i].key, queue'[c][i].o)
               /\ \A j \in 1..Len(queue'[c]) :
                    i < j /\ queue'[c][i].o = queue'[c][j].o => queue'[c][i].key < queue'[c][j].key
    <3>1. Older(queue'[c][i].key, queue'[c][i].o)
      BY <2>1, <2>2 DEF OrderInv, QueuesInOrder
    <3>2. ASSUME NEW j \in 1..Len(queue'[c]), i < j, queue'[c][i].o = queue'[c][j].o
          PROVE  queue'[c][i].key < queue'[c][j].key
      <4>1. i + 1 \in 1..Len(queue[c]) /\ j + 1 \in 1..Len(queue[c]) /\ i + 1 < j + 1
        BY <1>2, <3>2
      <4>2. queue'[c][i] = queue[c][i + 1] /\ queue'[c][j] = queue[c][j + 1]
        BY <1>2
      <4>3. QueuesInOrder
        BY DEF OrderInv
      <4> QED
        BY <3>2, <4>1, <4>2, <4>3 DEF QueuesInOrder
    <3> QED
      BY <3>1, <3>2
  <2>3. ASSUME NEW d \in Conns \ {c}, NEW i \in 1..Len(queue'[d])
        PROVE  /\ Older(queue'[d][i].key, queue'[d][i].o)
               /\ \A j \in 1..Len(queue'[d]) :
                    i < j /\ queue'[d][i].o = queue'[d][j].o => queue'[d][i].key < queue'[d][j].key
    BY <1>2, <2>3 DEF OrderInv, QueuesInOrder
  <2>4. \A d \in Conns : \A i \in 1..Len(queue'[d]) :
          /\ Older(queue'[d][i].key, queue'[d][i].o)
          /\ \A j \in 1..Len(queue'[d]) :
               i < j /\ queue'[d][i].o = queue'[d][j].o => queue'[d][i].key < queue'[d][j].key
    BY <2>2, <2>3
  <2> QED
    BY <1>1, <2>4 DEF QueuesInOrder, Older
<1> HIDE DEF m
<1>7. CASE arrived' = arrived
  <2>1. CurrentIsAhead'
    <3>1. CASE current = c
      <4>1. ASSUME NEW i \in 1..Len(queue'[c]), NEW k \in 1..Len(arrived[queue'[c][i].o])
            PROVE  arrived[queue'[c][i].o][k] < queue'[c][i].key
        <5>1. i + 1 \in 1..Len(queue[c]) /\ queue'[c][i] = queue[c][i + 1]
          BY <1>2
        <5> QED
          BY <3>1, <4>1, <5>1, NoneAssumption DEF OrderInv, CurrentIsAhead
      <4> QED
        BY <1>1, <1>7, <3>1, <4>1 DEF CurrentIsAhead
    <3>2. CASE current # c
      BY <1>1, <1>2, <1>7, <3>2 DEF OrderInv, CurrentIsAhead, TypeOK
    <3> QED
      BY <3>1, <3>2
  <2> QED
    BY <1>1, <1>4, <1>5, <1>6, <1>7, <2>1 DEF OrderInv, ArrivedLeft, KeysInOrder, Older
<1>8. CASE current = c /\ arrived' = [arrived EXCEPT ![m.o] = Append(@, m.key)]
  <2> DEFINE o == m.o
             n == Len(arrived[o])
  <2>1. /\ n \in Nat /\ Len(arrived'[o]) = n + 1 /\ arrived'[o][n + 1] = m.key
        /\ \A i \in 1..n : arrived'[o][i] = arrived[o][i]
        /\ \A x \in Objs \ {o} : arrived'[x] = arrived[x]
    BY <1>3, <1>8, AppendMember DEF TypeOK
  <2>2. \A i \in 1..n : arrived[o][i] < m.key
    BY <1>2, <1>3, <1>8, NoneAssumption DEF OrderInv, CurrentIsAhead
  <2>3. Older(m.key, o)
    BY <1>2 DEF OrderInv, QueuesInOrder
  <2> HIDE DEF o, n
  <2>4. o \in Objs
    BY <1>3 DEF o
  <2>5. ArrivedLeft'
    <3>1. \A i \in 1..(n + 1) : Older(arrived'[o][i], o)
      <4> TAKE i \in 1..(n + 1)
      <4>1. CASE i = n + 1
        BY <2>1, <2>3, <4>1
      <4>2. CASE i # n + 1
        BY <2>1, <2>4, <4>2 DEF OrderInv, ArrivedLeft, n
      <4> QED
        BY <4>1, <4>2
    <3> QED
      BY <1>1, <2>1, <2>4, <3>1 DEF OrderInv, ArrivedLeft, Older
  <2>6. KeysInOrder'
    <3> SUFFICES ASSUME NEW x \in Objs, NEW j \in 1..Len(arrived'[x]), NEW k \in 1..Len(arrived'[x]),
                        j < k
                 PROVE  arrived'[x][j] < arrived'[x][k]
      BY DEF KeysInOrder
    <3>1. CASE x # o
      BY <2>1, <3>1 DEF OrderInv, KeysInOrder
    <3>2. CASE x = o /\ k = n + 1
      BY <2>1, <2>2, <3>2
    <3>3. CASE x = o /\ k # n + 1
      <4>1. j \in 1..n /\ k \in 1..n
        BY <2>1, <3>3
      <4> QED
        BY <2>1, <2>4, <3>3, <4>1 DEF OrderInv, KeysInOrder, n
    <3> QED
      BY <3>1, <3>2, <3>3
  <2>7. CurrentIsAhead'
    <3> SUFFICES ASSUME NEW i \in 1..Len(queue'[c]), NEW k \in 1..Len(arrived'[queue'[c][i].o])
                 PROVE  arrived'[queue'[c][i].o][k] < queue'[c][i].key
      BY <1>1, <1>8 DEF CurrentIsAhead
    <3>1. i + 1 \in 1..Len(queue[c]) /\ queue'[c][i] = queue[c][i + 1]
      BY <1>2
    <3>2. queue[c][i + 1].o \in Objs
      BY <3>1, Numbers
    <3>3. CASE queue[c][i + 1].o # o
      <4>1. arrived'[queue[c][i + 1].o] = arrived[queue[c][i + 1].o]
        BY <2>1, <3>2, <3>3
      <4>2. k \in 1..Len(arrived[queue[c][i + 1].o])
        BY <3>1, <4>1
      <4> QED
        BY <1>8, <3>1, <4>1, <4>2, NoneAssumption DEF OrderInv, CurrentIsAhead
    <3>4. CASE queue[c][i + 1].o = o
      <4>1. CASE k = n + 1
        <5>1. 1 \in 1..Len(queue[c]) /\ 1 < i + 1
          BY <1>2
        <5>2. m.key < queue[c][i + 1].key
          BY <1>2, <3>1, <3>4, <5>1 DEF OrderInv, QueuesInOrder, o
        <5> QED
          BY <2>1, <3>1, <3>4, <4>1, <5>2
      <4>2. CASE k # n + 1
        <5>1. k \in 1..n
          BY <2>1, <3>1, <3>4, <4>2
        <5>2. arrived[o][k] < queue[c][i + 1].key
          BY <1>8, <3>1, <3>4, <5>1, NoneAssumption DEF OrderInv, CurrentIsAhead, n
        <5> QED
          BY <2>1, <3>1, <3>4, <5>1, <5>2
      <4> QED
        BY <4>1, <4>2
    <3> QED
      BY <3>3, <3>4
  <2> QED
    BY <1>4, <1>5, <1>6, <2>5, <2>6, <2>7 DEF OrderInv
<1> QED
  BY <1>1, <1>7, <1>8

(* A keystroke is typed: younger than every other.                                                *)
LEMMA TypeKeepsOrder ==
    ASSUME TypeOK, OrderInv, NEW o \in Objs, Type(o)
    PROVE  OrderInv'
<1> DEFINE n == Len(session[o].stdin)
<1>1. /\ UNCHANGED <<queue, arrived, current, hub, conn>> /\ typed' = typed + 1
      /\ session' = [session EXCEPT ![o].stdin = Append(@, typed + 1)]
  BY DEF Type, hostVars
<1>2. session \in [Objs -> Session] /\ session[o].stdin \in Seq(Key) /\ typed + 1 \in Key /\ typed \in Nat
  BY MaxKeysAssumption DEF TypeOK, Session, Type, Key
<1>3. /\ n \in Nat /\ Len(session'[o].stdin) = n + 1 /\ session'[o].stdin[n + 1] = typed + 1
      /\ \A j \in 1..n : session'[o].stdin[j] = session[o].stdin[j]
      /\ session'[o].held = session[o].held
      /\ \A x \in Objs \ {o} : session'[x] = session[x]
  BY <1>1, <1>2, AppendMember DEF Session
<1> HIDE DEF n
<1>4. ASSUME NEW x \in Objs, NEW k \in Nat, Older(k, x)
      PROVE  Older(k, x)'
  <2>1. CASE x # o
    BY <1>1, <1>2, <1>3, <1>4, <2>1 DEF Older
  <2>2. CASE x = o
    <3>1. k < typed + 1 /\ k <= typed'
      BY <1>1, <1>2, <1>4 DEF Older
    <3>2. \A j \in 1..(n + 1) : k < session'[o].stdin[j]
      <4>1. ASSUME NEW j \in 1..n PROVE k < session'[o].stdin[j]
        <5>1. k < session[o].stdin[j]
          BY <1>4, <2>2 DEF Older, n
        <5> QED
          BY <1>3, <5>1
      <4>2. k < session'[o].stdin[n + 1]
        BY <1>3, <3>1
      <4>3. \A j \in 1..(n + 1) : j \in 1..n \/ j = n + 1
        BY <1>3
      <4> QED
        BY <4>1, <4>2, <4>3, Zenon
    <3> QED
      BY <1>3, <1>4, <2>2, <3>1, <3>2 DEF Older
  <2> QED
    BY <2>1, <2>2
<1>5. SessionInOrder'
  <2> SUFFICES ASSUME NEW x \in Objs
               PROVE  /\ Increasing(session'[x].stdin)
                      /\ \A j \in 1..Len(session'[x].stdin) :
                            session'[x].stdin[j] <= typed' /\ session'[x].held < session'[x].stdin[j]
                      /\ session'[x].held <= typed'
    BY DEF SessionInOrder, Increasing
  <2>1. /\ Increasing(session[x].stdin) /\ session[x].held <= typed
        /\ \A j \in 1..Len(session[x].stdin) :
              session[x].stdin[j] <= typed /\ session[x].held < session[x].stdin[j]
    BY DEF OrderInv, SessionInOrder
  <2>2. CASE x # o
    BY <1>1, <1>2, <1>3, <2>1, <2>2, Numbers
  <2>3. CASE x = o
    <3>1. session[o].held < typed + 1 /\ \A j \in 1..n : session[o].stdin[j] < typed + 1
      BY <1>2, <2>1, <2>3, Numbers DEF n
    <3>2. ASSUME NEW i \in 1..(n + 1), NEW j \in 1..(n + 1), i < j
          PROVE  session'[o].stdin[i] < session'[o].stdin[j]
      <4>1. CASE j = n + 1
        BY <1>3, <3>1, <3>2, <4>1
      <4>2. CASE j # n + 1
        <5>1. i \in 1..n /\ j \in 1..n
          BY <1>3, <3>2, <4>2
        <5> QED
          BY <1>3, <2>1, <2>3, <3>2, <5>1 DEF Increasing, n
      <4> QED
        BY <4>1, <4>2
    <3> QED
      BY <1>1, <1>2, <1>3, <2>1, <2>3, <3>1, <3>2, Numbers DEF Increasing, n
  <2> QED
    BY <2>2, <2>3
<1>6. QueuesInOrder'
  BY <1>1, <1>4, Numbers DEF OrderInv, QueuesInOrder
<1>7. ArrivedLeft'
  BY <1>1, <1>4, Numbers DEF OrderInv, ArrivedLeft
<1> QED
  BY <1>1, <1>5, <1>6, <1>7 DEF OrderInv, CurrentIsAhead, NewConnIsEmpty, KeysInOrder

(* The oldest keystroke of the channel is what the forwarder holds.                               *)
LEMMA FwdRecvKeepsOrder ==
    ASSUME TypeOK, OrderInv, NEW o \in Objs, FwdRecv(o)
    PROVE  OrderInv'
<1> DEFINE stdin == session[o].stdin
<1>1. /\ UNCHANGED <<queue, arrived, typed, current, hub, conn>> /\ stdin # <<>>
      /\ session' = [session EXCEPT ![o].fwd = "send", ![o].held = Head(stdin), ![o].stdin = Tail(@)]
  BY DEF FwdRecv, hostVars
<1>2. session \in [Objs -> Session] /\ stdin \in Seq(Key)
  BY DEF TypeOK, Session
<1>3. /\ Len(stdin) \in Nat \ {0} /\ Len(session'[o].stdin) = Len(stdin) - 1
      /\ \A j \in 1..Len(session'[o].stdin) : session'[o].stdin[j] = stdin[j + 1]
      /\ session'[o].held = stdin[1]
      /\ \A x \in Objs \ {o} : session'[x] = session[x]
  BY <1>1, <1>2, TailMember DEF Session
<1>4. \A j \in 1..Len(session'[o].stdin) :
        j + 1 \in 1..Len(stdin) /\ session'[o].stdin[j] = session[o].stdin[j + 1]
  BY <1>3
<1>5. 1 \in 1..Len(stdin)
  BY <1>3
<1>6. ASSUME NEW x \in Objs, NEW k \in Nat, Older(k, x)
      PROVE  Older(k, x)'
  <2>1. CASE x # o
    BY <1>1, <1>3, <1>6, <2>1 DEF Older
  <2>2. CASE x = o
    <3>1. k <= typed' /\ k < session'[o].held
      BY <1>1, <1>3, <1>5, <1>6, <2>2 DEF Older
    <3>2. ASSUME NEW j \in 1..Len(session'[o].stdin) PROVE k < session'[o].stdin[j]
      BY <1>4, <1>6, <2>2, <3>2 DEF Older
    <3> QED
      BY <2>2, <3>1, <3>2 DEF Older
  <2> QED
    BY <2>1, <2>2
<1>7. SessionInOrder'
  <2> SUFFICES ASSUME NEW x \in Objs
               PROVE  /\ Increasing(session'[x].stdin)
                      /\ \A j \in 1..Len(session'[x].stdin) :
                            session'[x].stdin[j] <= typed' /\ session'[x].held < session'[x].stdin[j]
                      /\ session'[x].held <= typed'
    BY DEF SessionInOrder, Increasing
  <2>1. /\ Increasing(session[x].stdin) /\ session[x].held <= typed
        /\ \A j \in 1..Len(session[x].stdin) :
              session[x].stdin[j] <= typed /\ session[x].held < session[x].stdin[j]
    BY DEF OrderInv, SessionInOrder
  <2>2. CASE x # o
    BY <1>1, <1>3, <2>1, <2>2
  <2>3. CASE x = o
    <3>1. ASSUME NEW i \in 1..Len(session'[o].stdin), NEW j \in 1..Len(session'[o].stdin), i < j
          PROVE  session'[o].stdin[i] < session'[o].stdin[j]
      <4>1. i + 1 \in 1..Len(stdin) /\ j + 1 \in 1..Len(stdin) /\ i + 1 < j + 1
        BY <1>4, <3>1
      <4> QED
        BY <1>4, <2>1, <2>3, <4>1 DEF Increasing
    <3>2. ASSUME NEW j \in 1..Len(session'[o].stdin)
          PROVE  session'[o].held < session'[o].stdin[j]
      <4>1. j + 1 \in 1..Len(stdin) /\ 1 < j + 1
        BY <1>4, <3>2
      <4> QED
        BY <1>3, <1>4, <1>5, <2>1, <2>3, <4>1 DEF Increasing
    <3>3. session'[o].held <= typed' /\ \A j \in 1..Len(session'[o].stdin) : session'[o].stdin[j] <= typed'
      BY <1>1, <1>3, <1>4, <1>5, <2>1, <2>3
    <3> QED
      BY <2>3, <3>1, <3>2, <3>3 DEF Increasing
  <2> QED
    BY <2>2, <2>3
<1>8. QueuesInOrder'
  BY <1>1, <1>6, Numbers DEF OrderInv, QueuesInOrder
<1>9. ArrivedLeft'
  BY <1>1, <1>6, Numbers DEF OrderInv, ArrivedLeft
<1> QED
  BY <1>1, <1>7, <1>8, <1>9 DEF OrderInv, CurrentIsAhead, NewConnIsEmpty, KeysInOrder

(* The forwarder hands its keystroke to the connection the hub has: it is younger than whatever   *)
(* left the session before, and older than what waits.                                            *)
LEMMA FwdSendKeepsOrder ==
    ASSUME TypeOK, LockHeld, OrderInv, NEW o \in Objs, FwdPush(o)
    PROVE  OrderInv'
<1>1. /\ UNCHANGED <<arrived, typed, current, hub, conn>> /\ hub \in Conns /\ session[o].fwd = "send"
      /\ queue' = [queue EXCEPT ![hub] = Append(@,
            [o |-> o, sid |-> session[o].sid, key |-> session[o].held])]
      /\ session' = [session EXCEPT ![o].fwd = "recv", ![o].held = 0]
  BY NoneAssumption DEF FwdPush, LockHeld, hostVars, TypeOK
<1>2. session[o].held \in Nat \ {0} /\ session[o] \in Session /\ queue[hub] \in Seq(Input)
  BY <1>1, Numbers DEF TypeOK
<1> PICK key \in Nat \ {0} : key = session[o].held
  BY <1>2
<1> PICK h \in Conns : h = hub
  BY <1>1
<1> PICK n \in Nat : n = Len(queue[h])
  BY Numbers
<1>3. /\ session'[o].stdin = session[o].stdin /\ session'[o].held = 0
      /\ \A x \in Objs \ {o} : session'[x] = session[x]
  BY <1>1, <1>2 DEF TypeOK, Session
<1>4. /\ Len(queue'[h]) = n + 1 /\ \A i \in 1..n : queue'[h][i] = queue[h][i]
      /\ queue'[h][n + 1].o = o /\ queue'[h][n + 1].key = key
      /\ \A c \in Conns \ {h} : queue'[c] = queue[c]
  <2> DEFINE m == [o |-> o, sid |-> session[o].sid, key |-> session[o].held]
  <2>1. m.o = o /\ m.key = key
    OBVIOUS
  <2> HIDE DEF m
  <2>2. queue' = [queue EXCEPT ![h] = Append(@, m)] /\ queue \in [Conns -> Seq(Input)]
    BY <1>1 DEF m, TypeOK
  <2>3. queue'[h] = Append(queue[h], m) /\ \A c \in Conns \ {h} : queue'[c] = queue[c]
    BY <2>2
  <2>4. queue[h] \in Seq(Input \union {m})
    BY <1>2
  <2> QED
    BY <2>1, <2>3, <2>4, AppendMember
<1>5. /\ Increasing(session[o].stdin) /\ key <= typed
      /\ \A j \in 1..Len(session[o].stdin) :
            session[o].stdin[j] <= typed /\ key < session[o].stdin[j]
  BY DEF OrderInv, SessionInOrder
<1>6. ASSUME NEW x \in Objs, NEW k \in Nat, Older(k, x)
      PROVE  Older(k, x)'
  <2>1. CASE x # o
    BY <1>1, <1>3, <1>6, <2>1 DEF Older
  <2>2. CASE x = o
    BY <1>1, <1>3, <1>6, <2>2 DEF Older
  <2> QED
    BY <2>1, <2>2
<1>7. Older(key, o)'
  BY <1>1, <1>3, <1>5 DEF Older
<1>8. \A k \in Nat : Older(k, o) => k < key
  BY <1>2 DEF Older
<1>9. SessionInOrder'
  <2>1. ASSUME NEW x \in Objs
        PROVE  /\ Increasing(session'[x].stdin)
               /\ \A j \in 1..Len(session'[x].stdin) :
                     session'[x].stdin[j] <= typed' /\ session'[x].held < session'[x].stdin[j]
               /\ session'[x].held <= typed'
    <3>1. CASE x # o
      BY <1>1, <1>3, <3>1 DEF OrderInv, SessionInOrder
    <3>2. CASE x = o
      <4>1. session'[x].held = 0 /\ session'[x].stdin = session[o].stdin /\ typed' = typed
        BY <1>1, <1>3, <3>2
      <4>2. typed \in Nat /\ \A j \in 1..Len(session[o].stdin) : session[o].stdin[j] \in Nat
        BY Numbers
      <4>3. \A j \in 1..Len(session[o].stdin) : 0 < session[o].stdin[j]
        BY <1>5, <4>2
      <4> QED
        BY <1>5, <4>1, <4>2, <4>3
    <3> QED
      BY <3>1, <3>2
  <2> QED
    BY <2>1 DEF SessionInOrder, Increasing
<1>10. ArrivedLeft'
  BY <1>1, <1>6, Numbers DEF OrderInv, ArrivedLeft
<1>11. \A c \in Conns : \A i \in 1..Len(queue[c]) :
          /\ queue[c][i].o \in Objs /\ queue[c][i].key \in Nat
          /\ Older(queue[c][i].key, queue[c][i].o)
          /\ queue[c][i].o = o => queue[c][i].key < key
  BY <1>8, Numbers DEF OrderInv, QueuesInOrder
<1>12. QueuesInOrder'
  <2>1. ASSUME NEW c \in Conns, NEW i \in 1..Len(queue'[c])
        PROVE  \E x \in Objs : \E k \in Nat :
                  /\ x = queue'[c][i].o /\ k = queue'[c][i].key
                  /\ Older(k, x)'
    <3>1. CASE c = h /\ i = n + 1
      BY <1>4, <1>7, <3>1
    <3>2. CASE ~(c = h /\ i = n + 1)
      <4>1. i \in 1..Len(queue[c]) /\ queue'[c][i] = queue[c][i]
        BY <1>4, <3>2
      <4> QED
        BY <1>6, <1>11, <4>1
    <3> QED
      BY <3>1, <3>2
  <2>2. ASSUME NEW c \in Conns, NEW i \in 1..Len(queue'[c]), NEW j \in 1..Len(queue'[c]),
               i < j, queue'[c][i].o = queue'[c][j].o
        PROVE  queue'[c][i].key < queue'[c][j].key
    <3>1. CASE c = h /\ j = n + 1
      <4>1. i \in 1..Len(queue[c]) /\ queue'[c][i] = queue[c][i]
        BY <1>4, <2>2, <3>1
      <4> QED
        BY <1>4, <1>11, <2>2, <3>1, <4>1
    <3>2. CASE ~(c = h /\ j = n + 1)
      <4>1. /\ i \in 1..Len(queue[c]) /\ queue'[c][i] = queue[c][i]
            /\ j \in 1..Len(queue[c]) /\ queue'[c][j] = queue[c][j]
        BY <1>4, <2>2, <3>2
      <4> QED
        BY <2>2, <4>1 DEF OrderInv, QueuesInOrder
    <3> QED
      BY <3>1, <3>2
  <2>3. ASSUME NEW c \in Conns, NEW i \in 1..Len(queue'[c])
        PROVE  Older(queue[c][i].key, queue[c][i].o)'
    BY <2>1 DEF Older
  <2> QED
    BY <2>2, <2>3 DEF QueuesInOrder
<1>13. CurrentIsAhead'
  <2> SUFFICES ASSUME current # None, NEW i \in 1..Len(queue'[current]),
                      NEW k \in 1..Len(arrived[queue'[current][i].o])
               PROVE  arrived[queue'[current][i].o][k] < queue'[current][i].key
    BY <1>1 DEF CurrentIsAhead
  <2>1. current \in Conns
    BY DEF TypeOK
  <2>2. CASE current = h /\ i = n + 1
    <3>1. k \in 1..Len(arrived[o]) /\ queue'[current][i].o = o /\ queue'[current][i].key = key
      BY <1>4, <2>2
    <3>2. Older(arrived[o][k], o) /\ arrived[o][k] \in Nat
      BY <3>1, Numbers DEF OrderInv, ArrivedLeft
    <3> QED
      BY <1>8, <3>1, <3>2
  <2>3. CASE ~(current = h /\ i = n + 1)
    <3>1. i \in 1..Len(queue[current]) /\ queue'[current][i] = queue[current][i]
      BY <1>4, <2>1, <2>3
    <3> QED
      BY <3>1 DEF OrderInv, CurrentIsAhead
  <2> QED
    BY <2>2, <2>3
<1>14. NewConnIsEmpty'
  <2> SUFFICES ASSUME NEW c \in Conns, conn[c].pc \in {"off", "joining"}
               PROVE  queue'[c] = <<>> /\ hub # c
    BY <1>1 DEF NewConnIsEmpty
  <2> QED
    BY <1>4 DEF OrderInv, NewConnIsEmpty
<1> QED
  BY <1>1, <1>9, <1>10, <1>12, <1>13, <1>14 DEF OrderInv, KeysInOrder

(* The forwarder ends: its keystrokes are gone.                                                   *)
LEMMA FwdBreaksKeepsOrder ==
    ASSUME TypeOK, OrderInv, NEW o \in Objs, FwdBreaks(o)
    PROVE  OrderInv'
<1>1. UNCHANGED <<queue, arrived, typed, current, hub, conn>>
  BY DEF FwdBreaks, hostVars
<1>2. /\ \A j \in 1..Len(session'[o].stdin) : FALSE
      /\ session'[o].held = 0
      /\ \A x \in Objs \ {o} : session'[x] = session[x]
  <2>1. session' = [session EXCEPT ![o].fwd = "gone", ![o].held = 0, ![o].stdin = <<>>]
    BY DEF FwdBreaks
  <2>2. session \in [Objs -> Session] /\ session[o] \in Session
    BY DEF TypeOK
  <2>3. session'[o].stdin = <<>> /\ session'[o].held = 0 /\ \A x \in Objs \ {o} : session'[x] = session[x]
    BY <2>1, <2>2 DEF Session
  <2> QED
    BY <2>3
<1>3. ASSUME NEW x \in Objs, NEW k \in Nat, Older(k, x)
      PROVE  Older(k, x)'
  <2>1. CASE x # o
    BY <1>1, <1>2, <1>3, <2>1 DEF Older
  <2>2. CASE x = o
    <3>1. k <= typed' /\ session'[x].held = 0 /\ \A j \in 1..Len(session'[x].stdin) : FALSE
      BY <1>1, <1>2, <1>3, <2>2 DEF Older
    <3> QED
      BY <3>1 DEF Older
  <2> QED
    BY <2>1, <2>2
<1>4. SessionInOrder'
  <2> SUFFICES ASSUME NEW x \in Objs
               PROVE  /\ Increasing(session'[x].stdin)
                      /\ \A j \in 1..Len(session'[x].stdin) :
                            session'[x].stdin[j] <= typed' /\ session'[x].held < session'[x].stdin[j]
                      /\ session'[x].held <= typed'
    BY DEF SessionInOrder, Increasing
  <2>1. CASE x # o
    BY <1>1, <1>2, <2>1 DEF OrderInv, SessionInOrder
  <2>2. CASE x = o
    <3>1. /\ session'[x].held = 0 /\ typed' = typed /\ typed \in Nat
          /\ \A j \in 1..Len(session'[x].stdin) : FALSE
      BY <1>1, <1>2, <2>2, Numbers
    <3> QED
      BY <3>1 DEF Increasing
  <2> QED
    BY <2>1, <2>2
<1>5. QueuesInOrder'
  BY <1>1, <1>3, Numbers DEF OrderInv, QueuesInOrder
<1>6. ArrivedLeft'
  BY <1>1, <1>3, Numbers DEF OrderInv, ArrivedLeft
<1> QED
  BY <1>1, <1>4, <1>5, <1>6 DEF OrderInv, CurrentIsAhead, NewConnIsEmpty, KeysInOrder

-----------------------------------------------------------------------------
(* The theorems.                                                                                  *)

LEMMA StepKeepsOrder ==
    ASSUME Shape, OrderInv, [Next]_vars
    PROVE  OrderInv'
<1>0. TypeOK /\ LockHeld
  BY DEF Shape
<1>1. CASE UNCHANGED vars
  BY <1>0, <1>1, NothingMoves DEF vars, SameKeys, OrderInv, NewConnIsEmpty
<1>2. ASSUME NEW c \in Conns, HostConnect(c) PROVE OrderInv'
  BY <1>0, <1>2, ConnectKeepsOrder
<1>3. CASE HostDisconnect \/ HostSeesClose \/ HostLists
  <2>1. /\ UNCHANGED <<conn, hub, queue, session, typed, arrived>>
        /\ current' = current \/ current' = None
    BY <1>3 DEF HostDisconnect, HostSeesClose, HostLists, sessionVars
  <2> QED
    BY <1>0, <2>1, NothingMoves DEF SameKeys, OrderInv, NewConnIsEmpty
<1>4. ASSUME NEW i \in Sids, HostSpawn(i) \/ HostShellDies(i) PROVE OrderInv'
  <2>1. UNCHANGED <<current, conn, hub, queue, session, typed, arrived>>
    BY <1>4 DEF HostSpawn, HostShellDies, sessionVars
  <2> QED
    BY <1>0, <2>1, NothingMoves DEF SameKeys, OrderInv, NewConnIsEmpty
<1>5. ASSUME NEW c \in Conns, HubRegister(c) PROVE OrderInv'
  BY <1>0, <1>5, RegisterKeepsOrder
<1>6. ASSUME NEW c \in Conns, RecvReport(c) PROVE OrderInv'
  <2>1. SameKeys
    BY <1>6, RecvReportIsTyped DEF SameKeys
  <2>2. /\ UNCHANGED <<current, hub, queue, typed, arrived>>
        /\ conn' = conn \/ conn' = [conn EXCEPT ![c].pc = "beat"]
    BY <1>6 DEF RecvReport, RecvHeartbeat, RecvSpawnOk, RecvShellDied, RecvShellsList,
                hostVars, sessionVars
  <2>3. \A d \in Conns : conn'[d].pc \in {"off", "joining"} => conn[d].pc \in {"off", "joining"}
    BY <1>0, <2>2 DEF TypeOK
  <2> QED
    BY <1>0, <2>1, <2>2, <2>3, NothingMoves DEF OrderInv, NewConnIsEmpty
<1>13. ASSUME NEW c \in Conns, Beat(c) PROVE OrderInv'
  <2>1. /\ UNCHANGED <<current, hub, queue, session, typed, arrived>>
        /\ conn' = [conn EXCEPT ![c].pc = "loop", ![c].listed = TRUE]
    BY <1>13 DEF Beat, sessionVars
  <2>2. \A d \in Conns : conn'[d].pc \in {"off", "joining"} => conn[d].pc \in {"off", "joining"}
    BY <1>0, <2>1 DEF TypeOK
  <2> QED
    BY <1>0, <2>1, <2>2, NothingMoves DEF SameKeys, OrderInv, NewConnIsEmpty
<1>7. ASSUME NEW c \in Conns, Forward(c) PROVE OrderInv'
  BY <1>0, <1>7, ForwardKeepsOrder
<1>8. ASSUME NEW c \in Conns, EndLoop(c) PROVE OrderInv'
  <2>1. /\ UNCHANGED <<current, hub, queue, session, typed, arrived>>
        /\ conn' = [conn EXCEPT ![c].pc = "leaving"]
    BY <1>8 DEF EndLoop, hostVars, sessionVars
  <2>2. \A d \in Conns : conn'[d].pc \in {"off", "joining"} => conn[d].pc \in {"off", "joining"}
    BY <1>0, <2>1 DEF TypeOK
  <2> QED
    BY <1>0, <2>1, <2>2, NothingMoves DEF SameKeys, OrderInv, NewConnIsEmpty
<1>9. ASSUME NEW c \in Conns, Leave(c) PROVE OrderInv'
  BY <1>0, <1>9, LeaveKeepsOrder
<1>10. ASSUME NEW o \in Objs, Type(o) PROVE OrderInv'
  BY <1>0, <1>10, TypeKeepsOrder
<1>11. ASSUME NEW o \in Objs, Forwarder(o) PROVE OrderInv'
  <2>1. CASE FwdLock(o)
    <3>1. UNCHANGED <<current, conn, hub, queue, session, typed, arrived>>
      BY <2>1 DEF FwdLock, hostVars, sessionVars
    <3> QED
      BY <1>0, <3>1, NothingMoves DEF SameKeys, OrderInv, NewConnIsEmpty
  <2> QED
    BY <1>0, <1>11, <2>1, FwdRecvKeepsOrder, FwdSendKeepsOrder, FwdBreaksKeepsOrder DEF Forwarder
<1>12. ASSUME NEW o \in Objs, FwdDrained(o) PROVE OrderInv'
  <2>1. /\ UNCHANGED <<current, conn, hub, queue, typed, arrived>>
        /\ session' = [session EXCEPT ![o].fwd = "gone"]
    BY <1>12 DEF FwdDrained, hostVars
  <2>2. SameKeys
    BY <1>0, <2>1 DEF SameKeys, TypeOK, Session
  <2> QED
    BY <1>0, <2>1, <2>2, NothingMoves DEF OrderInv, NewConnIsEmpty
<1> QED
  BY <1>1, <1>2, <1>3, <1>4, <1>5, <1>6, <1>7, <1>8, <1>9, <1>10, <1>11, <1>12, <1>13 DEF Next

(* The inductive invariant: types, a shell for every session object that was registered, and the  *)
(* order in which the four places on a keystroke's way hold what was typed.                       *)
THEOREM InvariantHolds == Spec => []IInv
<1>1. Init => IInv
  BY InitInvariant
<1>2. IInv /\ [Next]_vars => IInv'
  BY StepIsTyped, StepKeepsOrder DEF IInv
<1> QED
  BY <1>1, <1>2, PTL DEF Spec

(* Types of the plane's state; a forwarder holds a keystroke exactly while it has one to send     *)
(* (`while let Some(data) = stdin_rx.recv().await` with the send in its body).                    *)
THEOREM TypeHolds == Spec => []TypeOK
<1>1. IInv => TypeOK
  BY DEF IInv, Shape
<1> QED
  BY <1>1, InvariantHolds, PTL

(* What clients type into a session reaches the shell in order and at most once, for any number   *)
(* of connections lost and made on the way: the forwarder sends to the one connection the hub has *)
(* and drops what it holds when there is none, and no queue outlives its connection.              *)
THEOREM KeysArriveInOrder == Spec => []KeysInOrder
<1>1. IInv => KeysInOrder
  BY DEF IInv, OrderInv
<1> QED
  BY <1>1, InvariantHolds, PTL

(* Once the hub is stuck - a forwarder with the mutex waits for room, and the task of that        *)
(* connection waits for the mutex - it stays so: no later step of anybody frees either.           *)
THEOREM StuckForEver == Spec => [][Stuck => Stuck']_vars
<1>1. ASSUME IInv, [Next]_vars, Stuck PROVE Stuck'
  <2>0. /\ TypeOK /\ lock # None /\ lock \in Objs /\ hub \in Conns /\ ~HasRoom(hub)
        /\ conn[hub].pc \in {"beat", "leaving"} /\ conn \in [Conns -> ConnType]
    BY <1>1 DEF IInv, Shape, LockHeld, TypeOK, ConnType, Stuck
  <2> SUFFICES UNCHANGED <<lock, hub>> /\ queue'[hub] = queue[hub] /\ conn'[hub] = conn[hub]
    BY <2>0 DEF Stuck, HasRoom
  <2>1. CASE UNCHANGED vars
    BY <2>1 DEF vars
  <2>2. ASSUME NEW c \in Conns, HostConnect(c)
        PROVE  UNCHANGED <<lock, hub>> /\ queue'[hub] = queue[hub] /\ conn'[hub] = conn[hub]
    <3>1. UNCHANGED <<lock, hub, queue>> /\ conn' = [conn EXCEPT ![c].pc = "joining"]
      BY <2>2 DEF HostConnect
    <3>2. conn[c].pc = "off"
      <4> DEFINE off == {d \in Conns : conn[d].pc = "off"}
      <4>1. c # None /\ c = FirstOf(off)
        BY <2>2, NoneAssumption DEF HostConnect
      <4>2. off # {} /\ c = CHOOSE u \in off : TRUE
        BY <4>1 DEF FirstOf
      <4>3. c \in off
        BY <4>2
      <4> QED
        BY <4>3
    <3> QED
      BY <2>0, <3>1, <3>2
  <2>3. CASE \/ HostDisconnect \/ HostSeesClose \/ HostLists
             \/ \E i \in Sids : HostSpawn(i) \/ HostShellDies(i)
             \/ \E o \in Objs : Type(o) \/ FwdRecv(o) \/ FwdDrained(o)
    BY <2>3 DEF HostDisconnect, HostSeesClose, HostLists, HostSpawn, HostShellDies,
                Type, FwdRecv, FwdDrained
  <2>4. ASSUME NEW c \in Conns, RecvReport(c)
        PROVE  UNCHANGED <<lock, hub>> /\ queue'[hub] = queue[hub] /\ conn'[hub] = conn[hub]
    <3>1. /\ UNCHANGED <<lock, hub, queue>> /\ conn[c].pc = "loop"
          /\ conn' = conn \/ conn' = [conn EXCEPT ![c].pc = "beat"]
      BY <2>4 DEF RecvReport, RecvHeartbeat, RecvSpawnOk, RecvShellDied, RecvShellsList, Receives
    <3> QED
      BY <2>0, <3>1
  <2>5. ASSUME NEW c \in Conns, Forward(c) \/ EndLoop(c)
        PROVE  UNCHANGED <<lock, hub>> /\ queue'[hub] = queue[hub] /\ conn'[hub] = conn[hub]
    <3>1. /\ UNCHANGED <<lock, hub>> /\ conn[c].pc = "loop"
          /\ queue' = queue \/ queue' = [queue EXCEPT ![c] = Tail(@)]
          /\ conn' = conn \/ \E pc \in {"loop", "leaving"} : conn' = [conn EXCEPT ![c].pc = pc]
      BY <2>5 DEF Forward, EndLoop
    <3> QED
      BY <2>0, <3>1 DEF TypeOK
  <2>6. ASSUME NEW c \in Conns, HubRegister(c) \/ Beat(c) \/ Leave(c) PROVE FALSE
    BY <2>0, <2>6 DEF HubRegister, Beat, Leave
  <2>7. ASSUME NEW o \in Objs, FwdLock(o) \/ FwdPush(o) \/ FwdBreaks(o) PROVE FALSE
    BY <2>0, <2>7 DEF FwdLock, FwdPush, FwdBreaks
  <2> QED
    BY <1>1, <2>1, <2>2, <2>3, <2>4, <2>5, <2>6, <2>7 DEF Next, Forwarder
<1> QED
  BY <1>1, InvariantHolds, PTL DEF Spec
=============================================================================
