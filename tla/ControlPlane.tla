----------------------------- MODULE ControlPlane -----------------------------
(***************************************************************************)
(* hermytt-transport/src/control_ws.rs over session.rs and control.rs: the *)
(* sessions of one remote host across lost connections.                    *)
(*                                                                         *)
(* The host runs shells and reports them; a connection's task turns each   *)
(* report into a managed session with a forwarder, a task of its own that  *)
(* takes the session's keystrokes to whichever connection the hub has for  *)
(* the host.  When a connection is lost the host connects again and is     *)
(* asked for its shells, so that sessions unknown here come back.          *)
(*                                                                         *)
(* A forwarder passes a keystroke on through hub.send_to, which takes the  *)
(* mutex of the hub and keeps it until a bounded queue has room; a task    *)
(* waits for the same mutex when it joins, leaves and handles a heartbeat. *)
(* The calls of spawn, which share the queue, are in ControlHub.           *)
(***************************************************************************)
EXTENDS Integers, Sequences, FiniteSets, SequencesExt

CONSTANTS
    Sids,         \* ids of the host's shells, which are their session ids
    Objs,         \* session objects, a bound on registrations
    Conns,        \* connections, a bound on reconnects
    MaxSessions,  \* SessionManager.max_sessions
    MaxKeys,      \* bound on the keystrokes typed, numbered as they come
    QueueCap,     \* room in a connection's queue (64 in the code)
    None

ASSUME MaxSessionsAssumption == MaxSessions \in Nat
ASSUME MaxKeysAssumption == MaxKeys \in Nat
ASSUME QueueCapAssumption == QueueCap \in Nat \ {0}
ASSUME NoneAssumption == None \notin Sids \union Objs \union Conns

VARIABLES
    shells,    \* external: the host's shells
    current,   \* external: the connection the host has open
    uplink,    \* what the host wrote to a connection and the task has not read
    toList,    \* connections on which list_shells reached the host
    conn,      \* each connection's task
    hub,       \* the connection whose sender the hub has for the host
    lock,      \* the forwarder that holds the hub's mutex across an await
    queue,     \* each connection's queue of keystrokes for the host
    sessions,  \* the map of the session manager
    session,   \* each session object: its keystrokes and its forwarder
    typed,     \* keystrokes typed so far
    arrived    \* external: the keystrokes the shells have read, by session

vars == <<shells, current, uplink, toList, conn, hub, lock, queue, sessions,
          session, typed, arrived>>
hostVars == <<shells, current, uplink, toList>>
sessionVars == <<sessions, session>>

Key == 1..MaxKeys
Input == [o : Objs, sid : Sids, key : Key]
Report == [type : {"spawn_ok", "shell_died"}, sid : Sids]
          \union [type : {"shells_list"}, sids : SUBSET Sids]

(* fwd: the forwarder waits for a keystroke ("recv"), has one to send      *)
(* ("send"), or has ended and dropped the receiver ("gone").               *)
Session == [sid : Sids \union {None}, fwd : {"unborn", "recv", "send", "gone"},
            stdin : Seq(Key), held : Key \union {0}]

TypeOK ==
    /\ shells \in [Sids -> {"unborn", "alive", "dead"}]
    /\ current \in Conns \union {None}
    /\ uplink \in [Conns -> Seq(Report)]
    /\ toList \in SUBSET Conns
    /\ conn \in [Conns -> [pc : {"off", "joining", "loop", "beat", "leaving",
                                 "closed"},
                           listed : BOOLEAN]]
    /\ hub \in Conns \union {None}
    /\ lock \in Objs \union {None}
    /\ queue \in [Conns -> Seq(Input)]
    /\ \A c \in Conns : Len(queue[c]) <= QueueCap
    /\ sessions \in [Sids -> Objs \union {None}]
    /\ session \in [Objs -> Session]
    /\ \A o \in Objs : session[o].held # 0 <=> session[o].fwd = "send"
    /\ typed \in 0..MaxKeys
    /\ arrived \in [Objs -> Seq(Key)]

(* Connections and objects are used in a fixed order: which unused one     *)
(* comes next makes no difference.                                         *)
FirstOf(unused) == IF unused = {} THEN None ELSE CHOOSE u \in unused : TRUE

Registered == {i \in Sids : sessions[i] # None}
Alive == {i \in Sids : shells[i] = "alive"}
Unborn == {o \in Objs : session[o].fwd = "unborn"}

Init ==
    /\ shells = [i \in Sids |-> "unborn"]
    /\ current = None
    /\ uplink = [c \in Conns |-> <<>>]
    /\ toList = {}
    /\ conn = [c \in Conns |-> [pc |-> "off", listed |-> FALSE]]
    /\ hub = None
    /\ lock = None
    /\ queue = [c \in Conns |-> <<>>]
    /\ sessions = [i \in Sids |-> None]
    /\ session = [o \in Objs |-> [sid |-> None, fwd |-> "unborn", stdin |-> <<>>,
                                  held |-> 0]]
    /\ typed = 0
    /\ arrived = [o \in Objs |-> <<>>]

-----------------------------------------------------------------------------
(* The host, as the code of src/ sees it: it keeps one connection, opens a *)
(* new one only when it has given up the last, reports shells that start   *)
(* and end to the connection it has, and answers list_shells.              *)
Say(report) == uplink' = [uplink EXCEPT ![current] = Append(@, report)]

HostConnect(c) ==
    /\ current = None
    /\ c = FirstOf({d \in Conns : conn[d].pc = "off"})
    /\ current' = c
    /\ conn' = [conn EXCEPT ![c].pc = "joining"]
    /\ UNCHANGED <<shells, uplink, toList, hub, lock, queue, sessionVars, typed,
                   arrived>>

HostDisconnect ==
    /\ current # None
    /\ current' = None
    /\ toList' = {}
    /\ UNCHANGED <<shells, uplink, conn, hub, lock, queue, sessionVars, typed, arrived>>

(* The task returned and closed the socket.                                *)
HostSeesClose ==
    /\ current # None
    /\ conn[current].pc = "closed"
    /\ current' = None
    /\ toList' = {}
    /\ UNCHANGED <<shells, uplink, conn, hub, lock, queue, sessionVars, typed, arrived>>

HostSpawn(i) ==
    /\ shells[i] = "unborn"
    /\ current # None
    /\ conn[current].pc # "joining"        \* it was asked through the hub
    /\ shells' = [shells EXCEPT ![i] = "alive"]
    /\ Say([type |-> "spawn_ok", sid |-> i])
    /\ UNCHANGED <<current, toList, conn, hub, lock, queue, sessionVars, typed, arrived>>

HostShellDies(i) ==
    /\ shells[i] = "alive"
    /\ shells' = [shells EXCEPT ![i] = "dead"]
    /\ IF current # None THEN Say([type |-> "shell_died", sid |-> i])
                         ELSE UNCHANGED uplink
    /\ UNCHANGED <<current, toList, conn, hub, lock, queue, sessionVars, typed, arrived>>

HostLists ==
    /\ current \in toList
    /\ toList' = toList \ {current}
    /\ Say([type |-> "shells_list", sids |-> Alive])
    /\ UNCHANGED <<shells, current, conn, hub, lock, queue, sessionVars, typed, arrived>>

-----------------------------------------------------------------------------
(* A connection's task.                                                    *)
HubRegister(c) ==
    /\ conn[c].pc = "joining"
    /\ lock = None
    /\ hub' = c
    /\ conn' = [conn EXCEPT ![c].pc = "loop"]
    /\ UNCHANGED <<hostVars, lock, queue, sessionVars, typed, arrived>>

(* The next report of the host is of this type.                            *)
Receives(c, type) ==
    /\ conn[c].pc = "loop"
    /\ uplink[c] # <<>>
    /\ Head(uplink[c]).type = type
    /\ uplink' = [uplink EXCEPT ![c] = Tail(@)]

(* The host's heartbeat, read once everything written before it was read.  *)
(* hub.heartbeat waits for the mutex, and until it has it the task reads   *)
(* neither its socket nor its queue.                                       *)
RecvHeartbeat(c) ==
    /\ conn[c].pc = "loop"
    /\ current = c
    /\ uplink[c] = <<>>
    /\ conn' = [conn EXCEPT ![c].pc = "beat"]
    /\ UNCHANGED <<hostVars, hub, lock, queue, sessionVars, typed, arrived>>

BeatListsOnce(c) ==              \* mutated: shells_requested outlives a connection
    /\ conn[c].pc = "beat"
    /\ lock = None
    /\ toList' = IF \E d \in Conns : conn[d].listed THEN toList
                 ELSE toList \union ({c} \intersect {current})
    /\ conn' = [conn EXCEPT ![c].pc = "loop", ![c].listed = TRUE]
    /\ UNCHANGED <<shells, current, uplink, hub, lock, queue, sessionVars, typed,
                   arrived>>

(* The first heartbeat of a connection makes the task send list_shells,    *)
(* which is lost when the host has given the socket up.                    *)
Beat(c) ==
    /\ conn[c].pc = "beat"
    /\ lock = None
    /\ toList' = IF conn[c].listed THEN toList
                 ELSE toList \union ({c} \intersect {current})
    /\ conn' = [conn EXCEPT ![c].pc = "loop", ![c].listed = TRUE]
    /\ UNCHANGED <<shells, current, uplink, hub, lock, queue, sessionVars, typed,
                   arrived>>

(* register_session then take_stdin_rx: each id that is not in the map     *)
(* becomes a session with a forwarder while the map has room; the rest is  *)
(* dropped without a word, in whatever order the ids come.                 *)
Adopt(ids) ==
    \E new \in SUBSET (ids \ Registered) :
        /\ Cardinality(Registered \union new) <= MaxSessions \/ new = {}
        /\ new = ids \ Registered \/ Cardinality(Registered \union new) >= MaxSessions
        /\ \E f \in [new -> Unborn] :
              /\ \A i, j \in new : f[i] = f[j] => i = j
              /\ FirstOf(Unborn) \in Range(f) \/ new = {}
              /\ sessions' = [i \in Sids |-> IF i \in new THEN f[i] ELSE sessions[i]]
              /\ session' = [o \in Objs |->
                    IF o \in Range(f)
                    THEN [session[o] EXCEPT !.sid = CHOOSE i \in new : f[i] = o,
                                            !.fwd = "recv"]
                    ELSE session[o]]

(* SpawnOk: the result of the registration is not looked at.               *)
RecvSpawnOk(c) ==
    /\ Receives(c, "spawn_ok")
    /\ Adopt({Head(uplink[c]).sid})
    /\ UNCHANGED <<shells, current, toList, conn, hub, lock, queue, typed, arrived>>

RecvShellsList(c) ==
    /\ Receives(c, "shells_list")
    /\ Adopt(Head(uplink[c]).sids)
    /\ UNCHANGED <<shells, current, toList, conn, hub, lock, queue, typed, arrived>>

RecvShellDied(c) ==
    /\ Receives(c, "shell_died")
    /\ sessions' = [sessions EXCEPT ![Head(uplink[c]).sid] = None]
    /\ UNCHANGED <<shells, current, toList, conn, hub, lock, queue, session, typed,
                   arrived>>

(* rx.recv and the write: what is written to a socket the host has given   *)
(* up is lost, and the write may fail and end the task.                    *)
Forward(c) ==
    LET m == Head(queue[c]) IN
    /\ conn[c].pc = "loop"
    /\ queue[c] # <<>>
    /\ queue' = [queue EXCEPT ![c] = Tail(@)]
    /\ \/ /\ current = c
          /\ arrived' = IF shells[m.sid] = "alive"
                        THEN [arrived EXCEPT ![m.o] = Append(@, m.key)] ELSE arrived
          /\ UNCHANGED conn
       \/ /\ current # c
          /\ \E pc \in {"loop", "leaving"} : conn' = [conn EXCEPT ![c].pc = pc]
          /\ UNCHANGED arrived
    /\ UNCHANGED <<hostVars, hub, lock, sessionVars, typed>>

(* The socket ended, with whatever was unread, or the hub let go of us.    *)
EndLoop(c) ==
    /\ conn[c].pc = "loop"
    /\ \/ current # c
       \/ hub # c /\ queue[c] = <<>>
    /\ conn' = [conn EXCEPT ![c].pc = "leaving"]
    /\ UNCHANGED <<hostVars, hub, lock, queue, sessionVars, typed, arrived>>

(* hub.unregister by name, and the end of the task.                        *)
Leave(c) ==
    /\ conn[c].pc = "leaving"
    /\ lock = None
    /\ hub' = None
    /\ conn' = [conn EXCEPT ![c].pc = "closed"]
    /\ queue' = [queue EXCEPT ![c] = <<>>]
    /\ uplink' = [uplink EXCEPT ![c] = <<>>]
    /\ UNCHANGED <<shells, current, toList, lock, sessionVars, typed, arrived>>

-----------------------------------------------------------------------------
(* A client types into a session it has a handle of; once the forwarder is *)
(* gone stdin_tx.send fails and nothing is typed.                          *)
Type(o) ==
    /\ session[o].fwd \in {"recv", "send"}
    /\ typed < MaxKeys
    /\ typed' = typed + 1
    /\ session' = [session EXCEPT ![o].stdin = Append(@, typed + 1)]
    /\ UNCHANGED <<hostVars, conn, hub, lock, queue, sessions, arrived>>

FwdRecv(o) ==
    /\ session[o].fwd = "recv"
    /\ session[o].stdin # <<>>
    /\ session' = [session EXCEPT ![o].fwd = "send",
                                  ![o].held = Head(session[o].stdin),
                                  ![o].stdin = Tail(@)]
    /\ UNCHANGED <<hostVars, conn, hub, lock, queue, sessions, typed, arrived>>

(* All senders are gone: the session left the map and no client has it.    *)
FwdDrained(o) ==
    /\ session[o].fwd = "recv"
    /\ session[o].stdin = <<>>
    /\ \A i \in Sids : sessions[i] # o
    /\ session' = [session EXCEPT ![o].fwd = "gone"]
    /\ UNCHANGED <<hostVars, conn, hub, lock, queue, sessions, typed, arrived>>

(* hub.send_to: the mutex, with the connection found under it, and then    *)
(* room in its queue, waited for with the mutex held.                      *)
HasRoom(c) == Len(queue[c]) < QueueCap

FwdLock(o) ==
    /\ session[o].fwd = "send"
    /\ lock = None
    /\ hub # None
    /\ lock' = o
    /\ UNCHANGED <<hostVars, conn, hub, queue, sessionVars, typed, arrived>>

FwdPush(o) ==
    /\ lock = o
    /\ HasRoom(hub)
    /\ queue' = [queue EXCEPT ![hub] =
          Append(@, [o |-> o, sid |-> session[o].sid, key |-> session[o].held])]
    /\ session' = [session EXCEPT ![o].fwd = "recv", ![o].held = 0]
    /\ lock' = None
    /\ UNCHANGED <<hostVars, conn, hub, sessions, typed, arrived>>

FwdBreaksHolding(o) ==           \* mutated: ends with the keystroke in hand
    /\ session[o].fwd = "send"
    /\ lock = None
    /\ hub = None
    /\ session' = [session EXCEPT ![o].fwd = "gone", ![o].stdin = <<>>]
    /\ UNCHANGED <<hostVars, conn, hub, lock, queue, sessions, typed, arrived>>

FwdRequeues(o) ==                \* mutated: puts the keystroke back and goes on
    /\ session[o].fwd = "send"
    /\ lock = None
    /\ hub = None
    /\ session' = [session EXCEPT ![o].fwd = "recv", ![o].held = 0,
                                  ![o].stdin = Append(@, session[o].held)]
    /\ UNCHANGED <<hostVars, conn, hub, lock, queue, sessions, typed, arrived>>

FwdWaits(o) ==                   \* mutated: waits for a host that may not return
    /\ session[o].fwd = "send"
    /\ lock = None
    /\ hub = None
    /\ UNCHANGED vars

(* send_to fails: the forwarder ends, its receiver and what is in it with  *)
(* it.  The session stays in the map.                                      *)
FwdBreaks(o) ==
    /\ session[o].fwd = "send"
    /\ lock = None
    /\ hub = None
    /\ session' = [session EXCEPT ![o].fwd = "gone", ![o].held = 0, ![o].stdin = <<>>]
    /\ UNCHANGED <<hostVars, conn, hub, lock, queue, sessions, typed, arrived>>

Forwarder(o) == FwdRecv(o) \/ FwdLock(o) \/ FwdPush(o) \/ FwdBreaks(o)

RecvReport(c) ==
    \/ RecvHeartbeat(c)
    \/ RecvSpawnOk(c)
    \/ RecvShellDied(c)
    \/ RecvShellsList(c)

Next ==
    \/ \E c \in Conns : HostConnect(c)
    \/ HostDisconnect
    \/ HostSeesClose
    \/ \E i \in Sids : HostSpawn(i)
    \/ \E i \in Sids : HostShellDies(i)
    \/ HostLists
    \/ \E c \in Conns : HubRegister(c)
    \/ \E c \in Conns : RecvReport(c)
    \/ \E c \in Conns : Beat(c)
    \/ \E c \in Conns : Forward(c)
    \/ \E c \in Conns : EndLoop(c)
    \/ \E c \in Conns : Leave(c)
    \/ \E o \in Objs : Type(o)
    \/ \E o \in Objs : Forwarder(o)
    \/ \E o \in Objs : FwdDrained(o)

(* Every task of hermytt makes progress when it can, and the branches of   *)
(* its select! are polled in random order, so that heartbeats for ever do  *)
(* not starve the queue's side: strong fairness.  The mutex is handed out  *)
(* in order; MaxKeys lets it be taken finitely often, and so weak fairness *)
(* says the same of it.  Of the host: it answers list_shells, beats on a   *)
(* connection it keeps and notices that its socket was closed.             *)
Fairness ==
    /\ WF_vars(HostLists) /\ WF_vars(HostSeesClose)
    /\ \A c \in Conns :
          /\ WF_vars(HubRegister(c) \/ Beat(c) \/ Leave(c))
          /\ WF_vars(RecvReport(c))
          /\ SF_vars(Forward(c) \/ EndLoop(c))
    /\ \A o \in Objs : WF_vars(Forwarder(o))

Spec == Init /\ [][Next]_vars /\ Fairness

-----------------------------------------------------------------------------
(* What a client types into a session reaches the shell in order and at    *)
(* most once, however often the connection is lost on the way.             *)
KeysInOrder ==
    \A o \in Objs : \A j, k \in 1..Len(arrived[o]) :
        j < k => arrived[o][j] < arrived[o][k]

(* A forwarder holds the mutex and waits for room, and the task that would *)
(* make room waits for the mutex: neither moves again, nor does anybody    *)
(* else who needs the hub (control.rs:206-210 against control_ws.rs:93 and *)
(* 219).  Once the hub is stuck it stays so.                               *)
Stuck ==
    /\ lock # None
    /\ ~HasRoom(hub)
    /\ conn[hub].pc \in {"beat", "leaving"}

(* Nothing a client typed stays in the session for ever: it is passed on,  *)
(* or the forwarder has ended and takes no more, or else the hub is stuck. *)
KeysLeaveSession ==
    \A o \in Objs :
        session[o].stdin # <<>> \/ session[o].fwd = "send" ~>
            \/ session[o].stdin = <<>> /\ session[o].fwd # "send"
            \/ Stuck

(* "session recovery" (control_ws.rs:105): a shell that stays alive on a   *)
(* host whose connection stays up ends in the list of sessions, whatever   *)
(* connections and reports were lost before, unless the list is full or    *)
(* the hub is stuck.                                                       *)
LiveShellsListed ==
    \A i \in Sids : \A c \in Conns :
        <>[](current = c /\ shells[i] = "alive") =>
            <>(i \in Registered \/ Cardinality(Registered) >= MaxSessions \/ Stuck)

(* "stdin forwarder spawned on shells_list recovery"                       *)
(* (hermytt-server/tests/regression.rs:479): once a host's list has been   *)
(* dealt with, a listed session takes keystrokes.                          *)
RecoveredTakesInput ==
    [][\A c \in Conns :
          RecvShellsList(c) =>
             \A i \in Head(uplink[c]).sids :
                sessions'[i] # None => session'[sessions'[i]].fwd # "gone"]_vars

(* "Register the managed session so it appears in /sessions"               *)
(* (control_ws.rs:113): a spawn answered with a session id has a session.  *)
ReportedSpawnHasSession ==
    [][\A c \in Conns :
          RecvSpawnOk(c) => sessions'[Head(uplink[c]).sid] # None]_vars
=============================================================================
