--------------------------- MODULE SessionManager ---------------------------
(***************************************************************************)
(* hermytt-core/src/session.rs: the table of terminal sessions.            *)
(*                                                                         *)
(* A session is an object (`Arc<Session>`) stored in a map from session id *)
(* to object behind a tokio RwLock.  It is either a PTY session, whose     *)
(* shell this process started and whose receiver for keystrokes feeds the  *)
(* PTY, or a managed session, whose shell runs elsewhere and whose         *)
(* receiver waits to be taken by a pipe or a forwarder.                    *)
(*                                                                         *)
(* Every operation but two is one critical section of the lock and is one  *)
(* action here.  default_session gives the lock up between looking and     *)
(* creating, and cleanup_dead scans under the read lock, gives it up, and  *)
(* removes the ids it noted under the write lock.                          *)
(***************************************************************************)
EXTENDS Integers, FiniteSets

CONSTANTS
    Ids,          \* session ids; a PTY session draws a UUID never used before
    Objs,         \* session objects, a bound on the sessions ever created
    Callers,      \* tasks that ask for the default session
    MaxSessions,  \* SessionManager.max_sessions
    None

ASSUME MaxSessionsAssumption == MaxSessions \in Nat
ASSUME NoneAssumption == None \notin Objs /\ None \notin Ids

VARIABLES
    sessions,    \* the map: for each id the object stored under it, or None
    object,      \* for each object its fields and the state of its shell
    cleaner,     \* the task that runs cleanup_dead every five seconds
    defaulting   \* callers of default_session that saw an empty map

vars == <<sessions, object, cleaner, defaulting>>

(* child: "running"; "exited" when the shell is dead and a job it left     *)
(* behind still has the terminal open; "gone" when nobody has; "none" for  *)
(* a managed session.  stdin says who has the receiver of keystrokes,      *)
(* reader whether the thread that reads the PTY runs, farewell whether the *)
(* exit sentinel was broadcast to the session's clients.                   *)
Object == [kind : {"unborn", "pty", "managed"}, id : Ids \union {None},
           child : {"none", "running", "exited", "gone"},
           stdin : {"session", "writer", "pipe"},
           reader : BOOLEAN, farewell : BOOLEAN]

TypeOK ==
    /\ sessions \in [Ids -> Objs \union {None}]
    /\ object \in [Objs -> Object]
    /\ \A o \in Objs : object[o].kind # "unborn" => object[o].id \in Ids
    /\ cleaner \in [pc : {"idle", "scan", "remove"},
                    todo : SUBSET Ids, dead : SUBSET Ids]
    /\ defaulting \in SUBSET Callers

Registered == {i \in Ids : sessions[i] # None}

(* The map owns the only lasting reference to an object: one that is not   *)
(* in the map has been dropped, and the slave end of its PTY with it.      *)
Dropped(o) == \A i \in Ids : sessions[i] # o

(* No writer gets the lock while the scan holds it for reading.            *)
WriteLockFree == cleaner.pc # "scan"

UnusedIds == {i \in Ids : sessions[i] = None}   \* mutated: may be an old session's

FreshIds == {i \in Ids : \A o \in Objs : object[o].id # i}

Init ==
    /\ sessions = [i \in Ids |-> None]
    /\ object = [o \in Objs |-> [kind |-> "unborn", id |-> None, child |-> "none",
                                 stdin |-> "session", reader |-> FALSE,
                                 farewell |-> FALSE]]
    /\ cleaner = [pc |-> "idle", todo |-> {}, dead |-> {}]
    /\ defaulting = {}

-----------------------------------------------------------------------------
StartPtyWithoutId(o, i) ==          \* mutated: the id is not set yet
    object' = [object EXCEPT ![o] =
        [kind |-> "pty", id |-> None, child |-> "running", stdin |-> "writer",
         reader |-> TRUE, farewell |-> FALSE]]

(* A PTY session is built, started and inserted under one write lock.      *)
StartPty(o, i) ==
    object' = [object EXCEPT ![o] =
        [kind |-> "pty", id |-> i, child |-> "running", stdin |-> "writer",
         reader |-> TRUE, farewell |-> FALSE]]

HasRoomOffByOne == Cardinality(Registered) <= MaxSessions    \* mutated

HasRoom == Cardinality(Registered) < MaxSessions

InsertPty ==
    /\ WriteLockFree
    /\ HasRoom
    /\ \E o \in Objs, i \in FreshIds :
          /\ object[o].kind = "unborn"
          /\ StartPty(o, i)
          /\ sessions' = [sessions EXCEPT ![i] = o]

CreateSession == InsertPty /\ UNCHANGED <<cleaner, defaulting>>

RegisterSessionNoDuplicateCheck(i) ==        \* mutated
    /\ WriteLockFree
    /\ HasRoom
    /\ \E o \in Objs :
          /\ object[o].kind = "unborn"
          /\ object' = [object EXCEPT ![o] =
                [kind |-> "managed", id |-> i, child |-> "none",
                 stdin |-> "session", reader |-> FALSE, farewell |-> FALSE]]
          /\ sessions' = [sessions EXCEPT ![i] = o]
    /\ UNCHANGED <<cleaner, defaulting>>

(* register_session: the id comes from the caller and may be any that is   *)
(* not in the map, one that an earlier session had included.               *)
RegisterSession(i) ==
    /\ WriteLockFree
    /\ HasRoom
    /\ sessions[i] = None
    /\ \E o \in Objs :
          /\ object[o].kind = "unborn"
          /\ object' = [object EXCEPT ![o] =
                [kind |-> "managed", id |-> i, child |-> "none",
                 stdin |-> "session", reader |-> FALSE, farewell |-> FALSE]]
          /\ sessions' = [sessions EXCEPT ![i] = o]
    /\ UNCHANGED <<cleaner, defaulting>>

(* unregister_session, on a PTY session as well as on a managed one: the   *)
(* clients get the sentinel, a live shell is not killed.                   *)
UnregisterSession(i) ==
    /\ WriteLockFree
    /\ sessions[i] # None
    /\ sessions' = [sessions EXCEPT ![i] = None]
    /\ object' = [object EXCEPT ![sessions[i]].farewell = TRUE]
    /\ UNCHANGED <<cleaner, defaulting>>

TakeStdinRx(i) ==
    /\ sessions[i] # None
    /\ object[sessions[i]].stdin = "session"
    /\ object' = [object EXCEPT ![sessions[i]].stdin = "pipe"]
    /\ UNCHANGED <<sessions, cleaner, defaulting>>

(* default_session returns a session of the map when there is one; when    *)
(* there is none the caller drops the read lock and goes on to create.     *)
DefaultSession(c) ==
    /\ c \notin defaulting
    /\ Registered = {}
    /\ defaulting' = defaulting \union {c}
    /\ UNCHANGED <<sessions, object, cleaner>>

DefaultCreate(c) ==
    /\ c \in defaulting
    /\ defaulting' = defaulting \ {c}
    /\ \/ InsertPty
       \/ /\ WriteLockFree
          /\ ~HasRoom                 \* "max sessions reached"
          /\ UNCHANGED <<sessions, object>>
    /\ UNCHANGED cleaner

-----------------------------------------------------------------------------
(* The shell of a PTY session ends, by itself or hung up by a client, with *)
(* or without leaving jobs that keep the terminal open.                    *)
ShellExits(o) ==
    /\ object[o].child = "running"
    /\ \E c \in {"exited", "gone"} : object' = [object EXCEPT ![o].child = c]
    /\ UNCHANGED <<sessions, cleaner, defaulting>>

JobsExit(o) ==
    /\ object[o].child = "exited"
    /\ object' = [object EXCEPT ![o].child = "gone"]
    /\ UNCHANGED <<sessions, cleaner, defaulting>>

TerminalClosedByShell(o) == object[o].child = "gone"   \* mutated: slave not held

(* The reader thread sees the end of the PTY only when no slave end is     *)
(* open: the Session object holds one until it is dropped.                 *)
TerminalClosed(o) == object[o].child = "gone" /\ Dropped(o)

ReaderEofSilent(o) ==            \* mutated: the error arm sends no sentinel
    /\ object[o].reader
    /\ TerminalClosed(o)
    /\ object' = [object EXCEPT ![o].reader = FALSE]
    /\ UNCHANGED <<sessions, cleaner, defaulting>>

ReaderEof(o) ==
    /\ object[o].reader
    /\ TerminalClosed(o)
    /\ object' = [object EXCEPT ![o].reader = FALSE, ![o].farewell = TRUE]
    /\ UNCHANGED <<sessions, cleaner, defaulting>>

-----------------------------------------------------------------------------
(* cleanup_dead.                                                           *)
IsAlive(o) == object[o].kind = "managed" \/ object[o].child = "running"

CleanupBegin ==
    /\ cleaner.pc = "idle"
    /\ cleaner' = [pc |-> "scan", todo |-> Registered, dead |-> {}]
    /\ UNCHANGED <<sessions, object, defaulting>>

CleanupScan(i) ==
    /\ cleaner.pc = "scan"
    /\ i \in cleaner.todo
    /\ cleaner' = [cleaner EXCEPT
          !.todo = @ \ {i},
          !.dead = IF IsAlive(sessions[i]) THEN @ ELSE @ \union {i}]
    /\ UNCHANGED <<sessions, object, defaulting>>

CleanupRelease ==
    /\ cleaner.pc = "scan"
    /\ cleaner.todo = {}
    /\ cleaner' = [cleaner EXCEPT !.pc = IF cleaner.dead = {} THEN "idle" ELSE "remove"]
    /\ UNCHANGED <<sessions, object, defaulting>>

CleanupRemove ==
    /\ cleaner.pc = "remove"
    /\ sessions' = [i \in Ids |-> IF i \in cleaner.dead THEN None ELSE sessions[i]]
    /\ cleaner' = [pc |-> "idle", todo |-> {}, dead |-> {}]
    /\ UNCHANGED <<object, defaulting>>

Cleanup ==
    \/ CleanupBegin
    \/ \E i \in Ids : CleanupScan(i)
    \/ CleanupRelease
    \/ CleanupRemove

Next ==
    \/ CreateSession
    \/ \E i \in Ids : RegisterSession(i)
    \/ \E i \in Ids : UnregisterSession(i)
    \/ \E i \in Ids : TakeStdinRx(i)
    \/ \E c \in Callers : DefaultSession(c)
    \/ \E c \in Callers : DefaultCreate(c)
    \/ \E o \in Objs : ShellExits(o)
    \/ \E o \in Objs : JobsExit(o)
    \/ \E o \in Objs : ReaderEof(o)
    \/ Cleanup

(* The cleaner is a task of the server with a five-second interval and the *)
(* reader a thread of its own; shells and requests owe nobody anything.    *)
Fairness ==
    /\ WF_vars(Cleanup)
    /\ \A o \in Objs : WF_vars(ReaderEof(o))

Spec == Init /\ [][Next]_vars /\ Fairness

-----------------------------------------------------------------------------
(* The map never holds more than MaxSessions sessions, whichever of the    *)
(* three ways of creating one raced (create, register, default): the check *)
(* and the insert are in one critical section (session.rs:289).            *)
CapacityBound == IsFiniteSet(Registered) /\ Cardinality(Registered) <= MaxSessions

(* An object is stored under its own id, so a handle, the scrollback and   *)
(* the id a client names belong together; and an id that a managed session *)
(* names never displaces the session that has it: a session that loses its *)
(* place in the map leaves it empty, and its clients get the farewell or   *)
(* the cleaner took it (session.rs:347-352).                               *)
NoSilentDisplacement ==
    [][\A i \in Ids :
          sessions[i] # None /\ sessions'[i] # sessions[i] =>
             /\ object[sessions[i]].id = i
             /\ sessions'[i] = None
             /\ \/ object'[sessions[i]].farewell
                \/ cleaner.pc = "remove"]_vars

(* The internal pipe can never take the keystrokes of a PTY session away   *)
(* from its shell, whatever the order of requests: take_stdin_rx "Returns  *)
(* None if already taken or if this is a PTY session" (session.rs:375).    *)
PtyStdinNotStolen == \A o \in Objs : object[o].kind = "pty" => object[o].stdin = "writer"

(* A client that was told its shell is gone does not find the PTY session  *)
(* in the list: the reader cannot send the sentinel while the map still    *)
(* holds the session, because the session holds the slave end of the PTY.  *)
(* (Of a managed session a host's report says so a moment before it        *)
(* leaves the map, control_ws.rs:149-154; that sender is not modelled.)    *)
FarewellMeansGone ==
    \A i \in Registered :
        object[sessions[i]].kind = "pty" => ~object[sessions[i]].farewell

(* cleanup_dead acts on ids it noted before it gave the lock up.  It never *)
(* removes a PTY session whose shell runs, because no PTY session ever     *)
(* gets an id that was in use before.                                      *)
CleanupSparesLivePty ==
    [][\A i \in Registered :
          CleanupRemove /\ i \in cleaner.dead => object[sessions[i]].child # "running"]_vars

(* A session whose shell has died leaves the map, jobs or no jobs; and the *)
(* clients of one whose terminal nobody has open any more get the exit     *)
(* sentinel, though neither the exit of the shell nor the cleaner sends    *)
(* one: the cleaner drops the session, and that lets the reader see the    *)
(* end of the PTY.                                                         *)
DeadShellFarewell ==
    \A o \in Objs :
        /\ object[o].child \in {"exited", "gone"} ~> Dropped(o)
        /\ object[o].child = "gone" ~> object[o].farewell
=============================================================================
