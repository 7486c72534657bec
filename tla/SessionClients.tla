---------------------------- MODULE SessionClients ----------------------------
(* Those who follow the managed sessions by name: the attach loop of mqtt_pty.rs, which polls the *)
(* list of sessions, and the recordings of rest.rs and recording.rs, which a map keeps by name.   *)
(* A name may be unregistered and registered again: each registration is another session, told    *)
(* apart by its number.  Unregistering a session sends the exit sentinel to those who have        *)
(* subscribed; one who subscribes later learns of the end only when the channel closes, which it  *)
(* does once nobody holds the session's handle.  What a session sends before is OutputPlane's.    *)
EXTENDS Naturals, FiniteSets

CONSTANTS Ids,
          MaxSessions,  \* bound on the registrations
          MaxRequests   \* bound on the recordings ever asked for

ASSUME ClientsAssumption == {MaxSessions, MaxRequests} \subseteq Nat /\ Ids # {}

VARIABLES listed,       \* the manager's map: the session of each name in it
          last,         \* the number of the last session
          poll,         \* the attach loop: the names it listed, and those it has yet to look at
          attached,     \* its HashSet
          forwarder,    \* the forwarders' tasks of each session
          recordings,   \* AppState.recordings: the request whose handle it holds, by name
          request,      \* start_recording's handlers, with the recorder each started
          served        \* names attached since the loop last listed without them: history

mqtt == <<poll, attached, forwarder, served>>
recording == <<recordings, request>>
vars == <<listed, last, mqtt, recording>>

Sessions == 1..MaxSessions
Requests == 1..MaxRequests      \* in the order in which they come
On(id) == IF id \in DOMAIN listed THEN {listed[id]} ELSE {}
Over(s) == s <= last /\ \A id \in DOMAIN listed : listed[id] # s

(* handler: creating the file, holding the handle of a running recorder, answered.  farewell: how *)
(* a recorder learns that its session is over, once it is - by the sentinel, which it has yet to  *)
(* read, or without one by the closed channel, which closes once nobody has the session's handle, *)
(* and not while an internal pipe or a terminal that looked the session up stays connected.       *)
RequestType == [handler : {"none", "creating", "inserting", "answered"},
                id : Ids, session : 0..MaxSessions,
                recorder : {"none", "running", "ended"},
                farewell : {"sentinel", "closed", "held open"},
                stop : {"open", "sent", "dropped"}]

(* start_recording has the handle of the session until it answers.                                *)
Handled(s) ==
  \E r \in Requests : request[r].handler \in {"creating", "inserting"} /\ request[r].session = s

TypeOK ==
  /\ DOMAIN listed \subseteq Ids /\ \A id \in DOMAIN listed : listed[id] \in 1..last
  /\ \A id1, id2 \in DOMAIN listed : listed[id1] = listed[id2] => id1 = id2
  /\ last \in 0..MaxSessions
  /\ poll \in [pc : {"list", "attach"}, ids : SUBSET Ids, left : SUBSET Ids]
  /\ poll.left \subseteq poll.ids
  /\ attached \cup served \subseteq Ids
  /\ forwarder \in [Sessions -> Nat] /\ \A s \in Sessions : forwarder[s] > 0 => s <= last
  /\ request \in [Requests -> RequestType]
  /\ DOMAIN recordings \subseteq Ids
  /\ \A id \in DOMAIN recordings :
       LET r == request[recordings[id]]
       IN r.handler = "answered" /\ r.id = id /\ r.stop = "open" /\ r.recorder # "none"

FirstId == CHOOSE id \in Ids : TRUE

Init ==
  /\ listed = [id \in {} |-> 0] /\ last = 0
  /\ poll = [pc |-> "list", ids |-> {}, left |-> {}]
  /\ attached = {} /\ forwarder = [s \in Sessions |-> 0] /\ served = {}
  /\ recordings = [id \in {} |-> id]
  /\ request = [r \in Requests |-> [handler |-> "none", id |-> FirstId,
                                    session |-> 0, recorder |-> "none", farewell |-> "sentinel",
                                    stop |-> "open"]]

With(f, id, v) == [x \in DOMAIN f \cup {id} |-> IF x = id THEN v ELSE f[x]]
Without(f, id) == [x \in DOMAIN f \ {id} |-> f[x]]

-------------------------------------------------------------------------------
(* The manager *)

(* Names are alike.  Bound: the same one is always the first.                                     *)
Register(id) ==
  /\ id \notin DOMAIN listed /\ last < MaxSessions /\ (last = 0 => id = FirstId)
  /\ last' = last + 1 /\ listed' = With(listed, id, last')
  /\ UNCHANGED <<mqtt, recording>>

Unregister(id) ==
  /\ id \in DOMAIN listed /\ listed' = Without(listed, id)
  /\ UNCHANGED <<last, mqtt, recording>>

-------------------------------------------------------------------------------
(* The attach loop *)

Poll ==
  /\ poll.pc = "list"
  /\ poll' = [pc |-> "attach", ids |-> DOMAIN listed, left |-> DOMAIN listed]
  /\ served' = served \cap DOMAIN listed
  /\ UNCHANGED <<listed, last, attached, forwarder, recording>>

AttachUnnoted(id) ==        \* mutated
  /\ poll.pc = "attach" /\ id \in poll.left
  /\ poll' = [poll EXCEPT !.left = @ \ {id}]
  /\ IF id \in attached \/ id \notin DOMAIN listed
     THEN UNCHANGED <<attached, forwarder, served>>
     ELSE /\ forwarder' = [forwarder EXCEPT ![listed[id]] = @ + 1]
          /\ served' = served \cup {id}
          /\ UNCHANGED attached
  /\ UNCHANGED <<listed, last, recording>>

(* Names come in the order of a HashMap.  One that is gone is passed over; whatever session has   *)
(* the name by now is subscribed to.  Bound: the announcement and the forwarder's publications    *)
(* wait for no broker.                                                                            *)
Attach(id) ==
  /\ poll.pc = "attach" /\ id \in poll.left
  /\ poll' = [poll EXCEPT !.left = @ \ {id}]
  /\ IF id \in attached \/ id \notin DOMAIN listed
     THEN UNCHANGED <<attached, forwarder, served>>
     ELSE /\ forwarder' = [forwarder EXCEPT ![listed[id]] = @ + 1]
          /\ served' = served \cup {id}
          /\ attached' = attached \cup {id}
  /\ UNCHANGED <<listed, last, recording>>

RetainAll ==                \* mutated
  /\ poll.pc = "attach" /\ poll.left = {}
  /\ poll' = [poll EXCEPT !.pc = "list", !.ids = {}]
  /\ UNCHANGED <<listed, last, attached, forwarder, served, recording>>

(* What the loop forgets is decided by the list it began with.                                    *)
Retain ==
  /\ poll.pc = "attach" /\ poll.left = {}
  /\ attached' = attached \cap poll.ids
  /\ poll' = [poll EXCEPT !.pc = "list", !.ids = {}]
  /\ UNCHANGED <<listed, last, forwarder, served, recording>>

(* A forwarder announces the exit and ends.                                                       *)
Detach(s) ==
  /\ forwarder[s] > 0 /\ Over(s)
  /\ forwarder' = [forwarder EXCEPT ![s] = @ - 1]
  /\ UNCHANGED <<listed, last, poll, attached, served, recording>>

-------------------------------------------------------------------------------
(* Recordings *)

(* A name that has an entry is "already being recorded", and one that has no session is not       *)
(* found; the lock is released before the file is created.                                        *)
StartRecording(r, id) ==
  /\ request[r].handler = "none" /\ \A q \in 1..r - 1 : request[q].handler # "none"
  /\ id \in DOMAIN listed /\ id \notin DOMAIN recordings
  /\ request' = [request EXCEPT ![r] = [@ EXCEPT !.handler = "creating", !.id = id,
                                                !.session = listed[id]]]
  /\ UNCHANGED <<listed, last, mqtt, recordings>>

(* The file cannot be created, or the client went while it was.                                   *)
CreateFails(r) ==
  /\ request[r].handler = "creating"
  /\ request' = [request EXCEPT ![r].handler = "answered"]
  /\ UNCHANGED <<listed, last, mqtt, recordings>>

(* With the file created the handler subscribes through the handle it looked up.  The session may *)
(* be over by then, its sentinel sent, with or without a pipe that is still connected.            *)
SpawnRecorder(r) ==
  /\ request[r].handler = "creating"
  /\ \E how \in IF Over(request[r].session) THEN {"closed", "held open"} ELSE {"sentinel"} :
       request' = [request EXCEPT ![r].handler = "inserting", ![r].recorder = "running",
                                  ![r].farewell = how]
  /\ UNCHANGED <<listed, last, mqtt, recordings>>

(* What a recorder finds in its stop channel; one that has ended looks for nothing.               *)
Stopped(q, how) ==
  IF request[q].recorder = "running" THEN [request[q] EXCEPT !.stop = how] ELSE request[q]

(* The client goes while the handler waits for the map: the recorder's handle goes with it.       *)
RequestDropped(r) ==
  /\ request[r].handler = "inserting"
  /\ request' = [request EXCEPT ![r] = [Stopped(r, "dropped") EXCEPT !.handler = "answered"]]
  /\ UNCHANGED <<listed, last, mqtt, recordings>>

(* An entry that another request made since is replaced, and its handle dropped.                  *)
InsertRecording(r) ==
  LET id == request[r].id
      replaced(q) == id \in DOMAIN recordings /\ recordings[id] = q
  IN /\ request[r].handler = "inserting"
     /\ recordings' = With(recordings, id, r)
     /\ request' = [q \in Requests |->
                      IF q = r THEN [request[q] EXCEPT !.handler = "answered"]
                      ELSE IF replaced(q) THEN Stopped(q, "dropped")
                      ELSE request[q]]
     /\ UNCHANGED <<listed, last, mqtt>>

StopKeepingEntry(id) ==     \* mutated
  /\ id \in DOMAIN recordings
  /\ request' = [request EXCEPT ![recordings[id]] = Stopped(recordings[id], "sent")]
  /\ UNCHANGED <<recordings, listed, last, mqtt>>

(* It answers after 100 ms, whether or not the recorder has ended.                                *)
StopRecording(id) ==
  /\ id \in DOMAIN recordings
  /\ recordings' = Without(recordings, id)
  /\ request' = [request EXCEPT ![recordings[id]] = Stopped(recordings[id], "sent")]
  /\ UNCHANGED <<listed, last, mqtt>>

Ended(r) == /\ request' = [request EXCEPT ![r] = [@ EXCEPT !.recorder = "ended", !.stop = "open",
                                                          !.farewell = "sentinel"]]
            /\ UNCHANGED <<listed, last, mqtt, recordings>>

(* The sentinel, or the closed channel without it, ends a recorder.                               *)
SessionOver(r) ==
  LET s == request[r].session
  IN Over(s) /\ CASE request[r].farewell = "sentinel"  -> TRUE
                  [] request[r].farewell = "closed"    -> ~Handled(s)
                  [] request[r].farewell = "held open" -> FALSE

EndsOnCommand(r) ==         \* mutated
  /\ request[r].recorder = "running"
  /\ request[r].stop = "sent" \/ SessionOver(r)
  /\ Ended(r)

(* So does a stop command, or a handle that is dropped.                                           *)
RecorderEnds(r) ==
  /\ request[r].recorder = "running"
  /\ request[r].stop # "open" \/ SessionOver(r)
  /\ Ended(r)

FarewellIs(r, how) == /\ request' = [request EXCEPT ![r].farewell = how]
                      /\ UNCHANGED <<listed, last, mqtt, recordings>>

(* A pipe that is still connected sends more than the channel holds before the recorder has read  *)
(* the sentinel: it lags past it.                                                                 *)
RecorderLags(r) ==
  /\ request[r].recorder = "running" /\ Over(request[r].session)
  /\ request[r].farewell = "sentinel" /\ FarewellIs(r, "held open")

(* The last pipe or terminal with a handle of the session disconnects.                            *)
PipeCloses(r) ==
  /\ request[r].recorder = "running"
  /\ request[r].farewell = "held open" /\ FarewellIs(r, "closed")

(* A write that fails.                                                                            *)
RecorderFails(r) == request[r].recorder = "running" /\ Ended(r)

-------------------------------------------------------------------------------
Handler(r) == SpawnRecorder(r) \/ CreateFails(r) \/ InsertRecording(r)
Loop == Poll \/ Retain \/ \E id \in Ids : Attach(id)

Next ==
  \/ \E id \in Ids : Register(id) \/ Unregister(id) \/ StopRecording(id)
  \/ Loop \/ \E s \in Sessions : Detach(s)
  \/ \E r \in Requests : \/ \E id \in Ids : StartRecording(r, id)
                         \/ Handler(r) \/ RequestDropped(r)
                         \/ RecorderEnds(r) \/ RecorderFails(r)
                         \/ RecorderLags(r) \/ PipeCloses(r)

(* The runtime runs every task that can go on.  No pipe has to close, no client to leave, and a   *)
(* forwarder, which may have missed the sentinel too, need not end.                               *)
Fairness ==
  /\ WF_vars(Loop)
  /\ \A r \in Requests : WF_vars(Handler(r)) /\ WF_vars(RecorderEnds(r))

Spec == Init /\ [][Next]_vars /\ Fairness

-------------------------------------------------------------------------------
(* No session's output is published twice, although the loop forgets names by a list that is old  *)
(* when it does and meets other sessions under the names it knows (mqtt_pty.rs:91-141).           *)
OneForwarder == \A s \in Sessions : forwarder[s] <= 1

(* A session is attached once the loop has listed without its name, or never attached the name:   *)
(* one that takes the name of another is not passed over for good - unless it did so between two  *)
(* polls, which this code does not see (mqtt_pty.rs:93, 140-141).                                 *)
NameIsServedAgain ==
  \A id \in Ids, s \in Sessions :
    (On(id) = {s} /\ id \notin served) ~> (forwarder[s] > 0 \/ On(id) # {s})

(* A recorder runs on, with its session gone and nobody to stop it, although its handle is kept.  *)
HeldOpen(r) ==
  /\ request[r].recorder = "running" /\ request[r].stop = "open"
  /\ Over(request[r].session) /\ request[r].farewell = "held open"

(* A recorder that nobody can stop any more, its handle replaced by a request that started the    *)
(* same session at the same time, dropped with its request, or removed by a stop, ends by itself; *)
(* so does one whose session is gone before or after its handle is kept (recording.rs:131-190,    *)
(* rest.rs:706-741).  What the code does not see to is a recorder that missed the sentinel while  *)
(* a pipe keeps the channel of the dead session open for ever.                                    *)
RecorderYields ==
  \A r \in Requests :
    \/ (/\ request[r].recorder = "running"
        /\ \/ Over(request[r].session)
           \/ /\ request[r].handler = "answered"
              /\ \A id \in DOMAIN recordings : recordings[id] # r)
         ~> request[r].recorder = "ended"
    \/ <>[]HeldOpen(r)

===============================================================================
