------------------------ MODULE SessionClientsProofs ------------------------
(* Theorems of those who follow the managed sessions, for any names, requests and number of       *)
(* registrations: no session is forwarded twice, and the map of the recordings and their handles  *)
(* agree.  The invariant has two halves that share no variable: LoopInv about the sessions and    *)
(* the attach loop, RecordingInv about the recordings.                                            *)
EXTENDS SessionClients, TLAPS

MapOK ==
  /\ last \in 0..MaxSessions /\ DOMAIN listed \subseteq Ids
  /\ \A id \in DOMAIN listed : listed[id] \in 1..last
  /\ \A id1, id2 \in DOMAIN listed : listed[id1] = listed[id2] => id1 = id2

LoopOK ==
  /\ poll \in [pc : {"list", "attach"}, ids : SUBSET Ids, left : SUBSET Ids]
  /\ poll.left \subseteq poll.ids
  /\ attached \subseteq Ids /\ served \subseteq Ids
  /\ forwarder \in [Sessions -> Nat] /\ \A s \in Sessions : forwarder[s] > 0 => s <= last

(* A listed session that is forwarded is known to the loop by its name, and the loop will not     *)
(* forget that name by the list it works from: a name it attached was in that list.               *)
Followed ==
  \A id \in DOMAIN listed :
    forwarder[listed[id]] > 0 => id \in attached /\ (poll.pc = "attach" => id \in poll.ids)

LoopInv == MapOK /\ LoopOK /\ Followed /\ OneForwarder

(* The handle of a recorder is kept by a map entry of its own name until a stop takes the entry   *)
(* or another request replaces it.                                                                *)
Held ==
  \A id \in DOMAIN recordings :
    /\ recordings[id] \in Requests
    /\ LET r == request[recordings[id]]
       IN r.handler = "answered" /\ r.id = id /\ r.stop = "open" /\ r.recorder # "none"

(* A handler that is about to keep its handle started a recorder, which nobody stopped.           *)
Spawned ==
  \A r \in Requests :
    request[r].handler = "inserting" => request[r].stop = "open" /\ request[r].recorder # "none"

Unspawned == \A r \in Requests : request[r].handler \in {"none", "creating"} =>
                                   request[r].stop = "open"

RecordingInv ==
  /\ request \in [Requests -> RequestType] /\ DOMAIN recordings \subseteq Ids
  /\ Held /\ Spawned /\ Unspawned

IInv == LoopInv /\ RecordingInv

-------------------------------------------------------------------------------
LEMMA InvariantIsTyped == IInv => TypeOK
BY DEF IInv, LoopInv, MapOK, LoopOK, RecordingInv, Held, TypeOK

LEMMA InitInvariant == Init => IInv
<1> SUFFICES ASSUME Init PROVE IInv
  OBVIOUS
<1>1. LoopInv
  BY ClientsAssumption DEF Init, LoopInv, MapOK, LoopOK, Followed, OneForwarder, Sessions
<1>2. FirstId \in Ids
  BY ClientsAssumption DEF FirstId
<1>3. RecordingInv
  BY <1>2, ClientsAssumption DEF Init, RecordingInv, RequestType, Held, Spawned, Unspawned
<1> QED
  BY <1>1, <1>3 DEF IInv

-------------------------------------------------------------------------------
(* The sessions and the attach loop.                                                              *)

LEMMA RegisterKeeps ==
  ASSUME LoopInv, NEW id \in Ids, Register(id)
  PROVE  LoopInv'
<1> USE DEF LoopInv
<1>1. /\ last' = last + 1 /\ last' \in Sessions /\ last' \in 1..last'
      /\ DOMAIN listed' = DOMAIN listed \cup {id} /\ listed'[id] = last'
      /\ \A x \in DOMAIN listed : listed'[x] = listed[x]
      /\ UNCHANGED mqtt
  BY ClientsAssumption DEF Register, With, MapOK, Sessions
<1>2. MapOK'
  BY <1>1, ClientsAssumption DEF MapOK, Sessions
<1>3. LoopOK'
  BY <1>1 DEF LoopOK, mqtt, MapOK
<1>4. forwarder[last'] = 0
  BY <1>1 DEF LoopOK, MapOK
<1>5. Followed'
  BY <1>1, <1>4 DEF Followed, mqtt
<1> QED
  BY <1>1, <1>2, <1>3, <1>5 DEF OneForwarder, mqtt

LEMMA UnregisterKeeps ==
  ASSUME LoopInv, NEW id \in Ids, Unregister(id)
  PROVE  LoopInv'
<1>1. /\ DOMAIN listed' = DOMAIN listed \ {id}
      /\ \A x \in DOMAIN listed' : listed'[x] = listed[x]
      /\ UNCHANGED <<last, mqtt>>
  BY DEF Unregister, Without
<1> QED
  BY <1>1 DEF LoopInv, MapOK, LoopOK, Followed, OneForwarder, mqtt

LEMMA AttachKeeps ==
  ASSUME LoopInv, NEW id \in Ids, Attach(id)
  PROVE  LoopInv'
<1> USE DEF LoopInv
<1>1. poll.pc = "attach" /\ id \in poll.left /\ id \in poll.ids
  BY DEF Attach, LoopOK
<1>2. /\ poll' \in [pc : {"list", "attach"}, ids : SUBSET Ids, left : SUBSET Ids]
      /\ poll'.ids = poll.ids /\ poll'.left \subseteq poll.left /\ poll'.pc = "attach"
  BY <1>1 DEF Attach, LoopOK
<1>3. MapOK'
  BY DEF MapOK, Attach
<1>4. CASE id \in attached \/ id \notin DOMAIN listed
  BY <1>2, <1>3, <1>4 DEF Attach, LoopOK, Followed, OneForwarder
<1>5. CASE id \notin attached /\ id \in DOMAIN listed
  <2>1. /\ forwarder' = [forwarder EXCEPT ![listed[id]] = @ + 1]
        /\ served' = served \cup {id} /\ attached' = attached \cup {id}
        /\ UNCHANGED <<listed, last>>
    BY <1>5 DEF Attach
  <2>2. listed[id] \in Sessions /\ listed[id] <= last
    BY <1>5, ClientsAssumption DEF MapOK, Sessions
  <2>3. forwarder[listed[id]] = 0
    BY <1>5, <2>2 DEF Followed, LoopOK
  <2>4. LoopOK'
    BY <1>2, <2>1, <2>2 DEF LoopOK
  <2>5. Followed'
    BY <1>1, <1>2, <1>5, <2>1, <2>2 DEF Followed, MapOK, LoopOK
  <2>6. OneForwarder'
    BY <2>1, <2>2, <2>3 DEF OneForwarder, LoopOK
  <2> QED
    BY <1>3, <2>4, <2>5, <2>6
<1> QED
  BY <1>4, <1>5

LEMMA LoopStepKeeps ==
  ASSUME LoopInv, [Next]_vars
  PROVE  LoopInv'
<1>1. ASSUME UNCHANGED <<listed, last, mqtt>> PROVE LoopInv'
  BY <1>1 DEF LoopInv, MapOK, LoopOK, Followed, OneForwarder, mqtt
<1>2. CASE Poll
  BY <1>2 DEF Poll, LoopInv, MapOK, LoopOK, Followed, OneForwarder
<1>3. CASE Retain
  BY <1>3 DEF Retain, LoopInv, MapOK, LoopOK, Followed, OneForwarder
<1>4. ASSUME NEW s \in Sessions, Detach(s) PROVE LoopInv'
  BY <1>4 DEF Detach, Over, LoopInv, MapOK, LoopOK, Followed, OneForwarder, Sessions
<1>5. ASSUME NEW r \in Requests,
             \/ Handler(r) \/ RequestDropped(r) \/ RecorderEnds(r) \/ RecorderFails(r)
             \/ RecorderLags(r) \/ PipeCloses(r) \/ \E id \in Ids : StartRecording(r, id)
      PROVE  UNCHANGED <<listed, last, mqtt>>
  BY <1>5 DEF Handler, SpawnRecorder, CreateFails, InsertRecording, RequestDropped, RecorderEnds,
              RecorderFails, RecorderLags, PipeCloses, Ended, FarewellIs, StartRecording
<1>6. ASSUME NEW id \in Ids, StopRecording(id) PROVE UNCHANGED <<listed, last, mqtt>>
  BY <1>6 DEF StopRecording
<1> QED
  BY <1>1, <1>2, <1>3, <1>4, <1>5, <1>6, RegisterKeeps, UnregisterKeeps, AttachKeeps
     DEF Next, Loop, vars

-------------------------------------------------------------------------------
(* The recordings.                                                                                *)

(* Replacing the fields of one request, and what a stop does to a recorder.                       *)
LEMMA OneRequest ==
  ASSUME request \in [Requests -> RequestType], NEW r \in Requests, NEW q \in RequestType,
         request' = [request EXCEPT ![r] = q]
  PROVE  /\ request' \in [Requests -> RequestType] /\ request'[r] = q
         /\ \A x \in Requests \ {r} : request'[x] = request[x]
OBVIOUS

LEMMA StoppedIsTyped ==
  ASSUME NEW q \in Requests, request[q] \in RequestType, NEW how \in {"sent", "dropped"}
  PROVE  /\ Stopped(q, how) \in RequestType
         /\ Stopped(q, how).handler = request[q].handler
         /\ Stopped(q, how).recorder = request[q].recorder
BY DEF Stopped, RequestType

LEMMA InsertKeeps ==
  ASSUME RecordingInv, NEW r \in Requests, InsertRecording(r)
  PROVE  RecordingInv'
<1> USE DEF RecordingInv
<1> DEFINE id == request[r].id
<1>1. /\ DOMAIN recordings' = DOMAIN recordings \cup {id} /\ recordings'[id] = r
      /\ \A x \in DOMAIN recordings \ {id} : recordings'[x] = recordings[x]
  BY DEF InsertRecording, With
<1>2. id \in Ids /\ request[r].stop = "open" /\ request[r].recorder # "none"
  BY DEF RequestType, InsertRecording, Spawned
<1>3. request' \in [Requests -> RequestType]
  <2>1. ASSUME NEW q \in Requests
        PROVE  /\ request[q] \in RequestType /\ Stopped(q, "dropped") \in RequestType
               /\ [request[q] EXCEPT !.handler = "answered"] \in RequestType
    <3>1. request[q] \in RequestType
      OBVIOUS
    <3> QED
      BY <3>1, StoppedIsTyped DEF RequestType
  <2> DEFINE replaced(q) == id \in DOMAIN recordings /\ recordings[id] = q
  <2>2. request' = [q \in Requests |->
                      IF q = r THEN [request[q] EXCEPT !.handler = "answered"]
                      ELSE IF replaced(q) THEN Stopped(q, "dropped") ELSE request[q]]
    BY DEF InsertRecording
  <2> HIDE DEF id, replaced
  <2> QED
    BY <2>1, <2>2
<1>4. request'[r] = [request[r] EXCEPT !.handler = "answered"]
  BY DEF InsertRecording
<1>5. \A q \in Requests \ {r} :
        \/ request'[q] = request[q]
        \/ /\ id \in DOMAIN recordings /\ recordings[id] = q
           /\ request'[q] = Stopped(q, "dropped")
  BY DEF InsertRecording
<1>6. Held'
  <2> SUFFICES ASSUME NEW x \in DOMAIN recordings'
               PROVE  /\ recordings'[x] \in Requests
                      /\ request'[recordings'[x]].handler = "answered"
                      /\ request'[recordings'[x]].id = x
                      /\ request'[recordings'[x]].stop = "open"
                      /\ request'[recordings'[x]].recorder # "none"
    BY DEF Held
  <2>1. CASE x = id
    <3>1. /\ request'[r].handler = "answered" /\ request'[r].id = id
          /\ request'[r].stop = "open" /\ request'[r].recorder # "none"
      BY <1>2, <1>4 DEF RequestType
    <3> QED
      BY <1>1, <2>1, <3>1
  <2>2. CASE x # id
    <3>1. x \in DOMAIN recordings /\ recordings'[x] = recordings[x] /\ recordings[x] # r
      BY <1>1, <2>2 DEF Held, InsertRecording
    <3>2. id \in DOMAIN recordings => recordings[id] # recordings[x]
      BY <2>2, <3>1 DEF Held
    <3>3. recordings[x] \in Requests \ {r}
      BY <3>1 DEF Held
    <3>4. request'[recordings[x]] = request[recordings[x]]
      BY <1>5, <3>2, <3>3
    <3> QED
      BY <2>2, <3>1, <3>3, <3>4 DEF Held
  <2> QED
    BY <2>1, <2>2
<1>7. Spawned' /\ Unspawned'
  <2>1. ASSUME NEW q \in Requests \ {r}
        PROVE  /\ request'[q].handler \in {"none", "creating", "inserting"} =>
                    request'[q] = request[q]
               /\ request'[q].handler = request[q].handler
    <3>1. request[q] \in RequestType
      OBVIOUS
    <3>2. recordings[id] = q /\ id \in DOMAIN recordings => request[q].handler = "answered"
      BY DEF Held
    <3> QED
      BY <1>5, <3>1, <3>2, StoppedIsTyped
  <2>2. request'[r].handler = "answered"
    BY <1>4 DEF RequestType
  <2> QED
    BY <2>1, <2>2 DEF Spawned, Unspawned
<1> QED
  BY <1>1, <1>2, <1>3, <1>6, <1>7

LEMMA StopKeeps ==
  ASSUME RecordingInv, NEW id \in Ids, StopRecording(id)
  PROVE  RecordingInv'
<1> USE DEF RecordingInv
<1>1. /\ DOMAIN recordings' = DOMAIN recordings \ {id}
      /\ \A x \in DOMAIN recordings' : recordings'[x] = recordings[x]
      /\ id \in DOMAIN recordings /\ recordings[id] \in Requests
  BY DEF StopRecording, Without, Held
<1> DEFINE stopped == Stopped(recordings[id], "sent")
<1>2. stopped \in RequestType /\ stopped.handler = "answered"
  BY <1>1, StoppedIsTyped DEF Held
<1>3. /\ request' \in [Requests -> RequestType] /\ request'[recordings[id]] = stopped
      /\ \A q \in Requests \ {recordings[id]} : request'[q] = request[q]
  BY <1>1, <1>2, OneRequest DEF StopRecording
<1>4. \A x \in DOMAIN recordings' : recordings[x] # recordings[id]
  BY <1>1 DEF Held
<1>5. Held'
  BY <1>1, <1>3, <1>4 DEF Held
<1>6. Spawned' /\ Unspawned'
  BY <1>1, <1>2, <1>3 DEF Spawned, Unspawned
<1> QED
  BY <1>1, <1>3, <1>5, <1>6

LEMMA RecordingStepKeeps ==
  ASSUME RecordingInv, LoopInv, [Next]_vars
  PROVE  RecordingInv'
<1> USE DEF RecordingInv
<1>1. ASSUME UNCHANGED recording PROVE RecordingInv'
  BY <1>1 DEF recording, Held, Spawned, Unspawned
<1>2. ASSUME Loop \/ (\E s \in Sessions : Detach(s)) \/ \E id \in Ids : Register(id) \/ Unregister(id)
      PROVE  UNCHANGED recording
  BY <1>2 DEF Loop, Poll, Retain, Attach, Detach, Register, Unregister
<1>3. ASSUME NEW r \in Requests, NEW id \in Ids, StartRecording(r, id) PROVE RecordingInv'
  <2>1. listed[id] \in 0..MaxSessions
    BY <1>3, ClientsAssumption DEF StartRecording, LoopInv, MapOK
  <2> DEFINE q == [request[r] EXCEPT !.handler = "creating", !.id = id, !.session = listed[id]]
  <2>2. /\ q \in RequestType /\ q.stop = request[r].stop /\ q.handler = "creating"
        /\ request' = [request EXCEPT ![r] = q] /\ request[r].handler = "none"
    <3>1. request[r] \in RequestType
      OBVIOUS
    <3>2. /\ request' = [request EXCEPT ![r] = [@ EXCEPT !.handler = "creating", !.id = id,
                                                        !.session = listed[id]]]
          /\ request[r].handler = "none"
      BY <1>3 DEF StartRecording
    <3> QED
      BY <2>1, <3>1, <3>2 DEF RequestType
  <2>3. recordings' = recordings /\ \A x \in DOMAIN recordings : recordings[x] # r
    BY <1>3 DEF StartRecording, Held
  <2> HIDE DEF q
  <2>4. /\ request' \in [Requests -> RequestType] /\ request'[r] = q
        /\ \A x \in Requests \ {r} : request'[x] = request[x]
    BY <2>2, OneRequest
  <2> QED
    BY <2>2, <2>3, <2>4 DEF Held, Spawned, Unspawned
<1>4. ASSUME NEW r \in Requests, CreateFails(r) \/ SpawnRecorder(r) PROVE RecordingInv'
  <2>1. recordings' = recordings /\ \A x \in DOMAIN recordings : recordings[x] # r
    BY <1>4 DEF CreateFails, SpawnRecorder, Held
  <2>2. PICK q \in RequestType :
          /\ request' = [request EXCEPT ![r] = q] /\ q.handler \in {"answered", "inserting"}
          /\ q.handler = "inserting" => q.recorder = "running"
          /\ q.stop = request[r].stop
    <3>1. request[r] \in RequestType
      OBVIOUS
    <3>2. CASE CreateFails(r)
      <4> DEFINE q == [request[r] EXCEPT !.handler = "answered"]
      <4>1. request' = [request EXCEPT ![r] = q]
        BY <3>1, <3>2 DEF CreateFails
      <4>2. q \in RequestType /\ q.handler = "answered" /\ q.stop = request[r].stop
        BY <3>1 DEF RequestType
      <4> QED
        BY <4>1, <4>2
    <3>3. CASE SpawnRecorder(r)
      <4>1. PICK how \in {"closed", "held open", "sentinel"} :
              request' = [request EXCEPT ![r].handler = "inserting", ![r].recorder = "running",
                                         ![r].farewell = how]
        BY <3>3 DEF SpawnRecorder
      <4> DEFINE q == [request[r] EXCEPT !.handler = "inserting", !.recorder = "running",
                                         !.farewell = how]
      <4>2. request' = [request EXCEPT ![r] = q]
        BY <3>1, <4>1
      <4>3. /\ q \in RequestType /\ q.handler = "inserting" /\ q.recorder = "running"
            /\ q.stop = request[r].stop
        BY <3>1 DEF RequestType
      <4> QED
        BY <4>2, <4>3
    <3> QED
      BY <1>4, <3>2, <3>3
  <2>3. request[r].handler = "creating"
    BY <1>4 DEF CreateFails, SpawnRecorder
  <2>4. /\ request' \in [Requests -> RequestType] /\ request'[r] = q
        /\ \A x \in Requests \ {r} : request'[x] = request[x]
    BY <2>2, OneRequest
  <2> QED
    BY <2>1, <2>2, <2>3, <2>4 DEF Held, Spawned, Unspawned
<1>5. ASSUME NEW r \in Requests, RecorderEnds(r) \/ RecorderFails(r) PROVE RecordingInv'
  <2>1. /\ request' = [request EXCEPT ![r] = [@ EXCEPT !.recorder = "ended", !.stop = "open",
                                                       !.farewell = "sentinel"]]
        /\ recordings' = recordings /\ request[r] \in RequestType
    BY <1>5 DEF RecorderEnds, RecorderFails, Ended
  <2> DEFINE q == [request[r] EXCEPT !.recorder = "ended", !.stop = "open",
                                     !.farewell = "sentinel"]
  <2>2. /\ q \in RequestType /\ q.handler = request[r].handler /\ q.id = request[r].id
        /\ q.recorder = "ended" /\ q.stop = "open"
    BY <2>1 DEF RequestType
  <2>3. request' = [request EXCEPT ![r] = q]
    BY <2>1
  <2> HIDE DEF q
  <2>4. /\ request' \in [Requests -> RequestType] /\ request'[r] = q
        /\ \A x \in Requests \ {r} : request'[x] = request[x]
    BY <2>2, <2>3, OneRequest
  <2> QED
    BY <2>1, <2>2, <2>4 DEF Held, Spawned, Unspawned
<1>6. ASSUME NEW r \in Requests, RequestDropped(r) PROVE RecordingInv'
  <2>1. recordings' = recordings /\ \A x \in DOMAIN recordings : recordings[x] # r
    BY <1>6 DEF RequestDropped, Held
  <2> DEFINE q == [Stopped(r, "dropped") EXCEPT !.handler = "answered"]
  <2>2. q \in RequestType /\ q.handler = "answered"
    <3>1. Stopped(r, "dropped") \in RequestType
      BY StoppedIsTyped
    <3> QED
      BY <3>1 DEF RequestType
  <2>3. request' = [request EXCEPT ![r] = q]
    BY <1>6 DEF RequestDropped
  <2> HIDE DEF q
  <2>4. /\ request' \in [Requests -> RequestType] /\ request'[r] = q
        /\ \A x \in Requests \ {r} : request'[x] = request[x]
    BY <2>2, <2>3, OneRequest
  <2> QED
    BY <2>1, <2>2, <2>4 DEF Held, Spawned, Unspawned
<1>7. ASSUME NEW r \in Requests, RecorderLags(r) \/ PipeCloses(r) PROVE RecordingInv'
  <2>1. PICK how \in {"held open", "closed"} : FarewellIs(r, how)
    BY <1>7 DEF RecorderLags, PipeCloses
  <2> DEFINE q == [request[r] EXCEPT !.farewell = how]
  <2>2. /\ request' = [request EXCEPT ![r] = q] /\ recordings' = recordings
        /\ request[r] \in RequestType
    BY <2>1 DEF FarewellIs
  <2>3. /\ q \in RequestType /\ q.handler = request[r].handler /\ q.id = request[r].id
        /\ q.stop = request[r].stop /\ q.recorder = request[r].recorder
    BY <2>2 DEF RequestType
  <2> HIDE DEF q
  <2>4. /\ request' \in [Requests -> RequestType] /\ request'[r] = q
        /\ \A x \in Requests \ {r} : request'[x] = request[x]
    BY <2>2, <2>3, OneRequest
  <2>5. \A x \in Requests : /\ request'[x].handler = request[x].handler
                            /\ request'[x].id = request[x].id
                            /\ request'[x].stop = request[x].stop
                            /\ request'[x].recorder = request[x].recorder
    BY <2>3, <2>4
  <2> HIDE DEF RecordingInv
  <2>6. Held'
    <3> SUFFICES ASSUME NEW x \in DOMAIN recordings'
                 PROVE  /\ recordings'[x] \in Requests
                        /\ request'[recordings'[x]].handler = "answered"
                        /\ request'[recordings'[x]].id = x
                        /\ request'[recordings'[x]].stop = "open"
                        /\ request'[recordings'[x]].recorder # "none"
      BY DEF Held
    <3>0. recordings' = recordings
      BY <2>2
    <3>1. /\ recordings[x] \in Requests
          /\ request[recordings[x]].handler = "answered"
          /\ request[recordings[x]].id = x
          /\ request[recordings[x]].stop = "open"
          /\ request[recordings[x]].recorder # "none"
      BY <3>0 DEF RecordingInv, Held
    <3> QED
      BY <2>5, <3>0, <3>1
  <2>7. Spawned /\ Unspawned /\ DOMAIN recordings \subseteq Ids
    BY DEF RecordingInv
  <2> QED
    BY <2>2, <2>4, <2>5, <2>6, <2>7 DEF RecordingInv, Spawned, Unspawned
<1> HIDE DEF RecordingInv
<1> QED
  BY <1>1, <1>2, <1>3, <1>4, <1>5, <1>6, <1>7, InsertKeeps, StopKeeps
     DEF Next, Handler, vars, recording

-------------------------------------------------------------------------------
THEOREM InvariantHolds == Spec => []IInv
<1>1. IInv /\ [Next]_vars => IInv'
  BY LoopStepKeeps, RecordingStepKeeps DEF IInv
<1> QED
  BY <1>1, InitInvariant, PTL DEF Spec

(* Every variable keeps its type, the entries of the map of the recordings are of their own       *)
(* names, and a handle in it is that of a recorder nobody has stopped (rest.rs:690-770).          *)
THEOREM TypeHolds == Spec => []TypeOK
BY InvariantHolds, InvariantIsTyped, PTL

(* No session's output is published twice, whatever is registered and unregistered between two    *)
(* steps of the attach loop, under whatever names (mqtt_pty.rs:91-141).                           *)
THEOREM ForwardedOnce == Spec => []OneForwarder
<1>1. IInv => OneForwarder
  BY DEF IInv, LoopInv
<1> QED
  BY <1>1, InvariantHolds, PTL
=============================================================================
