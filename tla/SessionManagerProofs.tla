------------------------ MODULE SessionManagerProofs ------------------------
(***************************************************************************)
(* Theorems of SessionManager for any sets of ids, objects and callers and *)
(* any MaxSessions.  IInv is the inductive invariant: the type, the bound  *)
(* on the map, and how ids, objects and the cleaner's notes relate.        *)
(***************************************************************************)
EXTENDS SessionManager, FiniteSetTheorems, TLAPS

(* What is stored under an id is a born object of that id.                 *)
OwnId == \A i \in Registered :
            object[sessions[i]].kind # "unborn" /\ object[sessions[i]].id = i

OnlyPtyHasChild == \A o \in Objs : object[o].kind # "pty" => object[o].child = "none"

(* A UUID is drawn once: no two PTY sessions ever have the same id.        *)
PtyIdUnique == \A o, p \in Objs :
    object[o].kind = "pty" /\ object[p].kind = "pty" /\ object[o].id = object[p].id
       => o = p

(* Nothing session.rs does tells the clients of a session in the map that  *)
(* it has ended.                                                           *)
NoFarewellInMap == \A i \in Registered : ~object[sessions[i]].farewell

ScanIsOfMap == cleaner.pc = "scan" => cleaner.todo \subseteq Registered

(* Each id the cleaner noted was the id of a PTY session with a dead shell.*)
NotedDead == \A i \in cleaner.dead : \E o \in Objs :
                object[o].kind = "pty" /\ object[o].id = i /\ object[o].child # "running"

IInv == /\ TypeOK
        /\ CapacityBound
        /\ OwnId
        /\ OnlyPtyHasChild
        /\ PtyIdUnique
        /\ PtyStdinNotStolen
        /\ NoFarewellInMap
        /\ ScanIsOfMap
        /\ NotedDead

-----------------------------------------------------------------------------
(* Putting a session under a free id adds one to the size of the map.      *)
LEMMA InsertRegistered ==
    ASSUME TypeOK, NEW i \in Ids, NEW o \in Objs, sessions[i] = None,
           sessions' = [sessions EXCEPT ![i] = o]
    PROVE  Registered' = Registered \union {i} /\ i \notin Registered
BY NoneAssumption DEF TypeOK, Registered

(* An insert behind the capacity check keeps the bound.                    *)
LEMMA InsertKeepsBound ==
    ASSUME TypeOK, CapacityBound, HasRoom,
           NEW i \in Ids, NEW o \in Objs, sessions[i] = None,
           sessions' = [sessions EXCEPT ![i] = o]
    PROVE  CapacityBound'
<1>1. Registered' = Registered \union {i} /\ i \notin Registered
  BY InsertRegistered
<1>2. /\ IsFiniteSet(Registered \union {i})
      /\ Cardinality(Registered \union {i}) = Cardinality(Registered) + 1
  BY <1>1, FS_AddElement DEF CapacityBound
<1>3. Cardinality(Registered) \in Nat
  BY FS_CardinalityType DEF CapacityBound
<1> QED
  BY <1>1, <1>2, <1>3, MaxSessionsAssumption DEF CapacityBound, HasRoom

(* A step that only takes sessions out keeps the bound.                    *)
LEMMA RemovalKeepsBound ==
    ASSUME CapacityBound, Registered' \subseteq Registered
    PROVE  CapacityBound'
<1>1. /\ IsFiniteSet(Registered')
      /\ Cardinality(Registered') <= Cardinality(Registered)
  BY FS_Subset DEF CapacityBound
<1>2. Cardinality(Registered) \in Nat /\ Cardinality(Registered') \in Nat
  BY <1>1, FS_CardinalityType DEF CapacityBound
<1> QED
  BY <1>1, <1>2, MaxSessionsAssumption DEF CapacityBound

LEMMA InitIInv == Init => IInv
<1> SUFFICES ASSUME Init PROVE IInv
  OBVIOUS
<1>1. Registered = {}
  BY DEF Init, Registered
<1>2. CapacityBound
  BY <1>1, FS_EmptySet, MaxSessionsAssumption DEF CapacityBound
<1>3. TypeOK
  BY DEF Init, TypeOK, Object
<1> QED
  BY <1>1, <1>2, <1>3 DEF Init, IInv, OwnId, OnlyPtyHasChild, PtyIdUnique,
     PtyStdinNotStolen, NoFarewellInMap, ScanIsOfMap, NotedDead

(* InsertPty, shared by create_session and default_session.                *)
LEMMA InsertPtyStep ==
    ASSUME IInv, InsertPty, UNCHANGED cleaner, defaulting' \in SUBSET Callers
    PROVE  IInv'
<1>1. PICK o \in Objs, i \in FreshIds :
         /\ object[o].kind = "unborn"
         /\ StartPty(o, i)
         /\ sessions' = [sessions EXCEPT ![i] = o]
  BY DEF InsertPty
<1>2. i \in Ids /\ \A p \in Objs : object[p].id # i
  BY <1>1 DEF FreshIds
<1>3. sessions[i] = None
  BY <1>2 DEF IInv, TypeOK, OwnId, Registered
<1>4. Registered' = Registered \union {i} /\ i \notin Registered
  BY <1>1, <1>2, <1>3, InsertRegistered DEF IInv
<1>5. /\ object' \in [Objs -> Object]
      /\ object'[o] = [kind |-> "pty", id |-> i, child |-> "running",
                       stdin |-> "writer", reader |-> TRUE, farewell |-> FALSE]
      /\ \A p \in Objs \ {o} : object'[p] = object[p]
  BY <1>1, <1>2 DEF StartPty, IInv, TypeOK, Object
<1>6. /\ sessions' \in [Ids -> Objs \union {None}]
      /\ sessions'[i] = o
      /\ \A j \in Ids \ {i} : sessions'[j] = sessions[j]
  BY <1>1, <1>2 DEF IInv, TypeOK
<1>7. \A j \in Registered : sessions[j] \in Objs \ {o}
  BY <1>1 DEF IInv, TypeOK, OwnId, Registered
<1>8. TypeOK'
  <2>1. \A p \in Objs : object'[p].kind # "unborn" => object'[p].id \in Ids
    BY <1>2, <1>5 DEF IInv, TypeOK
  <2>2. sessions' \in [Ids -> Objs \union {None}] /\ object' \in [Objs -> Object]
    BY <1>5, <1>6
  <2> QED
    BY <2>1, <2>2 DEF IInv, TypeOK
<1>9. CapacityBound'
  BY <1>1, <1>2, <1>3, InsertKeepsBound DEF IInv, InsertPty
<1>10. OwnId' /\ NoFarewellInMap'
  <2> SUFFICES ASSUME NEW j \in Registered \union {i}
               PROVE  /\ object'[sessions'[j]].kind # "unborn"
                      /\ object'[sessions'[j]].id = j
                      /\ ~object'[sessions'[j]].farewell
    BY <1>4 DEF OwnId, NoFarewellInMap
  <2>1. CASE j = i
    BY <1>5, <1>6, <2>1
  <2>2. CASE j # i
    <3>1. j \in Registered /\ sessions'[j] = sessions[j] /\ sessions[j] \in Objs \ {o}
      BY <1>6, <1>7, <2>2 DEF Registered
    <3>2. object'[sessions[j]] = object[sessions[j]]
      BY <1>5, <3>1
    <3> QED
      BY <3>1, <3>2 DEF IInv, OwnId, NoFarewellInMap
  <2> QED
    BY <2>1, <2>2
<1>11. OnlyPtyHasChild' /\ PtyStdinNotStolen'
  BY <1>5 DEF IInv, OnlyPtyHasChild, PtyStdinNotStolen
<1>12. PtyIdUnique'
  BY <1>2, <1>5 DEF IInv, PtyIdUnique
<1>13. ScanIsOfMap'
  BY <1>4 DEF IInv, ScanIsOfMap
<1>14. NotedDead'
  <2> SUFFICES ASSUME NEW j \in cleaner.dead
               PROVE  \E p \in Objs : object'[p].kind = "pty" /\ object'[p].id = j
                                       /\ object'[p].child # "running"
    BY DEF NotedDead
  <2>1. PICK p \in Objs : object[p].kind = "pty" /\ object[p].id = j
                            /\ object[p].child # "running"
    BY DEF IInv, NotedDead
  <2>2. p # o
    BY <1>1, <2>1
  <2> QED
    BY <1>5, <2>1, <2>2
<1> QED
  BY <1>8, <1>9, <1>10, <1>11, <1>12, <1>13, <1>14 DEF IInv

LEMMA RegisterStep ==
    ASSUME IInv, NEW i \in Ids, RegisterSession(i)
    PROVE  IInv'
<1>1. PICK o \in Objs :
         /\ object[o].kind = "unborn"
         /\ object' = [object EXCEPT ![o] =
                [kind |-> "managed", id |-> i, child |-> "none",
                 stdin |-> "session", reader |-> FALSE, farewell |-> FALSE]]
         /\ sessions' = [sessions EXCEPT ![i] = o]
  BY DEF RegisterSession
<1>2. sessions[i] = None /\ HasRoom /\ UNCHANGED <<cleaner, defaulting>>
  BY DEF RegisterSession
<1>3. Registered' = Registered \union {i} /\ i \notin Registered
  BY <1>1, <1>2, InsertRegistered DEF IInv
<1>4. /\ object' \in [Objs -> Object]
      /\ object'[o] = [kind |-> "managed", id |-> i, child |-> "none",
                       stdin |-> "session", reader |-> FALSE, farewell |-> FALSE]
      /\ \A p \in Objs \ {o} : object'[p] = object[p]
  BY <1>1 DEF IInv, TypeOK, Object
<1>5. /\ sessions' \in [Ids -> Objs \union {None}]
      /\ sessions'[i] = o
      /\ \A j \in Ids \ {i} : sessions'[j] = sessions[j]
  BY <1>1 DEF IInv, TypeOK
<1>6. \A j \in Registered : sessions[j] \in Objs \ {o}
  BY <1>1 DEF IInv, TypeOK, OwnId, Registered
<1>7. TypeOK'
  BY <1>2, <1>4, <1>5 DEF IInv, TypeOK
<1>8. CapacityBound'
  BY <1>1, <1>2, InsertKeepsBound DEF IInv
<1>9. OwnId' /\ NoFarewellInMap'
  <2> SUFFICES ASSUME NEW j \in Registered \union {i}
               PROVE  /\ object'[sessions'[j]].kind # "unborn"
                      /\ object'[sessions'[j]].id = j
                      /\ ~object'[sessions'[j]].farewell
    BY <1>3 DEF OwnId, NoFarewellInMap
  <2>1. CASE j = i
    BY <1>4, <1>5, <2>1
  <2>2. CASE j # i
    <3>1. j \in Registered /\ sessions'[j] = sessions[j] /\ sessions[j] \in Objs \ {o}
      BY <1>5, <1>6, <2>2 DEF Registered
    <3>2. object'[sessions[j]] = object[sessions[j]]
      BY <1>4, <3>1
    <3> QED
      BY <3>1, <3>2 DEF IInv, OwnId, NoFarewellInMap
  <2> QED
    BY <2>1, <2>2
<1>10. OnlyPtyHasChild' /\ PtyStdinNotStolen' /\ PtyIdUnique'
  BY <1>4 DEF IInv, OnlyPtyHasChild, PtyStdinNotStolen, PtyIdUnique
<1>11. ScanIsOfMap'
  BY <1>2, <1>3 DEF IInv, ScanIsOfMap
<1>12. NotedDead'
  <2> SUFFICES ASSUME NEW j \in cleaner.dead
               PROVE  \E p \in Objs : object'[p].kind = "pty" /\ object'[p].id = j
                                       /\ object'[p].child # "running"
    BY <1>2 DEF NotedDead
  <2>1. PICK p \in Objs : object[p].kind = "pty" /\ object[p].id = j
                            /\ object[p].child # "running"
    BY DEF IInv, NotedDead
  <2>2. p # o
    BY <1>1, <2>1
  <2> QED
    BY <1>4, <2>1, <2>2
<1> QED
  BY <1>7, <1>8, <1>9, <1>10, <1>11, <1>12 DEF IInv

(* A step that leaves the map and the cleaner alone and changes no kind,   *)
(* no id, and nothing for the worse: the shell and receiver steps.         *)
LEMMA ObjectStep ==
    ASSUME IInv, UNCHANGED <<sessions, cleaner, defaulting>>,
           object' \in [Objs -> Object],
           \A o \in Objs :
              /\ object'[o].kind = object[o].kind
              /\ object'[o].id = object[o].id
              /\ object'[o].child # object[o].child =>
                    object[o].kind = "pty" /\ object'[o].child # "running"
              /\ object[o].kind = "pty" => object'[o].stdin = object[o].stdin
              /\ object'[o].farewell # object[o].farewell => Dropped(o)
    PROVE  IInv'
<1>1. Registered' = Registered
  BY DEF Registered
<1>2. TypeOK' /\ CapacityBound' /\ ScanIsOfMap'
  BY <1>1 DEF IInv, TypeOK, CapacityBound, ScanIsOfMap
<1>3. \A i \in Registered : sessions[i] \in Objs /\ ~Dropped(sessions[i])
  BY DEF IInv, TypeOK, Registered, Dropped
<1>4. OwnId' /\ NoFarewellInMap'
  BY <1>1, <1>3 DEF IInv, OwnId, NoFarewellInMap
<1>5. OnlyPtyHasChild' /\ PtyIdUnique' /\ PtyStdinNotStolen'
  BY DEF IInv, OnlyPtyHasChild, PtyIdUnique, PtyStdinNotStolen
<1>6. NotedDead'
  BY DEF IInv, NotedDead
<1> QED
  BY <1>2, <1>4, <1>5, <1>6 DEF IInv

(* Broadcasting the sentinel changes one field of one object.              *)
LEMMA FarewellUpdate ==
    ASSUME TypeOK, NEW o \in Objs, object' = [object EXCEPT ![o].farewell = TRUE]
    PROVE  /\ object' \in [Objs -> Object]
           /\ object'[o].kind = object[o].kind
           /\ object'[o].id = object[o].id
           /\ object'[o].child = object[o].child
           /\ object'[o].stdin = object[o].stdin
           /\ \A p \in Objs \ {o} : object'[p] = object[p]
<1> DEFINE r == object[o]
           q == [r EXCEPT !.farewell = TRUE]
<1>1. r \in Object
  BY DEF TypeOK
<1>2. q \in Object /\ q.kind = r.kind /\ q.id = r.id /\ q.child = r.child /\ q.stdin = r.stdin
  <2> HIDE DEF r
  <2> QED BY <1>1 DEF Object
<1>3. object' = [object EXCEPT ![o] = q]
  OBVIOUS
<1> HIDE DEF q
<1> QED
  BY <1>2, <1>3 DEF TypeOK

LEMMA UnregisterStep ==
    ASSUME IInv, NEW i \in Ids, UnregisterSession(i)
    PROVE  IInv'
<1> DEFINE o == sessions[i]
<1>1. /\ o \in Objs
      /\ sessions' = [sessions EXCEPT ![i] = None]
      /\ object' = [object EXCEPT ![o].farewell = TRUE]
      /\ cleaner.pc # "scan"
      /\ UNCHANGED <<cleaner, defaulting>>
  BY DEF UnregisterSession, WriteLockFree, IInv, TypeOK
<1>2. Registered' = Registered \ {i}
  BY <1>1, NoneAssumption DEF IInv, TypeOK, Registered
<1>3. \A j \in Registered \ {i} : sessions[j] \in Objs /\ sessions[j] # o
  BY <1>1, NoneAssumption DEF IInv, TypeOK, OwnId, Registered
<1>4. /\ object' \in [Objs -> Object]
      /\ \A p \in Objs :
            /\ object'[p].kind = object[p].kind
            /\ object'[p].id = object[p].id
            /\ object'[p].child = object[p].child
            /\ object'[p].stdin = object[p].stdin
            /\ p # o => object'[p] = object[p]
  <2>1. o \in Objs /\ object' = [object EXCEPT ![o].farewell = TRUE] /\ TypeOK
    BY <1>1 DEF IInv
  <2> HIDE DEF o
  <2> QED
    BY <2>1, FarewellUpdate
<1>5. \A j \in Ids \ {i} : sessions'[j] = sessions[j]
  BY <1>1 DEF IInv, TypeOK
<1>6. TypeOK'
  BY <1>1, <1>4 DEF IInv, TypeOK
<1>7. CapacityBound'
  BY <1>2, RemovalKeepsBound DEF IInv
<1>8. OwnId' /\ NoFarewellInMap'
  <2> SUFFICES ASSUME NEW j \in Registered \ {i}
               PROVE  /\ object'[sessions'[j]].kind # "unborn"
                      /\ object'[sessions'[j]].id = j
                      /\ ~object'[sessions'[j]].farewell
    BY <1>2 DEF OwnId, NoFarewellInMap
  <2>1. sessions'[j] = sessions[j] /\ j \in Registered
    BY <1>5 DEF Registered
  <2>2. object'[sessions[j]] = object[sessions[j]]
    <3>1. sessions[j] \in Objs /\ sessions[j] # o
      BY <1>3
    <3> HIDE DEF o
    <3> QED
      BY <1>4, <3>1
  <2> QED
    BY <2>1, <2>2 DEF IInv, OwnId, NoFarewellInMap
<1>9. OnlyPtyHasChild' /\ PtyIdUnique' /\ PtyStdinNotStolen' /\ ScanIsOfMap'
  BY <1>1, <1>4 DEF IInv, OnlyPtyHasChild, PtyIdUnique, PtyStdinNotStolen, ScanIsOfMap
<1>10. NotedDead'
  BY <1>1, <1>4 DEF IInv, NotedDead
<1> QED
  BY <1>6, <1>7, <1>8, <1>9, <1>10 DEF IInv

-----------------------------------------------------------------------------
(* cleanup_dead, step by step.                                             *)
LEMMA CleanupStep ==
    ASSUME IInv, Cleanup
    PROVE  IInv'
<1>1. CASE CleanupBegin
  <2>1. /\ cleaner' = [pc |-> "scan", todo |-> Registered, dead |-> {}]
        /\ UNCHANGED <<sessions, object, defaulting>>
    BY <1>1 DEF CleanupBegin
  <2>2. Registered' = Registered /\ Registered \subseteq Ids
    BY <2>1 DEF Registered
  <2> QED
    BY <2>1, <2>2 DEF IInv, TypeOK, CapacityBound, OwnId, OnlyPtyHasChild, PtyIdUnique,
       PtyStdinNotStolen, NoFarewellInMap, ScanIsOfMap, NotedDead
<1>2. CASE \E i \in Ids : CleanupScan(i)
  <2>1. PICK i \in Ids : CleanupScan(i)
    BY <1>2
  <2>2. /\ i \in cleaner.todo /\ cleaner.pc = "scan"
        /\ cleaner' \in [pc : {"idle", "scan", "remove"},
                         todo : SUBSET Ids, dead : SUBSET Ids]
        /\ cleaner'.pc = cleaner.pc
        /\ cleaner'.todo = cleaner.todo \ {i}
        /\ cleaner'.dead = IF IsAlive(sessions[i]) THEN cleaner.dead
                                                   ELSE cleaner.dead \union {i}
        /\ UNCHANGED <<sessions, object, defaulting>>
    BY <2>1 DEF CleanupScan, IInv, TypeOK
  <2>3. Registered' = Registered
    BY <2>2 DEF Registered
  <2>4. ScanIsOfMap'
    BY <2>2, <2>3 DEF IInv, ScanIsOfMap
  <2>5. NotedDead'
    <3> SUFFICES ASSUME ~IsAlive(sessions[i])
                 PROVE  \E o \in Objs : object[o].kind = "pty" /\ object[o].id = i
                                         /\ object[o].child # "running"
      BY <2>2 DEF IInv, NotedDead
    <3>1. i \in Registered
      BY <2>2 DEF IInv, ScanIsOfMap
    <3>2. sessions[i] \in Objs /\ object[sessions[i]] \in Object
      BY <3>1 DEF IInv, TypeOK, Registered
    <3>3. object[sessions[i]].kind = "pty" /\ object[sessions[i]].id = i
          /\ object[sessions[i]].child # "running"
      BY <3>1, <3>2 DEF IInv, OwnId, IsAlive, Object
    <3> QED
      BY <3>2, <3>3
  <2> QED
    BY <2>2, <2>3, <2>4, <2>5 DEF IInv, TypeOK, CapacityBound, OwnId, OnlyPtyHasChild,
       PtyIdUnique, PtyStdinNotStolen, NoFarewellInMap
<1>3. CASE CleanupRelease
  <2>1. /\ cleaner' \in [pc : {"idle", "scan", "remove"},
                         todo : SUBSET Ids, dead : SUBSET Ids]
        /\ cleaner'.pc # "scan"
        /\ cleaner'.dead = cleaner.dead
        /\ UNCHANGED <<sessions, object, defaulting>>
    BY <1>3 DEF CleanupRelease, IInv, TypeOK
  <2>2. Registered' = Registered
    BY <2>1 DEF Registered
  <2> QED
    BY <2>1, <2>2 DEF IInv, TypeOK, CapacityBound, OwnId, OnlyPtyHasChild, PtyIdUnique,
       PtyStdinNotStolen, NoFarewellInMap, ScanIsOfMap, NotedDead
<1>4. CASE CleanupRemove
  <2>1. /\ sessions' = [i \in Ids |-> IF i \in cleaner.dead THEN None ELSE sessions[i]]
        /\ cleaner' = [pc |-> "idle", todo |-> {}, dead |-> {}]
        /\ UNCHANGED <<object, defaulting>>
    BY <1>4 DEF CleanupRemove
  <2>2. TypeOK'
    BY <2>1 DEF IInv, TypeOK
  <2>3. Registered' = Registered \ cleaner.dead
    BY <2>1 DEF Registered
  <2>4. \A i \in Registered' : i \in Registered /\ sessions'[i] = sessions[i]
    BY <2>1, <2>3 DEF Registered
  <2>5. CapacityBound'
    BY <2>3, RemovalKeepsBound DEF IInv
  <2>6. OwnId' /\ NoFarewellInMap'
    BY <2>1, <2>4 DEF IInv, OwnId, NoFarewellInMap
  <2> QED
    BY <2>1, <2>2, <2>5, <2>6 DEF IInv, OnlyPtyHasChild, PtyIdUnique, PtyStdinNotStolen,
       ScanIsOfMap, NotedDead
<1> QED
  BY <1>1, <1>2, <1>3, <1>4 DEF Cleanup

LEMMA NextIInv == IInv /\ [Next]_vars => IInv'
<1> SUFFICES ASSUME IInv, [Next]_vars PROVE IInv'
  OBVIOUS
<1>1. CASE CreateSession
  <2>1. UNCHANGED defaulting /\ defaulting \in SUBSET Callers
    BY <1>1 DEF CreateSession, IInv, TypeOK
  <2> QED
    BY <1>1, <2>1, InsertPtyStep DEF CreateSession
<1>2. CASE \E i \in Ids : RegisterSession(i)
  BY <1>2, RegisterStep
<1>3. CASE \E i \in Ids : UnregisterSession(i)
  BY <1>3, UnregisterStep
<1>4. CASE \E i \in Ids : TakeStdinRx(i)
  <2>1. PICK i \in Ids : TakeStdinRx(i)
    BY <1>4
  <2> DEFINE o == sessions[i]
  <2>2. /\ o \in Objs /\ object[o] \in Object /\ object[o].stdin = "session"
        /\ object' = [object EXCEPT ![o] = [object[o] EXCEPT !.stdin = "pipe"]]
        /\ UNCHANGED <<sessions, cleaner, defaulting>>
    BY <2>1 DEF TakeStdinRx, IInv, TypeOK
  <2> HIDE DEF o
  <2>3. object[o].kind # "pty"
    BY <2>2 DEF IInv, PtyStdinNotStolen
  <2>4. [object[o] EXCEPT !.stdin = "pipe"] \in Object
    BY <2>2 DEF Object
  <2>5. object' \in [Objs -> Object]
    BY <2>2, <2>4 DEF IInv, TypeOK
  <2>6. \A p \in Objs : p # o => object'[p] = object[p]
    BY <2>2 DEF IInv, TypeOK
  <2>7. /\ object'[o].kind = object[o].kind
        /\ object'[o].id = object[o].id
        /\ object'[o].child = object[o].child
        /\ object'[o].farewell = object[o].farewell
    BY <2>2 DEF IInv, TypeOK, Object
  <2> QED
    BY <2>2, <2>3, <2>5, <2>6, <2>7, ObjectStep
<1>5. CASE \E c \in Callers : DefaultSession(c)
  <2>1. /\ UNCHANGED <<sessions, object, cleaner>>
        /\ defaulting' \in SUBSET Callers
    BY <1>5 DEF DefaultSession, IInv, TypeOK
  <2>2. Registered' = Registered
    BY <2>1 DEF Registered
  <2> QED
    BY <2>1, <2>2 DEF IInv, TypeOK, CapacityBound, OwnId, OnlyPtyHasChild, PtyIdUnique,
       PtyStdinNotStolen, NoFarewellInMap, ScanIsOfMap, NotedDead
<1>6. CASE \E c \in Callers : DefaultCreate(c)
  <2>1. defaulting' \in SUBSET Callers /\ UNCHANGED cleaner
    BY <1>6 DEF DefaultCreate, IInv, TypeOK
  <2>2. CASE InsertPty
    BY <2>1, <2>2, InsertPtyStep
  <2>3. CASE UNCHANGED <<sessions, object>>
    <3>1. Registered' = Registered
      BY <2>3 DEF Registered
    <3> QED
      BY <2>1, <2>3, <3>1 DEF IInv, TypeOK, CapacityBound, OwnId, OnlyPtyHasChild,
         PtyIdUnique, PtyStdinNotStolen, NoFarewellInMap, ScanIsOfMap, NotedDead
  <2> QED
    BY <1>6, <2>2, <2>3 DEF DefaultCreate
<1>7. CASE \E o \in Objs : ShellExits(o) \/ JobsExit(o)
  <2>1. PICK o \in Objs, c \in {"exited", "gone"} :
           /\ object[o].child \in {"running", "exited"}
           /\ object' = [object EXCEPT ![o] = [object[o] EXCEPT !.child = c]]
           /\ UNCHANGED <<sessions, cleaner, defaulting>>
    BY <1>7 DEF ShellExits, JobsExit
  <2>2. object[o] \in Object /\ object[o].kind = "pty"
    BY <2>1 DEF IInv, TypeOK, OnlyPtyHasChild
  <2>3. [object[o] EXCEPT !.child = c] \in Object
    BY <2>2 DEF Object
  <2>4. object' \in [Objs -> Object]
    BY <2>1, <2>3 DEF IInv, TypeOK
  <2>5. \A p \in Objs : p # o => object'[p] = object[p]
    BY <2>1 DEF IInv, TypeOK
  <2>6. /\ object'[o].kind = object[o].kind
        /\ object'[o].id = object[o].id
        /\ object'[o].child = c
        /\ object'[o].stdin = object[o].stdin
        /\ object'[o].farewell = object[o].farewell
    BY <2>1, <2>2 DEF IInv, TypeOK, Object
  <2> QED
    BY <2>1, <2>2, <2>4, <2>5, <2>6, ObjectStep
<1>8. CASE \E o \in Objs : ReaderEof(o)
  <2>1. PICK o \in Objs :
           /\ Dropped(o)
           /\ object' = [object EXCEPT ![o] =
                            [object[o] EXCEPT !.reader = FALSE, !.farewell = TRUE]]
           /\ UNCHANGED <<sessions, cleaner, defaulting>>
    BY <1>8 DEF ReaderEof, TerminalClosed
  <2>2. object[o] \in Object
    BY DEF IInv, TypeOK
  <2>3. [object[o] EXCEPT !.reader = FALSE, !.farewell = TRUE] \in Object
    BY <2>2 DEF Object
  <2>4. object' \in [Objs -> Object]
    BY <2>1, <2>3 DEF IInv, TypeOK
  <2>5. \A p \in Objs : p # o => object'[p] = object[p]
    BY <2>1 DEF IInv, TypeOK
  <2>6. /\ object'[o].kind = object[o].kind
        /\ object'[o].id = object[o].id
        /\ object'[o].child = object[o].child
        /\ object'[o].stdin = object[o].stdin
    BY <2>1, <2>2 DEF IInv, TypeOK, Object
  <2> QED
    BY <2>1, <2>4, <2>5, <2>6, ObjectStep
<1>9. CASE Cleanup
  BY <1>9, CleanupStep
<1>10. CASE UNCHANGED vars
  <2>1. Registered' = Registered
    BY <1>10 DEF vars, Registered
  <2> QED
    BY <1>10, <2>1 DEF vars, IInv, TypeOK, CapacityBound, OwnId, OnlyPtyHasChild,
       PtyIdUnique, PtyStdinNotStolen, NoFarewellInMap, ScanIsOfMap, NotedDead
<1> QED
  BY <1>1, <1>2, <1>3, <1>4, <1>5, <1>6, <1>7, <1>8, <1>9, <1>10 DEF Next

(* The strengthened invariant holds in every reachable state.              *)
THEOREM InvariantHolds == Spec => []IInv
  BY InitIInv, NextIInv, PTL DEF Spec

-----------------------------------------------------------------------------
(* Every reachable state is well typed (session.rs:143-151, 264-287).      *)
THEOREM TypeCorrect == Spec => []TypeOK
<1>1. IInv => TypeOK
  BY DEF IInv
<1> QED
  BY <1>1, InvariantHolds, PTL

(* Whatever races, the map never exceeds max_sessions (session.rs:289).    *)
THEOREM CapacityHolds == Spec => []CapacityBound
<1>1. IInv => CapacityBound
  BY DEF IInv
<1> QED
  BY <1>1, InvariantHolds, PTL

(* take_stdin_rx never takes a PTY session's receiver (session.rs:375).    *)
THEOREM PtyStdinSafe == Spec => []PtyStdinNotStolen
<1>1. IInv => PtyStdinNotStolen
  BY DEF IInv
<1> QED
  BY <1>1, InvariantHolds, PTL

(* A PTY session whose clients were told it ended is not in the map.       *)
THEOREM FarewellIsFinal == Spec => []FarewellMeansGone
<1>1. IInv => FarewellMeansGone
  BY DEF IInv, NoFarewellInMap, FarewellMeansGone
<1> QED
  BY <1>1, InvariantHolds, PTL

(* The stale ids cleanup_dead acts on never cost a live PTY session its    *)
(* place in the map (session.rs:419-437).                                  *)
THEOREM CleanupNeverTakesLivePty == Spec => CleanupSparesLivePty
<1> DEFINE Spares == \A i \in Registered :
              CleanupRemove /\ i \in cleaner.dead => object[sessions[i]].child # "running"
<1>1. IInv => Spares
  <2> SUFFICES ASSUME IInv, NEW i \in Registered, i \in cleaner.dead
               PROVE  object[sessions[i]].child # "running"
    OBVIOUS
  <2>1. PICK o \in Objs : object[o].kind = "pty" /\ object[o].id = i
                            /\ object[o].child # "running"
    BY DEF IInv, NotedDead
  <2>2. sessions[i] \in Objs /\ object[sessions[i]].id = i
    BY DEF IInv, TypeOK, OwnId, Registered
  <2>3. CASE object[sessions[i]].kind = "pty"
    BY <2>1, <2>2, <2>3 DEF IInv, PtyIdUnique
  <2>4. CASE object[sessions[i]].kind # "pty"
    BY <2>2, <2>4 DEF IInv, OnlyPtyHasChild
  <2> QED
    BY <2>3, <2>4
<1>2. IInv /\ [Next]_vars => [Spares]_vars
  BY <1>1
<1> QED
  BY <1>2, InvariantHolds, PTL DEF Spec, CleanupSparesLivePty

-----------------------------------------------------------------------------
(* A session is stored under its own id, and one that loses its place      *)
(* leaves it empty: an insert takes only a free place, and what takes a    *)
(* session out is unregister_session, with a farewell, or the cleaner      *)
(* (session.rs:335-369, 429-437).                                          *)
THEOREM NeverDisplacedSilently == Spec => NoSilentDisplacement
<1> DEFINE Kept == \A i \in Ids :
              sessions[i] # None /\ sessions'[i] # sessions[i] =>
                 /\ object[sessions[i]].id = i
                 /\ sessions'[i] = None
                 /\ \/ object'[sessions[i]].farewell
                    \/ cleaner.pc = "remove"
<1>1. IInv /\ [Next]_vars => [Kept]_vars
  <2> SUFFICES ASSUME IInv, Next, NEW i \in Ids, sessions[i] # None,
                      sessions'[i] # sessions[i]
               PROVE  /\ object[sessions[i]].id = i
                      /\ sessions'[i] = None
                      /\ \/ object'[sessions[i]].farewell
                         \/ cleaner.pc = "remove"
    BY DEF vars
  <2>1. object[sessions[i]].id = i /\ sessions[i] \in Objs
    BY DEF IInv, TypeOK, OwnId, Registered
  <2>2. ASSUME InsertPty PROVE FALSE
    <3>1. PICK o \in Objs, j \in FreshIds : sessions' = [sessions EXCEPT ![j] = o]
      BY <2>2 DEF InsertPty
    <3>2. i = j
      BY <3>1 DEF IInv, TypeOK
    <3> QED
      BY <2>1, <3>2 DEF FreshIds
  <2>3. ASSUME NEW j \in Ids, RegisterSession(j) PROVE FALSE
    <3>1. sessions[j] = None /\ \E o \in Objs : sessions' = [sessions EXCEPT ![j] = o]
      BY <2>3 DEF RegisterSession
    <3> QED
      BY <3>1 DEF IInv, TypeOK
  <2>4. ASSUME NEW j \in Ids, UnregisterSession(j)
        PROVE  sessions'[i] = None /\ object'[sessions[i]].farewell
    <3>1. /\ sessions' = [sessions EXCEPT ![j] = None]
          /\ object' = [object EXCEPT ![sessions[j]].farewell = TRUE]
      BY <2>4 DEF UnregisterSession
    <3>2. i = j
      BY <3>1 DEF IInv, TypeOK
    <3>3. object[sessions[i]] \in Object
      BY <2>1 DEF IInv, TypeOK
    <3> QED
      BY <2>1, <3>1, <3>2, <3>3 DEF IInv, TypeOK, Object
  <2>5. ASSUME CleanupRemove
        PROVE  sessions'[i] = None /\ cleaner.pc = "remove"
    BY <2>5 DEF CleanupRemove, IInv, TypeOK
  <2>6. ASSUME UNCHANGED sessions PROVE FALSE
    BY <2>6
  <2>7. CASE CreateSession
    BY <2>2, <2>7 DEF CreateSession
  <2>8. CASE \E c \in Callers : DefaultCreate(c)
    BY <2>2, <2>6, <2>8 DEF DefaultCreate
  <2>9. CASE \E j \in Ids : RegisterSession(j)
    BY <2>3, <2>9
  <2>10. CASE \E j \in Ids : UnregisterSession(j)
    BY <2>1, <2>4, <2>10
  <2>11. CASE Cleanup
    BY <2>1, <2>5, <2>6, <2>11 DEF Cleanup, CleanupBegin, CleanupScan, CleanupRelease
  <2>12. CASE \/ \E j \in Ids : TakeStdinRx(j)
              \/ \E c \in Callers : DefaultSession(c)
              \/ \E o \in Objs : ShellExits(o) \/ JobsExit(o) \/ ReaderEof(o)
    BY <2>6, <2>12 DEF TakeStdinRx, DefaultSession, ShellExits, JobsExit, ReaderEof
  <2> QED
    BY <2>7, <2>8, <2>9, <2>10, <2>11, <2>12 DEF Next
<1> QED
  BY <1>1, InvariantHolds, PTL DEF Spec, NoSilentDisplacement
=============================================================================
