--------------------------- MODULE AuthStoreProofs ---------------------------
(* Theorems of the user store, for any users, passwords, callers and bounds: a change that was    *)
(* answered is the one a restart loads, the login stays required, and no session outlives its     *)
(* account.  IInv follows a save from the copy of the users it took to the file.                  *)
EXTENDS AuthStore, FiniteSetTheorems, TLAPS

AtMostOne(f) == f = {} \/ \E c \in Content : f = {c}

SessionType == [user : Users, created : 1..MaxAccounts, late : BOOLEAN]

(* TypeOK, its Cardinality spelt out.                                                             *)
Typed ==
  /\ users \in Store /\ call \in [Savers -> CallType]
  /\ \A t \in DOMAIN sessions : t \in Tokens /\ sessions[t] \in SessionType
  /\ AtMostOne(file) /\ AtMostOne(tmp)
  /\ made \in 0..MaxAccounts /\ troubles \in 0..MaxEvents /\ doubt \subseteq Users
  /\ orphaned \subseteq 1..MaxAccounts

Flags == {up, overlap, foreign, added} \subseteq BOOLEAN

(* A login, and a deletion that is yet to drop the sessions, have the stamp of their account.     *)
Fits(c) == /\ c.op = "login" \/ c.at = "kick" => c.created \in 1..MaxAccounts
           /\ c.at = "kick" => c.op = "delete"
           /\ c.at = "change" => c.op = "password"
           /\ c.at # "idle" => c.op # "none"
Stamped == \A s \in Savers : Fits(call[s])

(* A server that is down has neither requests nor sessions.                                       *)
Down == ~up => \A c \in Callers : call[c].at = "idle"
DownHasNoSessions == ~up => DOMAIN sessions = {}

(* A request that changed a user found one or made one, and the last one stays.                   *)
Populated == \A c \in Callers : call[c].at \notin {"idle", "change"} => DOMAIN users # {}
SavesSomeone == \A s \in Savers : Saving(s) => DOMAIN call[s].data # {}

(* Unless saves overlapped: one is under way at most, and what it renames is what it copied.      *)
OneSave == ~overlap => \A s, v \in Savers : Saving(s) /\ Saving(v) => s = v
TmpIsData == ~overlap => \A s \in Savers : call[s].at = "rename" => tmp = {Whole(call[s].data)}

(* The copy a save took agrees with memory about every user whom no request has changed that is   *)
(* yet to take its own copy, or was dropped first.                                                *)
AboutToSave(u, s) ==
  \E d \in Callers \ {s} :
    call[d].user = u /\ call[d].at \in {"kick", "save"} /\ call[d].op # "login"

DataIsUsers ==
  ~overlap => \A s \in Callers : Saving(s) =>
                \A u \in Users \ doubt :
                  ~AboutToSave(u, s) => Entry(call[s].data, u) = Entry(users, u)

(* AckedChangeIsDurable, already while a request whose save is done has not answered.             *)
Unsettled(u) ==
  \E c \in Callers : /\ call[c].user = u /\ call[c].op # "login"
                     /\ call[c].at \in {"kick", "save", "write", "rename", "failed"}

Settled ==
  (up /\ ~overlap /\ ~foreign) =>
     \A u \in Users \ doubt : ~Unsettled(u) => Entry(Load(file), u) = Entry(users, u)

(* A file that was saved holds somebody, and so does the memory that was loaded from it.          *)
FileKept ==
  (~overlap /\ (added \/ \E s \in Savers : call[s].at = "saved")) => DOMAIN Load(file) # {}

Required ==
  (up /\ ~overlap /\ ~foreign /\ (added \/ call[Cli].at = "saved")) => DOMAIN users # {}

(* SessionsHaveAccounts, and the deletion that is about to drop a session is that of its account. *)
Accounted ==
  \A t \in DOMAIN sessions :
    LET s == sessions[t]
    IN \/ s.late \/ s.created \in orphaned
       \/ s.user \in DOMAIN users /\ users[s.user].created = s.created
       \/ \E c \in Callers : /\ call[c].at = "kick"
                             /\ call[c].user = s.user /\ call[c].created = s.created

IInv ==
  /\ Typed /\ Flags /\ Stamped /\ Down /\ DownHasNoSessions /\ Populated /\ SavesSomeone
  /\ OneSave /\ TmpIsData /\ DataIsUsers /\ Settled /\ FileKept /\ Required
  /\ Accounted

-------------------------------------------------------------------------------
(* Stores, files and calls.                                                                       *)

(* A store is a function from some of the users to accounts.                                      *)
LEMMA StoreMember ==
  ASSUME NEW f
  PROVE  f \in Store <=> /\ DOMAIN f \subseteq Users
                         /\ f = [u \in DOMAIN f |-> f[u]]
                         /\ \A u \in DOMAIN f : f[u] \in Account
<1>1. ASSUME f \in Store
      PROVE  /\ DOMAIN f \subseteq Users
             /\ f = [u \in DOMAIN f |-> f[u]]
             /\ \A u \in DOMAIN f : f[u] \in Account
  BY <1>1 DEF Store
<1>2. ASSUME DOMAIN f \subseteq Users, f = [u \in DOMAIN f |-> f[u]],
             \A u \in DOMAIN f : f[u] \in Account
      PROVE  f \in Store
  <2>1. f \in [DOMAIN f -> Account] /\ DOMAIN f \in SUBSET Users
    BY <1>2
  <2> QED
    BY <2>1 DEF Store
<1> QED
  BY <1>1, <1>2

LEMMA NobodyIsStore == Nobody \in Store /\ DOMAIN Nobody = {}
<1>1. DOMAIN Nobody = {} /\ Nobody = [u \in DOMAIN Nobody |-> Nobody[u]]
  BY DEF Nobody
<1> QED
  BY <1>1, StoreMember

LEMMA WithIsStore ==
  ASSUME NEW store \in Store, NEW u \in Users, NEW account \in Account
  PROVE  With(store, u, account) \in Store /\ u \in DOMAIN With(store, u, account)
<1> DEFINE f == With(store, u, account)
<1>1. DOMAIN store \subseteq Users /\ \A v \in DOMAIN store : store[v] \in Account
  BY StoreMember
<1>2. /\ DOMAIN f = DOMAIN store \cup {u} /\ f = [v \in DOMAIN f |-> f[v]]
      /\ \A v \in DOMAIN f : f[v] \in Account
  BY <1>1 DEF With
<1> QED
  BY <1>1, <1>2, StoreMember

LEMMA WithoutIsStore ==
  ASSUME NEW store \in Store, NEW u \in Users
  PROVE  Without(store, u) \in Store
<1> DEFINE f == Without(store, u)
<1>1. DOMAIN store \subseteq Users /\ \A v \in DOMAIN store : store[v] \in Account
  BY StoreMember
<1>2. /\ DOMAIN f = DOMAIN store \ {u} /\ f = [v \in DOMAIN f |-> f[v]]
      /\ \A v \in DOMAIN f : f[v] \in Account
  BY <1>1 DEF Without
<1> QED
  BY <1>1, <1>2, StoreMember

LEMMA LoadOfSaved == \A store : Load({Whole(store)}) = store
<1> SUFFICES ASSUME NEW store PROVE Load({Whole(store)}) = store
  OBVIOUS
<1>1. (CHOOSE c \in {Whole(store)} : TRUE) = Whole(store)
  OBVIOUS
<1> QED
  BY <1>1 DEF Load, Whole

LEMMA LoadIsStore == ASSUME NEW f, AtMostOne(f) PROVE Load(f) \in Store
<1>1. CASE f = {}
  BY <1>1, NobodyIsStore DEF Load
<1>2. ASSUME NEW c \in Content, f = {c} PROVE Load(f) \in Store
  <2>1. Load(f) = c.users
    BY <1>2 DEF Load
  <2>2. c.users \in Store
    BY NobodyIsStore DEF Content, Whole, Torn
  <2> QED
    BY <2>1, <2>2
<1> QED
  BY <1>1, <1>2 DEF AtMostOne

LEMMA IdleIsCall == Idle \in CallType
<1>1. (CHOOSE u \in Users : TRUE) \in Users
  BY AuthAssumption
<1> QED
  BY <1>1, NobodyIsStore, AuthAssumption DEF Idle, FirstUser, CallType

LEMMA WholeIsContent == \A store \in Store : Whole(store) \in Content
BY DEF Content

-------------------------------------------------------------------------------
LEMMA InvariantIsTyped == Typed /\ Flags => TypeOK
<1> SUFFICES ASSUME Typed, Flags PROVE TypeOK
  OBVIOUS
<1>1. ASSUME NEW f, AtMostOne(f) PROVE f \subseteq Content /\ Cardinality(f) <= 1
  <2>1. CASE f = {}
    BY <2>1, FS_EmptySet
  <2>2. ASSUME NEW c \in Content, f = {c} PROVE f \subseteq Content /\ Cardinality(f) <= 1
    <3>1. Cardinality({c}) = 1
      BY FS_Singleton, Zenon
    <3> QED
      BY <2>2, <3>1
  <2> QED
    BY <1>1, <2>1, <2>2 DEF AtMostOne
<1>2. \A f \in {file, tmp} : f \subseteq Content /\ Cardinality(f) <= 1
  BY <1>1 DEF Typed
<1> QED
  BY <1>2 DEF Typed, Flags, TypeOK, SessionType

(* What every step on the sessions keeps of them.                                                 *)
LEMMA KeptSessions ==
  ASSUME Typed, NEW S \in SUBSET DOMAIN sessions, sessions' = Kept(S)
  PROVE  /\ DOMAIN sessions' = S /\ \A t \in S : sessions'[t] = sessions[t]
         /\ \A t \in DOMAIN sessions' : t \in Tokens /\ sessions'[t] \in SessionType
BY DEF Typed, Kept

LEMMA InitInvariant == Init => IInv
<1> SUFFICES ASSUME Init PROVE IInv
  OBVIOUS
<1>1. \A s \in Savers : call[s] = Idle
  BY DEF Init
<1>2. Idle.at = "idle" /\ Idle.op = "none"
  BY DEF Idle
<1>3. Typed
  BY NobodyIsStore, IdleIsCall, AuthAssumption DEF Init, Typed, AtMostOne
<1>4. Flags
  BY Zenon DEF Init, Flags
<1>5. Load(file) = users
  BY DEF Init, Load
<1> QED
  BY <1>1, <1>2, <1>3, <1>4, <1>5
     DEF IInv, Init, Stamped, Fits, Down, DownHasNoSessions, Populated, SavesSomeone, OneSave,
         TmpIsData, DataIsUsers, Settled, FileKept, Required, Accounted, Saving, Savers
-------------------------------------------------------------------------------
(* Types.                                                                                         *)

LEMMA HandlerIsTyped ==
  ASSUME Typed, Stamped, NEW c \in Callers, Handler(c)
  PROVE  Typed' /\ Stamped'
<1> USE DEF Typed, Stamped
<1>1. /\ c \in Savers /\ call[c] \in CallType /\ Fits(call[c])
      /\ Idle \in CallType /\ Idle.op = "none" /\ Idle.at = "idle"
  BY IdleIsCall DEF Savers, Idle
<1>2. ASSUME NEW new \in CallType, call' = [call EXCEPT ![c] = new],
             Fits(new)
      PROVE  call' \in [Savers -> CallType] /\ \A s \in Savers : Fits(call'[s])
  BY <1>1, <1>2
<1>3. ASSUME NEW u \in Users, NEW store \in Store, NEW op \in {"login", "add", "delete"},
             NEW at \in {"kick", "save"}, op # "add" => u \in DOMAIN users,
             at = "kick" => op = "delete", Begins(c, op, u, at, store)
      PROVE  /\ users' \in Store /\ call' \in [Savers -> CallType]
             /\ \A s \in Savers : Fits(call'[s])
  <2> DEFINE created == IF op = "add" THEN 0 ELSE users[u].created
             new == [Idle EXCEPT !.at = at, !.op = op, !.user = u, !.created = created]
  <2>1. created \in 0..MaxAccounts /\ (op # "add" => created \in 1..MaxAccounts)
    BY <1>3, StoreMember, AuthAssumption DEF Account
  <2>2. new \in CallType /\ Fits(new)
    BY <1>1, <1>3, <2>1 DEF CallType, Fits
  <2>3. call' = [call EXCEPT ![c] = new] /\ users' = store
    BY <1>3 DEF Begins
  <2> QED
    BY <1>2, <2>1, <2>2, <2>3
<1>4. ASSUME NEW u \in Users, Login(c, u) PROVE Typed' /\ Stamped'
  BY <1>3, <1>4 DEF Login, disk, bounds, history, AtMostOne
<1>5. ASSUME NEW u \in Users, DeleteUser(c, u) PROVE Typed' /\ Stamped'
  BY <1>3, <1>5, WithoutIsStore DEF DeleteUser, disk, bounds, history, AtMostOne
<1>6. ASSUME NEW u \in Users, NEW p \in Passwords, AddUser(c, u, p) PROVE Typed' /\ Stamped'
  <2>1. NewAccount(p) \in Account /\ made' \in 0..MaxAccounts
    BY <1>6, AuthAssumption DEF AddUser, NameFor, NewAccount, Account
  <2>2. With(users, u, NewAccount(p)) \in Store
    BY <2>1, WithIsStore
  <2> QED
    BY <1>3, <1>6, <2>1, <2>2 DEF AddUser, disk, history, AtMostOne
<1>7. ASSUME NEW u \in Users, NEW cookies, AskCaller(c, u, cookies)
      PROVE  Typed' /\ Stamped'
  <2>1. PICK left \in SUBSET DOMAIN sessions :
          /\ sessions' = Kept(left)
          /\ call' = [call EXCEPT ![c] =
                        [Idle EXCEPT !.at = "change", !.op = "password", !.user = u,
                                     !.caller = {sessions[t].user : t \in cookies \cap left}
                                                \cap {u}]]
    BY <1>7 DEF AskCaller
  <2> DEFINE caller == {sessions[t].user : t \in cookies \cap left} \cap {u}
             new == [Idle EXCEPT !.at = "change", !.op = "password", !.user = u, !.caller = caller]
  <2>2. caller \subseteq Users
    OBVIOUS
  <2>3. call' \in [Savers -> CallType] /\ Stamped'
    <3> HIDE DEF caller
    <3>1. new \in CallType /\ Fits(new)
      BY <1>1, <2>2 DEF CallType, Fits
    <3>2. call' = [call EXCEPT ![c] = new]
      BY <2>1 DEF caller
    <3> HIDE DEF new
    <3> QED
      BY <1>2, <3>1, <3>2
  <2>4. \A t \in DOMAIN sessions' : t \in Tokens /\ sessions'[t] \in SessionType
    BY <2>1, KeptSessions
  <2> QED
    BY <1>7, <2>3, <2>4 DEF AskCaller, disk, bounds, history, AtMostOne
<1>8. CASE Kick(c)
  <2>1. call' \in [Savers -> CallType] /\ Stamped'
    BY <1>1, <1>8 DEF Kick, CallType, Fits
  <2>2. \A t \in DOMAIN sessions' : t \in Tokens /\ sessions'[t] \in SessionType
    BY <1>8, KeptSessions DEF Kick, OthersThan
  <2> QED
    BY <1>8, <2>1, <2>2 DEF Kick, disk, bounds, history, AtMostOne
<1>9. CASE Snapshot(c)
  <2>1. call' \in [Savers -> CallType] /\ Stamped'
    BY <1>1, <1>9 DEF Snapshot, CallType, Fits
  <2> QED
    BY <1>9, <2>1 DEF Snapshot, disk, bounds, AtMostOne
<1>10. CASE Answer(c)
  <2>1. call' \in [Savers -> CallType] /\ Stamped'
    BY <1>1, <1>10 DEF Answer, Fits
  <2>2. doubt' \subseteq Users
    BY <1>1, <1>10 DEF Answer, CallType
  <2> QED
    BY <1>10, <2>1, <2>2 DEF Answer, disk, bounds, AtMostOne
<1>11. ASSUME NEW p \in Passwords, NEW old \in Passwords, ChangePassword(c, p, old)
       PROVE  Typed' /\ Stamped'
  <2> DEFINE u == call[c].user
  <2>1. u \in Users
    BY <1>1 DEF CallType
  <2>2. CASE users' = users /\ call' = [call EXCEPT ![c] = Idle]
    BY <1>1, <1>11, <2>2 DEF Fits, ChangePassword, disk, bounds, history, AtMostOne
  <2>3. CASE /\ u \in DOMAIN users /\ users' = [users EXCEPT ![u].password = p]
             /\ call' = [call EXCEPT ![c] = [@ EXCEPT !.at = "save", !.caller = {}]]
    <3> DEFINE new == [call[c] EXCEPT !.at = "save", !.caller = {}]
    <3>0. call[c].at = "change"
      BY <1>11 DEF ChangePassword
    <3>1. call' \in [Savers -> CallType] /\ Stamped'
      <4>1. new \in CallType /\ Fits(new)
        BY <1>1, <3>0 DEF CallType, Fits
      <4>2. call' = [call EXCEPT ![c] = new]
        BY <2>3
      <4> HIDE DEF new
      <4> QED
        BY <1>2, <4>1, <4>2
    <3>2. /\ DOMAIN users' = DOMAIN users /\ users' = [v \in DOMAIN users' |-> users'[v]]
          /\ \A v \in DOMAIN users : users'[v] \in Account
      <4>1. users = [v \in DOMAIN users |-> users[v]] /\ \A v \in DOMAIN users : users[v] \in Account
        BY StoreMember
      <4> DEFINE account == [users[u] EXCEPT !.password = p]
      <4>2. account \in Account /\ users' = [users EXCEPT ![u] = account]
        BY <2>3, <4>1 DEF Account
      <4> HIDE DEF account
      <4> QED
        BY <2>3, <4>1, <4>2
    <3>3. users' \in Store
      BY <3>2, StoreMember
    <3> QED
      BY <1>11, <3>1, <3>3 DEF ChangePassword, disk, bounds, history, AtMostOne
  <2> QED
    BY <1>11, <2>2, <2>3 DEF ChangePassword
<1>12. ASSUME NEW t \in Tokens, InsertSession(c, t) PROVE Typed' /\ Stamped'
  <2> DEFINE u == call[c].user
             gone == u \notin DOMAIN users \/ users[u].created # call[c].created
             new == [user |-> u, created |-> call[c].created, late |-> gone]
  <2>1. gone \in BOOLEAN
    BY Zenon
  <2>2. u \in Users /\ call[c].created \in 1..MaxAccounts
    BY <1>1, <1>12 DEF InsertSession, CallType, Fits
  <2>3. new \in SessionType
    BY <2>1, <2>2 DEF SessionType
  <2>4. sessions' = With(sessions, t, new)
    BY <1>12 DEF InsertSession
  <2>5. \A k \in DOMAIN sessions' : k \in Tokens /\ sessions'[k] \in SessionType
    <3> HIDE DEF new
    <3> QED
      BY <2>3, <2>4 DEF With
  <2>6. call' \in [Savers -> CallType] /\ Stamped' /\ doubt' \subseteq Users
    BY <1>1, <1>12, <2>2 DEF InsertSession, history, Fits
  <2> QED
    BY <1>12, <2>5, <2>6 DEF InsertSession, disk, bounds, history, AtMostOne
<1>13. CASE HangUp(c)
  <2>1. call' \in [Savers -> CallType] /\ Stamped'
    BY <1>1, <1>13 DEF HangUp, Fits
  <2>2. doubt' \subseteq Users /\ orphaned' \subseteq 1..MaxAccounts
    BY <1>1, <1>13 DEF HangUp, CallType, Fits
  <2>3. troubles' \in 0..MaxEvents
    BY <1>13, AuthAssumption DEF HangUp, Trouble
  <2> QED
    BY <1>13, <2>1, <2>2, <2>3 DEF HangUp, disk, AtMostOne
<1> QED
  BY <1>4, <1>5, <1>6, <1>7, <1>8, <1>9, <1>10, <1>11, <1>12, <1>13 DEF Handler

LEMMA StepIsTyped ==
  ASSUME Typed, Stamped, [Next]_vars
  PROVE  Typed' /\ Stamped'
<1> USE DEF Typed, Stamped
<1>1. ASSUME NEW s \in Savers, Save(s) PROVE Typed' /\ Stamped'
  <2>1. call[s] \in CallType /\ call[s].data \in Store /\ Torn \in Content
    BY DEF CallType, Content
  <2>2. call' \in [Savers -> CallType] /\ Stamped'
    <3>1. ASSUME NEW at \in {"saved", "failed"}, call' = [call EXCEPT ![s] = Saved(s, at)]
          PROVE  call' \in [Savers -> CallType] /\ Stamped'
      <4>1. /\ Saved(s, at) \in CallType /\ Saved(s, at).op = call[s].op
            /\ Saved(s, at).created = call[s].created /\ Saved(s, at).at = at
        BY <2>1, NobodyIsStore DEF Saved, CallType
      <4>2. Fits(call[s]) /\ call[s].at # "idle"
        BY <1>1 DEF Save, WriteTmp, Rename, SaveFails, Saving
      <4>3. Fits(Saved(s, at))
        BY <4>1, <4>2 DEF Fits
      <4> QED
        BY <3>1, <4>1, <4>3
    <3>2. CASE WriteTmp(s)
      BY <2>1, <3>2 DEF WriteTmp, CallType, Fits
    <3> QED
      BY <1>1, <3>1, <3>2 DEF Save, Rename, SaveFails
  <2>3. AtMostOne(file)' /\ AtMostOne(tmp)'
    BY <1>1, <2>1, WholeIsContent DEF Save, WriteTmp, Rename, SaveFails, AtMostOne, disk
  <2>4. made' = made /\ troubles' \in 0..MaxEvents /\ doubt' \subseteq Users /\ orphaned' = orphaned
    BY <1>1, AuthAssumption DEF Save, WriteTmp, Rename, SaveFails, Trouble, bounds, history
  <2>5. UNCHANGED <<users, sessions>>
    BY <1>1 DEF Save, WriteTmp, Rename, SaveFails
  <2> QED
    BY <2>2, <2>3, <2>4, <2>5
<1>2. CASE ValidateSession \/ \E t \in Tokens : Logout(t)
  <2>1. PICK S \in SUBSET DOMAIN sessions : sessions' = Kept(S)
    BY <1>2 DEF ValidateSession, Logout
  <2>2. \A t \in DOMAIN sessions' : t \in Tokens /\ sessions'[t] \in SessionType
    BY <2>1, KeptSessions
  <2> QED
    BY <1>2, <2>2 DEF ValidateSession, Logout, disk, bounds, history, AtMostOne
<1>3. CASE CliEnds
  BY <1>3, IdleIsCall DEF CliEnds, disk, bounds, AtMostOne, Idle, Fits
<1>4. ASSUME NEW u \in Users, NEW p \in Passwords, CliRead(u, p) PROVE Typed' /\ Stamped'
  <2>1. NewAccount(p) \in Account /\ made' \in 0..MaxAccounts
    BY <1>4, AuthAssumption DEF CliRead, NameFor, NewAccount, Account
  <2> DEFINE data == With(Load(file), u, NewAccount(p))
  <2>2. data \in Store
    BY <2>1, WithIsStore, LoadIsStore
  <2> HIDE DEF data
  <2>3. call' = [call EXCEPT ![Cli] = [Idle EXCEPT !.at = "write", !.op = "add", !.user = u,
                                                   !.data = data]]
    BY <1>4 DEF CliRead, data
  <2>4. call' \in [Savers -> CallType] /\ Stamped'
    BY <2>2, <2>3, IdleIsCall DEF CallType, Fits
  <2> QED
    BY <1>4, <2>1, <2>4 DEF CliRead, disk, AtMostOne
<1>5. CASE Stop
  <2>1. call' \in [Savers -> CallType] /\ Stamped'
    BY <1>5, IdleIsCall DEF Stop, Idle, Fits
  <2> QED
    BY <1>5, <2>1, NobodyIsStore, AuthAssumption DEF Stop, Trouble, disk, history, AtMostOne
<1>6. CASE Start
  BY <1>6, LoadIsStore DEF Start, disk, bounds, AtMostOne
<1>7. CASE UNCHANGED vars
  BY <1>7 DEF vars, disk, bounds, history, AtMostOne
<1> HIDE DEF Typed, Stamped
<1> QED
  BY <1>1, <1>2, <1>3, <1>4, <1>5, <1>6, <1>7, HandlerIsTyped DEF Next
-------------------------------------------------------------------------------
(* What a step does to the calls and to what a save moves, whichever handler takes it.            *)

Others(s) == \A v \in Savers \ {s} : call'[v] = call[v]
Moves(s, from, to) ==
  /\ call[s].at = from /\ call'[s].at = to /\ Others(s)
  /\ call'[s].user = call[s].user /\ call'[s].op = call[s].op
Elsewhere == UNCHANGED <<disk, up, foreign, added, doubt>>

Changes(c) ==           \* Login, AddUser, DeleteUser, and ChangePassword that may
  /\ up /\ Elsewhere /\ overlap' = overlap /\ Others(c)
  /\ call[c].at \in {"idle", "change"} /\ call'[c].at \in {"kick", "save"}
  /\ DOMAIN users' # {}
  /\ \A u \in Users : u # call'[c].user \/ call'[c].op = "login" =>
                      Entry(users', u) = Entry(users, u)
Asks(c) ==              \* AskCaller, and ChangePassword that may not
  /\ up /\ Elsewhere /\ UNCHANGED <<users, overlap>> /\ Others(c)
  /\ call[c].at \in {"idle", "change"} /\ call'[c].at \in {"idle", "change"}
Kicks(c) == up /\ Elsewhere /\ UNCHANGED <<users, overlap>> /\ Moves(c, "kick", "save")
Copies(c) ==            \* Snapshot
  /\ up /\ Elsewhere /\ users' = users /\ overlap' = (overlap \/ Another(c))
  /\ Moves(c, "save", "write") /\ call'[c].data = users
Writes(s) ==            \* WriteTmp
  /\ Running(s) /\ UNCHANGED <<users, file, up, overlap, foreign, added, doubt>>
  /\ tmp' = {Whole(call[s].data)} \/ Another(s)
  /\ Moves(s, "write", "rename") /\ call'[s].data = call[s].data
Renames(s) ==
  /\ Running(s) /\ UNCHANGED <<users, up, overlap, added>>
  /\ doubt' = IF s = Cli THEN doubt
              ELSE {u \in doubt : Entry(call[s].data, u) # Entry(users, u)}
  /\ file' = tmp \/ \E v \in Savers : call[v].at = "write"
  /\ foreign' = (foreign \/ (s = Cli /\ up))
  /\ Moves(s, "rename", "saved")
FailsToSave(s) ==
  /\ Running(s) /\ Elsewhere /\ UNCHANGED <<users, overlap>>
  /\ Moves(s, "write", "failed") \/ Moves(s, "rename", "failed")
Finishes(c) ==          \* InsertSession and Answer
  /\ up /\ UNCHANGED <<users, disk, up, overlap, foreign>> /\ Others(c)
  /\ call[c].at \in {"saved", "failed"} /\ call'[c].at = "idle"
  /\ doubt' = IF call[c].at = "failed" /\ call[c].op # "login" THEN doubt \cup {call[c].user}
              ELSE doubt
  /\ added' => added \/ call[c].at = "saved"
HangsUp(c) ==
  /\ up /\ UNCHANGED <<users, disk, up, overlap, foreign, added>> /\ Others(c)
  /\ call[c].at \in {"change", "kick", "save"} \/ call[c].op = "login"
  /\ call'[c].at = "idle"
  /\ doubt' = IF call[c].at \in {"kick", "save"} /\ call[c].op # "login"
              THEN doubt \cup {call[c].user} ELSE doubt
CliReads ==
  /\ UNCHANGED <<users, disk, up, foreign, doubt, added>> /\ Others(Cli)
  /\ overlap' = (overlap \/ \E s \in Callers : Saving(s))
  /\ call[Cli].at = "idle" /\ call'[Cli].at = "write" /\ DOMAIN call'[Cli].data # {}
CliFinishes ==
  /\ UNCHANGED <<users, disk, up, overlap, foreign, doubt>> /\ Others(Cli)
  /\ call[Cli].at \in {"saved", "failed"} /\ call'[Cli].at = "idle"
  /\ added' = (added \/ call[Cli].at = "saved")
Stops ==
  /\ up /\ ~up' /\ UNCHANGED <<disk, overlap, foreign, doubt, added>>
  /\ call'[Cli] = call[Cli] /\ \A c \in Callers : call'[c].at = "idle"
Starts ==
  /\ ~up /\ users' = Load(file) /\ UNCHANGED <<disk, call, overlap, added>>
Stays == UNCHANGED <<users, call, overlap>> /\ Elsewhere

StepKind ==
  \/ \E c \in Callers : Changes(c) \/ Asks(c) \/ Kicks(c) \/ Copies(c) \/ Finishes(c) \/ HangsUp(c)
  \/ \E s \in Savers : Writes(s) \/ Renames(s) \/ FailsToSave(s)
  \/ CliReads \/ CliFinishes \/ Stops \/ Starts \/ Stays

LEMMA DeletionLeavesOne ==
  ASSUME NEW S, NEW u \in S, Cardinality(S) > 1
  PROVE  S \ {u} # {}
<1> SUFFICES ASSUME S \ {u} = {} PROVE FALSE
  OBVIOUS
<1>1. S = {u}
  OBVIOUS
<1>2. Cardinality({u}) = 1
  BY FS_Singleton, Zenon
<1> QED
  BY <1>1, <1>2

LEMMA HandlerKind ==
  ASSUME Typed, Stamped, NEW c \in Callers, Handler(c)
  PROVE  Changes(c) \/ Asks(c) \/ Kicks(c) \/ Copies(c) \/ Finishes(c) \/ HangsUp(c)
<1> USE DEF Elsewhere, disk, bounds, history
<1>1. c \in Savers /\ call[c] \in CallType /\ call \in [Savers -> CallType]
  BY DEF Savers, Typed
<1>2. Idle.at = "idle" /\ Idle \in CallType
  BY IdleIsCall DEF Idle
<1>3. ASSUME NEW u \in Users, NEW store, NEW op, NEW at \in {"kick", "save"},
             Begins(c, op, u, at, store)
      PROVE  /\ up /\ Others(c) /\ users' = store
             /\ call[c].at = "idle" /\ call'[c].at = at /\ call'[c].user = u /\ call'[c].op = op
  BY <1>1, <1>3 DEF Begins, MayBegin, Others, Idle
<1>4. ASSUME NEW u \in Users, Login(c, u) PROVE Changes(c)
  BY <1>3, <1>4 DEF Login, Changes
<1>5. ASSUME NEW u \in Users, DeleteUser(c, u) PROVE Changes(c)
  <2>1. DOMAIN Without(users, u) # {}
    BY <1>5, DeletionLeavesOne DEF DeleteUser, Without
  <2>2. \A v \in Users : v # u => Entry(Without(users, u), v) = Entry(users, v)
    BY DEF Entry, Without
  <2> QED
    BY <1>3, <1>5, <2>1, <2>2 DEF DeleteUser, Changes
<1>6. ASSUME NEW u \in Users, NEW p \in Passwords, AddUser(c, u, p) PROVE Changes(c)
  <2>1. /\ DOMAIN With(users, u, NewAccount(p)) # {}
        /\ \A v \in Users : v # u => Entry(With(users, u, NewAccount(p)), v) = Entry(users, v)
    BY DEF Entry, With
  <2> QED
    BY <1>3, <1>6, <2>1 DEF AddUser, Changes
<1>7. ASSUME NEW u \in Users, NEW cookies, AskCaller(c, u, cookies) PROVE Asks(c)
  BY <1>1, <1>2, <1>7 DEF AskCaller, MayBegin, Asks, Others, CallType
<1>8. CASE Kick(c)
  BY <1>1, <1>8 DEF Kick, Kicks, Moves, Others, CallType
<1>9. CASE Snapshot(c)
  BY <1>1, <1>9 DEF Snapshot, Copies, Moves, Others, CallType
<1>10. CASE Answer(c)
  BY <1>1, <1>2, <1>10 DEF Answer, Finishes, Others
<1>11. ASSUME NEW p, NEW old, ChangePassword(c, p, old) PROVE Changes(c) \/ Asks(c)
  <2> DEFINE u == call[c].user
  <2>1. CASE users' = users /\ call' = [call EXCEPT ![c] = Idle]
    BY <1>1, <1>2, <1>11, <2>1 DEF ChangePassword, Asks, Others
  <2>2. CASE /\ u \in DOMAIN users /\ users' = [users EXCEPT ![u].password = p]
             /\ call' = [call EXCEPT ![c] = [@ EXCEPT !.at = "save", !.caller = {}]]
    <3>0. call[c].op = "password"
      BY <1>1, <1>11 DEF ChangePassword, Stamped, Fits
    <3>1. Others(c) /\ call'[c].at = "save" /\ call'[c].user = u /\ call'[c].op = "password"
      BY <1>1, <2>2, <3>0 DEF Others, CallType
    <3>2. DOMAIN users' # {} /\ \A v \in Users : v # u => Entry(users', v) = Entry(users, v)
      BY <2>2 DEF Entry
    <3> QED
      BY <1>11, <3>1, <3>2 DEF ChangePassword, Changes
  <2> QED
    BY <1>11, <2>1, <2>2 DEF ChangePassword
<1>12. ASSUME NEW t, InsertSession(c, t) PROVE Finishes(c)
  BY <1>1, <1>2, <1>12 DEF InsertSession, Finishes, Others
<1>13. CASE HangUp(c)
  BY <1>1, <1>2, <1>13 DEF HangUp, HangsUp, Others
<1> QED
  BY <1>4, <1>5, <1>6, <1>7, <1>8, <1>9, <1>10, <1>11, <1>12, <1>13 DEF Handler

LEMMA EveryStepHasKind ==
  ASSUME Typed, Stamped, [Next]_vars
  PROVE  StepKind
<1> USE DEF Elsewhere, disk, bounds, history
<1>1. call \in [Savers -> CallType] /\ Cli \in Savers /\ Callers \subseteq Savers
  BY DEF Savers, Typed
<1>2. Idle.at = "idle" /\ Idle \in CallType
  BY IdleIsCall DEF Idle
<1>3. ASSUME NEW s \in Savers, Save(s) PROVE Writes(s) \/ Renames(s) \/ FailsToSave(s)
  <2>1. CASE WriteTmp(s)
    BY <1>1, <2>1 DEF WriteTmp, Writes, Moves, Others, CallType
  <2>2. CASE Rename(s)
    BY <1>1, <2>2 DEF Rename, Saved, Renames, Moves, Others, CallType
  <2>3. CASE SaveFails(s)
    BY <1>1, <2>3 DEF SaveFails, Saving, Saved, FailsToSave, Moves, Others, CallType
  <2> QED
    BY <1>3, <2>1, <2>2, <2>3 DEF Save
<1>4. ASSUME CliEnds PROVE CliFinishes
  BY <1>1, <1>2, <1>4 DEF CliEnds, CliFinishes, Others
<1>5. ASSUME NEW u, NEW p, CliRead(u, p) PROVE CliReads
  <2>1. DOMAIN With(Load(file), u, NewAccount(p)) # {}
    BY DEF With
  <2> QED
    BY <1>1, <1>2, <1>5, <2>1 DEF CliRead, MayBegin, CliReads, Others, CallType
<1>6. ASSUME Stop PROVE Stops
  BY <1>1, <1>2, <1>6, AuthAssumption DEF Stop, Stops
<1>7. ASSUME Start PROVE Starts
  BY <1>7 DEF Start, Starts
<1>8. ASSUME ValidateSession \/ (\E t \in Tokens : Logout(t)) \/ UNCHANGED vars PROVE Stays
  BY <1>8 DEF ValidateSession, Logout, Stays, vars
<1> QED
  BY <1>3, <1>4, <1>5, <1>6, <1>7, <1>8, HandlerKind DEF Next, StepKind
-------------------------------------------------------------------------------
(* The parts of the invariant, for a step of each kind.                                           *)

LEMMA DownKept ==
  ASSUME Down, Populated, StepKind
  PROVE  Down' /\ Populated'
<1> USE DEF Down, Populated, Others, Elsewhere, Savers
<1>1. ASSUME NEW c \in Callers, Changes(c) \/ Asks(c) \/ Kicks(c) \/ Copies(c) \/ Finishes(c)
                                \/ HangsUp(c)
      PROVE  Down' /\ Populated'
  BY <1>1 DEF Changes, Asks, Kicks, Copies, Finishes, HangsUp, Moves
<1>2. ASSUME NEW s \in Savers, Writes(s) \/ Renames(s) \/ FailsToSave(s)
      PROVE  Down' /\ Populated'
  BY <1>2 DEF Writes, Renames, FailsToSave, Moves, Running
<1>3. CASE CliReads \/ CliFinishes \/ Stops \/ Starts \/ Stays
  BY <1>3, AuthAssumption DEF CliReads, CliFinishes, Stops, Starts, Stays
<1> QED
  BY <1>1, <1>2, <1>3 DEF StepKind

LEMMA SavesSomeoneKept ==
  ASSUME SavesSomeone, Populated, StepKind
  PROVE  SavesSomeone'
<1> USE DEF SavesSomeone, Populated, Saving, Others, Savers
<1>1. ASSUME NEW c \in Callers, Changes(c) \/ Asks(c) \/ Kicks(c) \/ Copies(c) \/ Finishes(c)
                                \/ HangsUp(c)
      PROVE  SavesSomeone'
  BY <1>1 DEF Changes, Asks, Kicks, Copies, Finishes, HangsUp, Moves
<1>2. ASSUME NEW s \in Savers, Writes(s) \/ Renames(s) \/ FailsToSave(s)
      PROVE  SavesSomeone'
  BY <1>2 DEF Writes, Renames, FailsToSave, Moves
<1>3. CASE CliReads \/ CliFinishes \/ Stops \/ Starts \/ Stays
  BY <1>3, AuthAssumption DEF CliReads, CliFinishes, Stops, Starts, Stays
<1> QED
  BY <1>1, <1>2, <1>3 DEF StepKind

LEMMA OneSaveKept ==
  ASSUME OneSave, TmpIsData, StepKind
  PROVE  OneSave' /\ TmpIsData'
<1> USE DEF OneSave, TmpIsData, Saving, Others, Elsewhere, disk, Savers
<1>1. ASSUME NEW c \in Callers, Changes(c) \/ Asks(c) \/ Kicks(c) \/ Copies(c) \/ Finishes(c)
                                \/ HangsUp(c)
      PROVE  OneSave' /\ TmpIsData'
  BY <1>1 DEF Changes, Asks, Kicks, Copies, Finishes, HangsUp, Moves, Another
<1>2. ASSUME NEW s \in Savers, Writes(s) \/ Renames(s) \/ FailsToSave(s)
      PROVE  OneSave' /\ TmpIsData'
  BY <1>2 DEF Writes, Renames, FailsToSave, Moves, Another
<1>3. CASE CliReads \/ CliFinishes \/ Stops \/ Starts \/ Stays
  BY <1>3, AuthAssumption DEF CliReads, CliFinishes, Stops, Starts, Stays
<1> QED
  BY <1>1, <1>2, <1>3 DEF StepKind

LEMMA DataIsUsersKept ==
  ASSUME DataIsUsers, OneSave, Down, StepKind
  PROVE  DataIsUsers'
<1> USE DEF DataIsUsers, OneSave, Saving, Others, Elsewhere, AboutToSave, Savers
<1>1. ASSUME NEW c \in Callers, Changes(c)
      PROVE  DataIsUsers'
  <2> SUFFICES ASSUME ~overlap', NEW s \in Callers, Saving(s)',
                      NEW u \in Users \ doubt', ~AboutToSave(u, s)'
               PROVE  Entry(call[s].data, u)' = Entry(users, u)'
    OBVIOUS
  <2>1. s # c /\ call'[s] = call[s] /\ ~overlap
    BY <1>1 DEF Changes
  <2>2. u # call'[c].user \/ call'[c].op = "login"
    BY <1>1, <2>1 DEF Changes
  <2>3. Entry(users', u) = Entry(users, u)
    BY <1>1, <2>2 DEF Changes
  <2>4. ~AboutToSave(u, s) /\ u \notin doubt
    BY <1>1, <2>1 DEF Changes
  <2> QED
    BY <2>1, <2>3, <2>4 DEF Entry
<1>2. ASSUME NEW c \in Callers, Copies(c)
      PROVE  DataIsUsers'
  BY <1>2 DEF Copies, Moves, Another, Entry
<1>3. ASSUME NEW c \in Callers, Asks(c) \/ Kicks(c) \/ Finishes(c) \/ HangsUp(c)
      PROVE  DataIsUsers'
  BY <1>3 DEF Asks, Kicks, Finishes, HangsUp, Moves, Entry
<1>4. ASSUME NEW s \in Savers, Writes(s) \/ Renames(s) \/ FailsToSave(s)
      PROVE  DataIsUsers'
  BY <1>4 DEF Writes, Renames, FailsToSave, Moves, Entry
<1>5. CASE CliReads \/ CliFinishes \/ Stops \/ Starts \/ Stays
  <2>1. CASE CliReads
    BY <2>1, AuthAssumption DEF CliReads, Entry
  <2>2. CASE CliFinishes
    <3>1. /\ users' = users /\ overlap' = overlap /\ doubt' = doubt
          /\ \A c \in Callers : call'[c] = call[c]
      BY <2>2, AuthAssumption DEF CliFinishes
    <3> SUFFICES ASSUME ~overlap', NEW s \in Callers, Saving(s)',
                        NEW u \in Users \ doubt', ~AboutToSave(u, s)'
                 PROVE  Entry(call[s].data, u)' = Entry(users, u)'
      OBVIOUS
    <3>2. ~overlap /\ Saving(s) /\ u \notin doubt /\ call'[s] = call[s] /\ ~AboutToSave(u, s)
      BY <3>1
    <3> QED
      BY <3>1, <3>2 DEF Entry
  <2>3. CASE Stops
    BY <2>3 DEF Stops
  <2>4. CASE Starts
    BY <2>4 DEF Starts, Down
  <2>5. CASE Stays
    BY <2>5 DEF Stays, Entry
  <2> QED
    BY <1>5, <2>1, <2>2, <2>3, <2>4, <2>5
<1> QED
  BY <1>1, <1>2, <1>3, <1>4, <1>5 DEF StepKind

LEMMA RenameSettles ==
  ASSUME Settled, DataIsUsers, OneSave, TmpIsData, NEW s \in Savers, Renames(s)
  PROVE  Settled'
<1> USE DEF Others, Savers, Moves
<1> SUFFICES ASSUME up', ~overlap', ~foreign', NEW u \in Users \ doubt', ~Unsettled(u)'
             PROVE  Entry(Load(file), u)' = Entry(users, u)'
  BY DEF Settled
<1>1. up /\ ~overlap /\ s \in Callers /\ users' = users
  BY DEF Renames
<1>2. ~AboutToSave(u, s)
  BY DEF Renames, AboutToSave, Unsettled
<1>3. Entry(call[s].data, u) = Entry(users, u)
  <2>1. CASE u \in doubt
    BY <1>1, <2>1, AuthAssumption DEF Renames
  <2>2. CASE u \notin doubt
    BY <1>1, <1>2, <2>2 DEF DataIsUsers, Saving, Renames
  <2> QED
    BY <2>1, <2>2
<1>4. file' = {Whole(call[s].data)}
  BY <1>1 DEF Renames, OneSave, TmpIsData, Saving
<1>5. Load(file)' = call[s].data
  BY <1>4, LoadOfSaved DEF Load
<1> QED
  BY <1>1, <1>3, <1>5 DEF Entry

LEMMA SettledKept ==
  ASSUME Settled, DataIsUsers, OneSave, TmpIsData, Down, StepKind
  PROVE  Settled'
<1> USE DEF Others, Elsewhere, Savers, disk
<1>1. ASSUME UNCHANGED file, ~(up' /\ ~overlap' /\ ~foreign') \/ (up /\ ~overlap /\ ~foreign),
             \A u \in Users \ doubt' : ~Unsettled(u)' =>
               u \notin doubt /\ ~Unsettled(u) /\ Entry(users, u)' = Entry(users, u)
      PROVE  Settled'
  BY <1>1 DEF Settled, Load, Entry
<1>2. ASSUME NEW c \in Callers, Changes(c) PROVE Settled'
  <2>1. \A u \in Users \ doubt' : ~Unsettled(u)' =>
          u \notin doubt /\ ~Unsettled(u) /\ Entry(users, u)' = Entry(users, u)
    BY <1>2 DEF Changes, Unsettled, Entry
  <2> QED
    BY <1>1, <1>2, <2>1 DEF Changes
<1>3. ASSUME NEW c \in Callers, Asks(c) \/ Kicks(c) \/ Copies(c) \/ Finishes(c)
                                \/ HangsUp(c)
      PROVE  Settled'
  <2>1. \A u \in Users \ doubt' : ~Unsettled(u)' =>
          u \notin doubt /\ ~Unsettled(u) /\ Entry(users, u)' = Entry(users, u)
    BY <1>3 DEF Asks, Kicks, Copies, Finishes, HangsUp, Moves, Unsettled, Entry
  <2> QED
    BY <1>1, <1>3, <2>1 DEF Asks, Kicks, Copies, Finishes, HangsUp
<1>4. ASSUME NEW s \in Savers, Writes(s) \/ FailsToSave(s) PROVE Settled'
  <2>1. \A u \in Users \ doubt' : ~Unsettled(u)' =>
          u \notin doubt /\ ~Unsettled(u) /\ Entry(users, u)' = Entry(users, u)
    BY <1>4 DEF Writes, FailsToSave, Moves, Unsettled, Entry
  <2> QED
    BY <1>1, <1>4, <2>1 DEF Writes, FailsToSave
<1>5. CASE CliReads \/ CliFinishes \/ Stays
  <2>1. \A u \in Users \ doubt' : ~Unsettled(u)' =>
          u \notin doubt /\ ~Unsettled(u) /\ Entry(users, u)' = Entry(users, u)
    BY <1>5, AuthAssumption DEF CliReads, CliFinishes, Stays, Unsettled, Entry
  <2> QED
    BY <1>1, <1>5, <2>1 DEF CliReads, CliFinishes, Stays
<1>6. CASE Stops
  BY <1>6 DEF Stops, Settled
<1>7. CASE Starts
  BY <1>7 DEF Starts, Settled, Load, Entry
<1> QED
  BY <1>2, <1>3, <1>4, <1>5, <1>6, <1>7, RenameSettles DEF StepKind

LEMMA FileKeptKept ==
  ASSUME FileKept, OneSave, TmpIsData, SavesSomeone, StepKind
  PROVE  FileKept'
<1> USE DEF FileKept, Others, Elsewhere, Savers, disk, Load
<1>1. ASSUME NEW c \in Callers, Changes(c) \/ Asks(c) \/ Kicks(c) \/ Copies(c) \/ Finishes(c)
                                \/ HangsUp(c)
      PROVE  FileKept'
  BY <1>1 DEF Changes, Asks, Kicks, Copies, Finishes, HangsUp, Moves
<1>2. ASSUME NEW s \in Savers, Writes(s) \/ FailsToSave(s) PROVE FileKept'
  BY <1>2 DEF Writes, FailsToSave, Moves
<1>3. ASSUME NEW s \in Savers, Renames(s), ~overlap' PROVE DOMAIN Load(file)' # {}
  <2>1. file' = {Whole(call[s].data)}
    BY <1>3 DEF Renames, Moves, OneSave, TmpIsData, Saving
  <2>2. Load(file)' = call[s].data
    BY <2>1, LoadOfSaved
  <2> QED
    BY <1>3, <2>2 DEF SavesSomeone, Saving, Renames, Moves
<1>4. CASE CliReads \/ CliFinishes \/ Stops \/ Starts \/ Stays
  BY <1>4, AuthAssumption DEF CliReads, CliFinishes, Stops, Starts, Stays
<1> QED
  BY <1>1, <1>2, <1>3, <1>4 DEF StepKind

LEMMA RequiredKept ==
  ASSUME Required, Populated, FileKept, StepKind
  PROVE  Required'
<1> USE DEF Required, Others, Elsewhere, Savers
<1>1. ASSUME NEW c \in Callers, Changes(c) \/ Asks(c) \/ Kicks(c) \/ Copies(c) \/ Finishes(c)
                                \/ HangsUp(c)
      PROVE  Required'
  BY <1>1, AuthAssumption DEF Changes, Asks, Kicks, Copies, Finishes, HangsUp, Moves, Populated
<1>2. ASSUME NEW s \in Savers, Writes(s) \/ Renames(s) \/ FailsToSave(s) PROVE Required'
  BY <1>2, AuthAssumption DEF Writes, Renames, FailsToSave, Moves
<1>3. CASE CliReads \/ CliFinishes \/ Stops \/ Starts \/ Stays
  BY <1>3, AuthAssumption DEF CliReads, CliFinishes, Stops, Starts, Stays, FileKept
<1> QED
  BY <1>1, <1>2, <1>3 DEF StepKind

-------------------------------------------------------------------------------
(* The sessions.                                                                                  *)

LEMMA FlagsKept == ASSUME Flags, [Next]_vars PROVE Flags'
<1> DEFINE Set(was, is) == is = was \/ is = TRUE \/ is = FALSE
           FlagsSet == /\ Set(up, up') /\ Set(overlap, overlap')
                       /\ Set(foreign, foreign') /\ Set(added, added')
<1>1. ASSUME NEW c \in Callers, Handler(c) PROVE FlagsSet
  <2> USE DEF Begins, history, bounds, disk
  <2>1. CASE \E u \in Users : Login(c, u) \/ DeleteUser(c, u)
    BY <2>1 DEF Login, DeleteUser
  <2>2. CASE \E u \in Users, p \in Passwords : AddUser(c, u, p)
    BY <2>2 DEF AddUser
  <2>3. CASE \E u \in Users : \E cookies \in {{}} \cup {{t} : t \in Tokens} : AskCaller(c, u, cookies)
    BY <2>3 DEF AskCaller
  <2>4. CASE Kick(c)
    BY <2>4 DEF Kick
  <2>5. CASE Snapshot(c)
    BY <2>5 DEF Snapshot
  <2>6. CASE Answer(c)
    BY <2>6 DEF Answer
  <2>7. CASE \E p, old \in Passwords : ChangePassword(c, p, old)
    BY <2>7 DEF ChangePassword
  <2>8. CASE \E t \in Tokens : InsertSession(c, t)
    BY <2>8 DEF InsertSession
  <2>9. CASE HangUp(c)
    BY <2>9 DEF HangUp
  <2> QED
    BY <1>1, <2>1, <2>2, <2>3, <2>4, <2>5, <2>6, <2>7, <2>8, <2>9 DEF Handler
<1>2. ASSUME NEW s \in Savers, Save(s) PROVE FlagsSet
  <2> USE DEF history, bounds, disk
  <2>1. CASE WriteTmp(s)
    BY <2>1 DEF WriteTmp
  <2>2. CASE Rename(s)
    BY <2>2 DEF Rename
  <2>3. CASE SaveFails(s)
    BY <2>3 DEF SaveFails
  <2> QED
    BY <1>2, <2>1, <2>2, <2>3 DEF Save
<1>3. ASSUME NEW u \in Users, NEW p \in Passwords, CliRead(u, p) PROVE FlagsSet
  BY <1>3 DEF CliRead, bounds, disk
<1>4. ASSUME CliEnds \/ Stop \/ Start PROVE FlagsSet
  <2> USE DEF history, bounds, disk
  <2>1. CASE CliEnds
    BY <2>1 DEF CliEnds
  <2>2. CASE Stop
    BY <2>2 DEF Stop
  <2>3. CASE Start
    BY <2>3 DEF Start
  <2> QED
    BY <1>4, <2>1, <2>2, <2>3
<1>5. ASSUME ValidateSession \/ (\E t \in Tokens : Logout(t)) \/ UNCHANGED vars PROVE FlagsSet
  <2> USE DEF history, bounds, disk
  <2>1. CASE ValidateSession
    BY <2>1 DEF ValidateSession
  <2>2. CASE \E t \in Tokens : Logout(t)
    BY <2>2 DEF Logout
  <2>3. CASE UNCHANGED vars
    BY <2>3 DEF vars
  <2> QED
    BY <1>5, <2>1, <2>2, <2>3
<1>6. FlagsSet
  <2> HIDE DEF FlagsSet
  <2> QED
    BY <1>1, <1>2, <1>3, <1>4, <1>5 DEF Next
<1>7. up \in BOOLEAN /\ overlap \in BOOLEAN /\ foreign \in BOOLEAN /\ added \in BOOLEAN
  BY Zenon DEF Flags
<1> QED
  BY <1>6, <1>7, Zenon DEF Flags

(* What a step that neither deletes nor inserts leaves as it was.                                 *)
LEMMA SessionsKept ==
  ASSUME Accounted, DOMAIN sessions' \subseteq DOMAIN sessions,
         \A t \in DOMAIN sessions' : sessions'[t] = sessions[t],
         \A u \in DOMAIN users : u \in DOMAIN users' /\ users'[u].created = users[u].created,
         orphaned \subseteq orphaned',
         \A c \in Callers : call[c].at = "kick" =>
           \/ /\ call'[c].at = "kick"
              /\ call'[c].user = call[c].user /\ call'[c].created = call[c].created
           \/ call[c].created \in orphaned'
           \/ \A t \in DOMAIN sessions' : sessions[t].user # call[c].user
  PROVE  Accounted'
BY DEF Accounted

LEMMA DeleteKeepsAccounts ==
  ASSUME Accounted, Typed, NEW c \in Callers, NEW u \in Users, DeleteUser(c, u)
  PROVE  Accounted'
<1>1. /\ sessions' = sessions /\ users' = Without(users, u)
      /\ call[c].at = "idle" /\ call'[c].at = "kick" /\ call'[c].user = u
      /\ call'[c].created = users[u].created /\ orphaned' = orphaned
      /\ \A d \in Callers \ {c} : call'[d] = call[d]
  BY IdleIsCall DEF DeleteUser, Begins, MayBegin, Idle, CallType, Typed, Savers, history
<1> QED
  BY <1>1 DEF Accounted, Without

LEMMA InsertKeepsAccounts ==
  ASSUME Accounted, Typed, NEW c \in Callers, NEW t, InsertSession(c, t)
  PROVE  Accounted'
<1>1. /\ users' = users /\ orphaned' = orphaned /\ call[c].at # "kick"
      /\ \A d \in Callers \ {c} : call'[d] = call[d]
  BY DEF InsertSession, Typed, Savers, history
<1>2. /\ \A k \in DOMAIN sessions' \ {t} : k \in DOMAIN sessions /\ sessions'[k] = sessions[k]
      /\ sessions'[t].late
         \/ (sessions'[t].user \in DOMAIN users /\ users[sessions'[t].user].created = sessions'[t].created)
  BY DEF InsertSession, With
<1> QED
  BY <1>1, <1>2 DEF Accounted

LEMMA AccountedKept ==
  ASSUME Accounted, DownHasNoSessions, Typed, [Next]_vars
  PROVE  Accounted' /\ DownHasNoSessions'
<1> USE DEF DownHasNoSessions
<1>1. call \in [Savers -> CallType] /\ Callers \subseteq Savers /\ Cli \notin Callers
  BY AuthAssumption DEF Typed, Savers
<1>2. ASSUME NEW c \in Callers, Handler(c)
      PROVE  Accounted' /\ DownHasNoSessions'
  <2>1. up /\ up' = up
    BY <1>2 DEF Handler, Login, DeleteUser, AddUser, Begins, AskCaller, Kick, Snapshot, Answer,
                ChangePassword, InsertSession, HangUp
  <2>2. ASSUME NEW u \in Users, Login(c, u) PROVE Accounted'
    BY <1>1, <2>2, SessionsKept DEF Login, Begins, MayBegin, history
  <2>3. ASSUME NEW u \in Users, NEW p, AddUser(c, u, p) PROVE Accounted'
    BY <1>1, <2>3, SessionsKept DEF AddUser, Begins, MayBegin, With, history
  <2>4. ASSUME NEW u \in Users, NEW cookies, AskCaller(c, u, cookies) PROVE Accounted'
    BY <1>1, <2>4, SessionsKept DEF AskCaller, MayBegin, Kept, history
  <2>5. ASSUME Kick(c) PROVE Accounted'
    <3>1. /\ DOMAIN sessions' = OthersThan(call[c].user)
          /\ \A t \in DOMAIN sessions' : sessions'[t] = sessions[t]
          /\ UNCHANGED <<users, orphaned>> /\ \A d \in Callers \ {c} : call'[d] = call[d]
      BY <1>1, <2>5 DEF Kick, Kept, history
    <3> QED
      BY <3>1, SessionsKept DEF OthersThan
  <2>6. ASSUME Snapshot(c) \/ Answer(c) PROVE Accounted'
    BY <1>1, <2>6, SessionsKept DEF Snapshot, Answer
  <2>7. ASSUME NEW p, NEW old, ChangePassword(c, p, old) PROVE Accounted'
    <3>1. /\ UNCHANGED <<sessions, orphaned>> /\ call[c].at = "change"
          /\ \A d \in Callers \ {c} : call'[d] = call[d]
      BY <1>1, <2>7 DEF ChangePassword, history
    <3>2. \A u \in DOMAIN users : users[u] \in Account
      BY StoreMember DEF Typed
    <3>3. \A u \in DOMAIN users : u \in DOMAIN users' /\ users'[u].created = users[u].created
      BY <2>7, <3>2 DEF ChangePassword, Account
    <3> QED
      BY <3>1, <3>3, SessionsKept
  <2>8. ASSUME NEW u \in Users, DeleteUser(c, u) PROVE Accounted'
    BY <2>8, DeleteKeepsAccounts
  <2>9. ASSUME NEW t \in Tokens, InsertSession(c, t) PROVE Accounted'
    BY <2>9, InsertKeepsAccounts
  <2>10. ASSUME HangUp(c) PROVE Accounted'
    <3>1. /\ UNCHANGED <<users, sessions>> /\ orphaned \subseteq orphaned'
          /\ call[c].at = "kick" => call[c].created \in orphaned'
          /\ \A d \in Callers \ {c} : call'[d] = call[d]
      BY <1>1, <2>10 DEF HangUp
    <3> QED
      BY <3>1, SessionsKept
  <2>11. Accounted'
    BY <1>2, <2>2, <2>3, <2>4, <2>5, <2>6, <2>7, <2>8, <2>9, <2>10 DEF Handler
  <2> QED
    BY <2>1, <2>11
<1>3. ASSUME NEW s \in Savers, Save(s)
      PROVE  Accounted' /\ DownHasNoSessions'
  <2>1. UNCHANGED <<users, sessions, up, orphaned>>
    BY <1>3 DEF Save, WriteTmp, Rename, SaveFails, history
  <2>2. call[s].at # "kick" /\ \A c \in Callers \ {s} : call'[c] = call[c]
    BY <1>1, <1>3 DEF Save, WriteTmp, Rename, SaveFails, Saving
  <2> QED
    BY <2>1, <2>2, SessionsKept
<1>4. CASE ValidateSession \/ (\E t \in Tokens : Logout(t)) \/ UNCHANGED vars
  <2>1. /\ DOMAIN sessions' \subseteq DOMAIN sessions /\ UNCHANGED <<users, call, up, orphaned>>
        /\ \A t \in DOMAIN sessions' : sessions'[t] = sessions[t]
    BY <1>4 DEF ValidateSession, Logout, Kept, history, vars
  <2> QED
    BY <2>1, SessionsKept
<1>5. CASE CliEnds \/ \E u \in Users, p \in Passwords : CliRead(u, p)
  <2>1. UNCHANGED <<users, sessions, up, orphaned>> /\ \A c \in Callers : call'[c] = call[c]
    BY <1>1, <1>5 DEF CliEnds, CliRead
  <2> QED
    BY <2>1, SessionsKept
<1>6. CASE Stop
  BY <1>6 DEF Stop, Accounted
<1>7. CASE Start
  BY <1>7 DEF Start, Accounted
<1> QED
  BY <1>2, <1>3, <1>4, <1>5, <1>6, <1>7 DEF Next

-------------------------------------------------------------------------------
LEMMA NextKeepsInvariant == IInv /\ [Next]_vars => IInv'
<1> SUFFICES ASSUME IInv, [Next]_vars PROVE IInv'
  OBVIOUS
<1> USE DEF IInv
<1>1. StepKind
  BY EveryStepHasKind
<1>2. Typed' /\ Stamped'
  BY StepIsTyped
<1>3. Flags'
  BY FlagsKept
<1>4. Accounted' /\ DownHasNoSessions'
  BY AccountedKept
<1>5. Down' /\ Populated'
  BY <1>1, DownKept
<1>6. SavesSomeone'
  BY <1>1, SavesSomeoneKept
<1>7. OneSave' /\ TmpIsData'
  BY <1>1, OneSaveKept
<1>8. DataIsUsers'
  BY <1>1, DataIsUsersKept
<1>9. Settled'
  BY <1>1, SettledKept
<1>10. FileKept'
  BY <1>1, FileKeptKept
<1>11. Required'
  BY <1>1, RequiredKept
<1> QED
  BY <1>2, <1>3, <1>4, <1>5, <1>6, <1>7, <1>8, <1>9, <1>10, <1>11

THEOREM InvariantHolds == Spec => []IInv
BY InitInvariant, NextKeepsInvariant, PTL DEF Spec

(* Every variable keeps its type: a file and its temporary copy hold one content at most, and a   *)
(* session carries the stamp of an account that was made.                                         *)
THEOREM TypeHolds == Spec => []TypeOK
<1>1. IInv => TypeOK
  BY InvariantIsTyped DEF IInv
<1> QED
  BY <1>1, InvariantHolds, PTL

(* What was answered for a user is what a restart loads, whatever the other requests are in the   *)
(* middle of: no save that began later, ended later or was cut off by a stop takes it back        *)
(* (auth.rs:190-330).  Excused: saves that overlapped, the command writing beside the server, and *)
(* until the next save a user whose change was not saved, because the save failed or the request  *)
(* was dropped before it.                                                                         *)
THEOREM AckedChangeIsKept == Spec => []AckedChangeIsDurable
<1>1. ASSUME Stamped, Settled PROVE AckedChangeIsDurable
  <2>1. \A u \in Users : Unsettled(u) => Touching(u)
    BY <1>1 DEF Unsettled, Touching, Stamped, Fits, Savers
  <2> QED
    BY <1>1, <2>1 DEF Settled, AckedChangeIsDurable
<1>2. IInv => AckedChangeIsDurable
  BY <1>1 DEF IInv
<1> QED
  BY <1>2, InvariantHolds, PTL

(* Once an account was added the server never has no user, which would open it without a login:   *)
(* no deletion removes the last one, and no restart loads a file without one (auth.rs:296-318).   *)
THEOREM LoginRemains == Spec => []LoginStaysRequired
<1>1. IInv => LoginStaysRequired
  BY NobodyIsStore DEF IInv, Required, LoginStaysRequired
<1> QED
  BY <1>1, InvariantHolds, PTL

(* A session is of an account that exists, or of one whose deletion is about to drop it, and a    *)
(* name added again inherits none (auth.rs:232-318).  Excused: the session of a login whose       *)
(* account was deleted since it was checked, and those of a deletion whose request was dropped    *)
(* before it dropped them, which a name added again does inherit.                                 *)
THEOREM NoSessionOfAnother == Spec => []SessionsHaveAccounts
<1>1. IInv => SessionsHaveAccounts
  BY DEF IInv, Accounted, SessionsHaveAccounts
<1> QED
  BY <1>1, InvariantHolds, PTL
===============================================================================
