------------------------------ MODULE AuthStore ------------------------------
(* The user store of auth.rs: users in memory under one lock, browser sessions under another, and *)
(* the file users.toml, written through one temporary file by every handler that changed a user   *)
(* and by the add-user command, a process of its own.  Handlers run in parallel; no lock is held  *)
(* from one step below to another.  created is created_at, and tells accounts apart: a name that  *)
(* is deleted and added again is another account.                                                 *)
EXTENDS Naturals, FiniteSets

CONSTANTS Users,        \* names
          Passwords,
          Callers,      \* requests served at a time
          Cli,          \* the add-user command
          Tokens,       \* session tokens in use at a time
          MaxAccounts,  \* bound on the accounts ever made
          MaxCalls,     \* bound on the calls under way at a time, the command's among them
          MaxEvents     \* bound on the accounts made and the troubles, together

ASSUME AuthAssumption == /\ {MaxAccounts, MaxCalls, MaxEvents} \subseteq Nat
                         /\ Cli \notin Callers /\ Passwords # {} /\ Users # {}

VARIABLES users,        \* AuthState.users, by name
          sessions,     \* AuthState.sessions, by token
          file, tmp,    \* users.toml and users.toml.tmp: at most one content
          call,         \* the requests, and the command
          up,
          made,         \* accounts made
          troubles,     \* stops of the server, saves that failed and requests dropped
          overlap,      \* two saves were under way at a time: history
          foreign,      \* the command wrote while the server ran, since its start: history
          doubt,        \* users that a request changed and did not save, until one does: history
          orphaned,     \* accounts whose deletion was dropped before their sessions were: history
          added         \* an account was added and answered for: history

disk == <<file, tmp>>
history == <<overlap, foreign, doubt, orphaned, added>>
bounds == <<made, troubles>>
vars == <<users, sessions, disk, call, up, bounds, history>>

Savers == Callers \cup {Cli}
Account == [created : 1..MaxAccounts, password : Passwords]
Store == UNION {[names -> Account] : names \in SUBSET Users}
Nobody == [u \in {} |-> u]

(* An empty file is a store with no users; Torn is the text of two writes.                        *)
Whole(store) == [torn |-> FALSE, users |-> store]
Torn == [torn |-> TRUE, users |-> Nobody]
Content == {Whole(store) : store \in Store} \cup {Torn}

(* load: a file that is missing or does not parse is a store with no users.                       *)
Load(f) == IF f = {} THEN Nobody ELSE (CHOOSE c \in f : TRUE).users

CallType == [at : {"idle", "kick", "change", "save", "write", "rename", "saved", "failed"},
             op : {"none", "login", "add", "delete", "password"},
             user : Users, created : 0..MaxAccounts, caller : SUBSET Users,
             data : Store]

FirstUser == CHOOSE u \in Users : TRUE

Idle == [at |-> "idle", op |-> "none", user |-> FirstUser, created |-> 0,
         caller |-> {}, data |-> Nobody]

TypeOK ==
  /\ users \in Store /\ call \in [Savers -> CallType]
  /\ \A t \in DOMAIN sessions :
       t \in Tokens /\ sessions[t] \in [user : Users, created : 1..MaxAccounts, late : BOOLEAN]
  /\ \A f \in {file, tmp} : f \subseteq Content /\ Cardinality(f) <= 1
  /\ made \in 0..MaxAccounts /\ troubles \in 0..MaxEvents
  /\ {up, overlap, foreign, added} \subseteq BOOLEAN /\ doubt \subseteq Users
  /\ orphaned \subseteq 1..MaxAccounts

Init ==
  /\ users = Nobody /\ sessions = [t \in {} |-> t] /\ file = {} /\ tmp = {}
  /\ call = [s \in Savers |-> Idle] /\ up = TRUE /\ made = 0 /\ troubles = 0
  /\ overlap = FALSE /\ foreign = FALSE /\ doubt = {} /\ orphaned = {} /\ added = FALSE

-------------------------------------------------------------------------------
(* Handlers, up to the save.  Each first step holds the lock on users from its test to its        *)
(* change, password hashing included.  Bound: once two saves overlapped, or until the server      *)
(* starts again once the command wrote beside it, what the calls under way leave is explored, and *)
(* no call begins.                                                                                *)
MayBegin(s) ==
  /\ ~overlap /\ ~foreign /\ call[s].at = "idle"
  /\ Cardinality({v \in Savers : call[v].at # "idle"}) < MaxCalls

Begins(c, op, u, at, store) ==
  /\ up /\ MayBegin(c)
  /\ users' = store
  /\ call' = [call EXCEPT ![c] =
                [Idle EXCEPT !.at = at, !.op = op, !.user = u,
                             !.created = IF op = "add" THEN 0 ELSE users[u].created]]

(* A login with the right password; another changes nothing.  It sets last_login, which is left   *)
(* out, and saves.                                                                                *)
Login(c, u) ==
  /\ u \in DOMAIN users
  /\ Begins(c, "login", u, "save", users)
  /\ UNCHANGED <<sessions, disk, up, bounds, history>>

With(store, u, account) ==
  [v \in DOMAIN store \cup {u} |-> IF v = u THEN account ELSE store[v]]

UnstampedAccount(p) == [created |-> 0, password |-> p]     \* mutated

NewAccount(p) == [created |-> made + 1, password |-> p]

(* Names are alike.  Bounds: the accounts made, and the name of the first.                        *)
NameFor(u) ==
  made < MaxAccounts /\ made + troubles < MaxEvents /\ (made = 0 => u = FirstUser)

AddUser(c, u, p) ==
  /\ u \notin DOMAIN users /\ NameFor(u) /\ made' = made + 1
  /\ Begins(c, "add", u, "save", With(users, u, NewAccount(p)))
  /\ UNCHANGED <<sessions, disk, up, troubles, history>>

Without(store, u) == [v \in DOMAIN store \ {u} |-> store[v]]

(* Mutated: the length is not tested.                                                             *)
DeleteAnyUser(c, u) ==
  /\ u \in DOMAIN users
  /\ Begins(c, "delete", u, "kick", Without(users, u))
  /\ UNCHANGED <<sessions, disk, up, bounds, history>>

(* The last user is not deleted.                                                                  *)
DeleteUser(c, u) ==
  /\ Cardinality(DOMAIN users) > 1 /\ u \in DOMAIN users
  /\ Begins(c, "delete", u, "kick", Without(users, u))
  /\ UNCHANGED <<sessions, disk, up, bounds, history>>

Kept(S) == [t \in S |-> sessions[t]]
OthersThan(u) == {t \in DOMAIN sessions : sessions[t].user # u}

KickWithoutSave(c) ==       \* mutated
  /\ up /\ call[c].at = "kick"
  /\ sessions' = Kept(OthersThan(call[c].user))
  /\ call' = [call EXCEPT ![c].at = "saved"]
  /\ UNCHANGED <<users, disk, up, bounds, history>>

KickNobody(c) ==            \* mutated
  /\ up /\ call[c].at = "kick"
  /\ call' = [call EXCEPT ![c].at = "save"]
  /\ UNCHANGED <<users, sessions, disk, up, bounds, history>>

(* "Kick any active sessions for this user."                                                      *)
Kick(c) ==
  /\ up /\ call[c].at = "kick"
  /\ sessions' = Kept(OthersThan(call[c].user))
  /\ call' = [call EXCEPT ![c].at = "save", ![c].created = 0]
  /\ UNCHANGED <<users, disk, up, bounds, history>>

(* validate_session drops every session past SESSION_TTL, then looks for the one asked: time says *)
(* which are left.                                                                                *)
ValidateSession ==
  /\ up /\ \E left \in SUBSET DOMAIN sessions : sessions' = Kept(left)
  /\ UNCHANGED <<users, disk, call, up, bounds, history>>

(* change_password asks who calls before it takes the lock on users; cookies says whether the     *)
(* caller has one.  All that counts is whether it is the user whose password it is: whoever is    *)
(* not known by a session may change anyone.                                                      *)
AskCaller(c, u, cookies) ==
  /\ up /\ MayBegin(c)
  /\ \E left \in SUBSET DOMAIN sessions :
       /\ cookies = {} => left = DOMAIN sessions
       /\ sessions' = Kept(left)
       /\ call' = [call EXCEPT ![c] = [Idle EXCEPT !.at = "change", !.op = "password", !.user = u,
                                          !.caller = {sessions[t].user : t \in cookies \cap left}
                                                   \cap {u}]]
  /\ UNCHANGED <<users, disk, up, bounds, history>>

(* A user who changes the own password gives the old one, or the call ends.                       *)
ChangePassword(c, p, old) ==
  LET u == call[c].user
      allowed == u \in DOMAIN users /\ (call[c].caller # {} => old = users[u].password)
  IN /\ up /\ call[c].at = "change"
     /\ users' = IF allowed THEN [users EXCEPT ![u].password = p] ELSE users
     /\ call' = [call EXCEPT ![c] = IF allowed THEN [@ EXCEPT !.at = "save", !.caller = {}]
                                    ELSE Idle]
     /\ UNCHANGED <<sessions, disk, up, bounds, history>>

Logout(t) ==
  /\ up /\ t \in DOMAIN sessions /\ sessions' = Kept(DOMAIN sessions \ {t})
  /\ UNCHANGED <<users, disk, call, up, bounds, history>>

-------------------------------------------------------------------------------
(* save: a copy of the users, the temporary file, the rename.  Nothing keeps two saves apart.     *)
Saving(s) == call[s].at \in {"write", "rename"}
Another(s) == \E v \in Savers \ {s} : Saving(v)

Snapshot(c) ==
  /\ up /\ call[c].at = "save"
  /\ call' = [call EXCEPT ![c].data = users, ![c].at = "write"]
  /\ overlap' = (overlap \/ Another(c))
  /\ UNCHANGED <<users, sessions, disk, up, bounds, foreign, doubt, orphaned, added>>

Running(s) == s = Cli \/ up

(* fs::write truncates and writes: two at a time may leave a mixture.                             *)
WriteTmp(s) ==
  /\ Running(s) /\ call[s].at = "write"
  /\ \/ tmp' = {Whole(call[s].data)}
     \/ Another(s) /\ tmp' = {Torn}
  /\ call' = [call EXCEPT ![s].at = "rename"]
  /\ UNCHANGED <<users, sessions, file, up, bounds, history>>

Saved(s, at) == [call[s] EXCEPT !.at = at, !.data = Nobody]

Entry(store, u) == IF u \in DOMAIN store THEN {store[u]} ELSE {}

(* What another is writing at the time of the rename is renamed half written.  A change that the  *)
(* server's copy has is no longer in doubt.                                                       *)
Rename(s) ==
  /\ Running(s) /\ call[s].at = "rename" /\ tmp # {}
  /\ \/ file' = tmp
     \/ (\E v \in Savers : call[v].at = "write") /\ file' = {Torn}
  /\ tmp' = {}
  /\ call' = [call EXCEPT ![s] = Saved(s, "saved")]
  /\ foreign' = (foreign \/ (s = Cli /\ up))
  /\ doubt' = IF s = Cli THEN doubt
              ELSE {u \in doubt : Entry(call[s].data, u) # Entry(users, u)}
  /\ UNCHANGED <<users, sessions, up, bounds, overlap, orphaned, added>>

(* Bound: the troubles.                                                                           *)
Trouble == made + troubles < MaxEvents /\ troubles' = troubles + 1

(* Any call of a save may fail; the rename does when another save took the file away.             *)
SaveFails(s) ==
  /\ Running(s) /\ Saving(s) /\ Trouble
  /\ call' = [call EXCEPT ![s] = Saved(s, "failed")]
  /\ UNCHANGED <<users, sessions, disk, up, made, history>>

-------------------------------------------------------------------------------
(* The end of a handler.                                                                          *)

(* A login goes on whatever came of its save.  late: its account was deleted since it was         *)
(* checked.                                                                                       *)
InsertSession(c, t) ==
  LET u == call[c].user
      gone == u \notin DOMAIN users \/ users[u].created # call[c].created
  IN /\ up /\ call[c].op = "login" /\ call[c].at \in {"saved", "failed"} /\ t \notin DOMAIN sessions
     /\ sessions' = With(sessions, t, [user |-> u, created |-> call[c].created, late |-> gone])
     /\ call' = [call EXCEPT ![c] = Idle]
     /\ UNCHANGED <<users, disk, up, bounds, history>>

Answer(c) ==
  /\ up /\ call[c].op \in {"add", "delete", "password"} /\ call[c].at \in {"saved", "failed"}
  /\ call' = [call EXCEPT ![c] = Idle]
  /\ added' = (added \/ (call[c].op = "add" /\ call[c].at = "saved"))
  /\ doubt' = IF call[c].at = "failed" THEN doubt \cup {call[c].user} ELSE doubt
  /\ UNCHANGED <<users, sessions, disk, up, bounds, overlap, foreign, orphaned>>

(* The client goes, and its request is dropped where it waits for a lock: to change a password,   *)
(* to drop the sessions, to copy the users, to insert a session.  What it changed stays; a login  *)
(* changed nothing that is kept here.                                                             *)
HangUp(c) ==
  LET at == call[c].at
      login == call[c].op = "login"
  IN /\ up /\ Trouble
     /\ at \in {"change", "kick", "save"} \/ (login /\ at \in {"saved", "failed"})
     /\ call' = [call EXCEPT ![c] = Idle]
     /\ doubt' = IF at \in {"kick", "save"} /\ ~login THEN doubt \cup {call[c].user} ELSE doubt
     /\ orphaned' = IF at = "kick" THEN orphaned \cup {call[c].created} ELSE orphaned
     /\ UNCHANGED <<users, sessions, disk, up, made, overlap, foreign, added>>

-------------------------------------------------------------------------------
(* The command reads the file, not the server's memory, and fails on one that does not parse.     *)
CliRead(u, p) ==
  /\ MayBegin(Cli) /\ file # {Torn} /\ u \notin DOMAIN Load(file)
  /\ NameFor(u) /\ made' = made + 1
  /\ call' = [call EXCEPT ![Cli] = [Idle EXCEPT !.at = "write", !.op = "add", !.user = u,
                                                !.data = With(Load(file), u, NewAccount(p))]]
  /\ overlap' = (overlap \/ \E s \in Callers : Saving(s))
  /\ UNCHANGED <<users, sessions, disk, up, troubles, foreign, doubt, orphaned, added>>

CliEnds ==
  /\ call[Cli].at \in {"saved", "failed"}
  /\ added' = (added \/ call[Cli].at = "saved")
  /\ call' = [call EXCEPT ![Cli] = Idle]
  /\ UNCHANGED <<users, sessions, disk, up, bounds, overlap, foreign, doubt, orphaned>>

-------------------------------------------------------------------------------
(* The server stops between any two steps; what a handler wrote so far stays.                     *)
Stop ==
  /\ up /\ up' = FALSE /\ Trouble
  /\ users' = Nobody /\ sessions' = [t \in {} |-> t]
  /\ call' = [s \in Savers |-> IF s = Cli THEN call[s] ELSE Idle]
  /\ orphaned' = {}
  /\ UNCHANGED <<disk, made, overlap, foreign, doubt, added>>

Start ==
  /\ ~up /\ up' = TRUE /\ users' = Load(file)
  /\ foreign' = FALSE /\ doubt' = {}
  /\ UNCHANGED <<sessions, disk, call, bounds, overlap, orphaned, added>>

Save(s) == WriteTmp(s) \/ Rename(s) \/ SaveFails(s)

Handler(c) ==
  \/ \E u \in Users : \/ Login(c, u) \/ DeleteUser(c, u)
                      \/ \E p \in Passwords : AddUser(c, u, p)
                      \/ \E cookies \in {{}} \cup {{t} : t \in Tokens} : AskCaller(c, u, cookies)
  \/ Kick(c) \/ Snapshot(c) \/ Answer(c) \/ HangUp(c)
  \/ \E p, old \in Passwords : ChangePassword(c, p, old)
  \/ \E t \in Tokens : InsertSession(c, t)

Next ==
  \/ \E c \in Callers : Handler(c)
  \/ \E s \in Savers : Save(s)
  \/ ValidateSession \/ \E t \in Tokens : Logout(t)
  \/ CliEnds \/ \E u \in Users, p \in Passwords : CliRead(u, p)
  \/ Stop \/ Start

Spec == Init /\ [][Next]_vars

-------------------------------------------------------------------------------
Touching(u) == \E s \in Savers : call[s].op \notin {"none", "login"} /\ call[s].user = u

(* What a request changed for a user is what a restart will load: the file agrees with memory     *)
(* about every user no call is changing, whatever calls about others are at, and whenever the     *)
(* server stops.  Not promised by this code, and excused: saves that overlapped; a save that      *)
(* failed and a request that was dropped before it saved, until the next save; and the command    *)
(* writing beside a running server.                                                               *)
AckedChangeIsDurable ==
  (up /\ ~overlap /\ ~foreign) =>
     \A u \in Users \ doubt : ~Touching(u) => Entry(Load(file), u) = Entry(users, u)

(* Once an account was added, the server has a user and the browser must log in, whatever is      *)
(* deleted at once by whom, and after every restart; unless overlapping saves spoilt the file.    *)
LoginStaysRequired == (up /\ added /\ ~overlap /\ ~foreign) => users # Nobody

(* A session is of an account that exists: a deletion leaves none of the sessions it could see,   *)
(* and a name added again inherits none.  Excused: a login that inserts the session of an account *)
(* deleted since it was checked, the sessions a deletion is about to drop, and those of a         *)
(* deletion whose request was dropped first, which a name added again does inherit.               *)
SessionsHaveAccounts ==
  \A t \in DOMAIN sessions :
    LET s == sessions[t]
    IN \/ s.late \/ s.created \in orphaned
       \/ s.user \in DOMAIN users /\ users[s.user].created = s.created
       \/ \E c \in Callers : call[c].at = "kick" /\ call[c].user = s.user
===============================================================================
