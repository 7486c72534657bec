---------------------------- MODULE BridgeControl ----------------------------
(* The control surface of the telegram bridge (control.rs, config.rs) and the life of its         *)
(* process (main.rs): one thread serves one call at a time; a change is saved, then kept in       *)
(* memory, and the process exits 250 ms later to be started again with what it saved.  The        *)
(* temporary file of a save is written and renamed by the one thread that saves.                  *)
EXTENDS Naturals, Sequences, FiniteSets

CONSTANTS BotIds, Tokens, Chats,
          Redacted,     \* "***", or no token in a payload
          FirstConfig,  \* the bots of the file at the first start
          Calls,        \* payloads clients send
          MaxCalls,     \* bound on the calls that reach the surface
          MaxCrashes    \* bound on the crashes of the process

Bot == [token : Tokens, chats : SUBSET Chats]
Config == UNION {[ids -> Bot] : ids \in SUBSET BotIds}
Call == [op : {"add", "update", "delete"}, id : BotIds,
         token : Tokens \cup {Redacted}, chats : SUBSET Chats]

ASSUME ControlAssumption == /\ Redacted \notin Tokens /\ FirstConfig \in Config
                            /\ Calls \subseteq Call /\ Calls # {} /\ {MaxCalls, MaxCrashes} \subseteq Nat

VARIABLES file,         \* config.toml
          memory,       \* State.config
          running,      \* the bots the process started with: bot::spawn has its own copies
          request,      \* the call being served
          serve,        \* where the main thread is with it
          new,          \* new_cfg
          exiting,      \* a thread of schedule_restart sleeps
          up,           \* the process runs
          calls, crashes

controlVars == <<file, memory, running, request, serve, new, exiting, up, calls, crashes>>

ControlTypeOK ==
  /\ {file, memory, running, new} \subseteq Config
  /\ request \in Call /\ serve \in {"idle", "parse", "save", "keep", "ok", "error"}
  /\ {exiting, up} \subseteq BOOLEAN /\ calls \in 0..MaxCalls /\ crashes \in 0..MaxCrashes

ControlInit ==
  /\ file = FirstConfig /\ memory = FirstConfig /\ running = FirstConfig /\ new = FirstConfig
  /\ request = (CHOOSE c \in Calls : TRUE) /\ serve = "idle" /\ exiting = FALSE /\ up = TRUE
  /\ calls = 0 /\ crashes = 0

-------------------------------------------------------------------------------
Receive(c) ==
  /\ up /\ serve = "idle" /\ calls < MaxCalls
  /\ request' = c /\ serve' = "parse" /\ calls' = calls + 1
  /\ UNCHANGED <<file, memory, running, new, exiting, up, crashes>>

(* Mutated: the redacted token of a GET is taken for a token.                                    *)
AllowedRedacted(c) == IF c.op = "add" THEN c.id \notin DOMAIN memory ELSE c.id \in DOMAIN memory

(* A call refused before it saves changes nothing.                                                *)
Allowed(c) ==
  CASE c.op = "add" -> c.token # Redacted /\ c.id \notin DOMAIN memory
    [] OTHER -> c.id \in DOMAIN memory

Updated(bot, c) == [token |-> IF c.token = Redacted THEN bot.token ELSE c.token,
                    chats |-> IF c.chats = {} THEN bot.chats ELSE c.chats]

With(cfg, id, bot) == [i \in DOMAIN cfg \cup {id} |-> IF i = id THEN bot ELSE cfg[i]]

Edited(cfg, c) ==
  CASE c.op = "add" -> With(cfg, c.id, [token |-> c.token, chats |-> c.chats])
    [] c.op = "update" -> [cfg EXCEPT ![c.id] = Updated(@, c)]
    [] c.op = "delete" -> [i \in DOMAIN cfg \ {c.id} |-> cfg[i]]

Check ==
  /\ up /\ serve = "parse"
  /\ IF Allowed(request)
     THEN serve' = "save" /\ new' = Edited(memory, request)
     ELSE serve' = "error" /\ UNCHANGED new
  /\ UNCHANGED <<file, memory, running, request, exiting, up, calls, crashes>>

(* Config::save: the file is replaced whole by the rename, or an error comes before it.           *)
Save ==
  /\ up /\ serve = "save"
  /\ \/ file' = new /\ serve' = "keep"
     \/ serve' = "error" /\ UNCHANGED file
  /\ UNCHANGED <<memory, running, request, new, exiting, up, calls, crashes>>

(* Mutated: the configuration in memory stays the old one.                                       *)
KeepForgettingMemory ==
  /\ up /\ serve = "keep"
  /\ exiting' = TRUE /\ serve' = "ok"
  /\ UNCHANGED <<file, memory, running, request, new, up, calls, crashes>>

(* Mutated: one handler does not schedule the restart.                                           *)
KeepWithoutRestart(op) ==
  /\ up /\ serve = "keep"
  /\ memory' = new /\ exiting' = (exiting \/ request.op # op) /\ serve' = "ok"
  /\ UNCHANGED <<file, running, request, new, up, calls, crashes>>

KeepWithoutRestartOnUpdate == KeepWithoutRestart("update")
KeepWithoutRestartOnDelete == KeepWithoutRestart("delete")

Keep ==
  /\ up /\ serve = "keep"
  /\ memory' = new /\ exiting' = TRUE /\ serve' = "ok"
  /\ UNCHANGED <<file, running, request, new, up, calls, crashes>>

Reply ==
  /\ up /\ serve \in {"ok", "error"} /\ serve' = "idle"
  /\ UNCHANGED <<file, memory, running, request, new, exiting, up, calls, crashes>>

(* The end of the process, by schedule_restart or a crash, takes the call it serves with it.      *)
Stop ==
  /\ up /\ up' = FALSE /\ serve' = "idle" /\ exiting' = FALSE
  /\ UNCHANGED <<file, memory, running, request, new, calls>>

Restart == exiting /\ Stop /\ UNCHANGED crashes

Crash == crashes < MaxCrashes /\ crashes' = crashes + 1 /\ Stop

(* systemd starts it again; main loads the file and spawns what it has.                           *)
Start ==
  /\ ~up /\ up' = TRUE
  /\ memory' = file /\ running' = file
  /\ UNCHANGED <<file, request, serve, new, exiting, calls, crashes>>

Serve == Check \/ Save \/ Keep \/ Reply

ControlNext == (\E c \in Calls : Receive(c)) \/ Serve \/ Start
===============================================================================
