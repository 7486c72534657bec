----------------------------- MODULE ConfigService -----------------------------
(* What the control surface of the telegram bridge promises of its bots: they are one durable     *)
(* value, a call changes the bot it names once or not at all, a call answered with success has    *)
(* changed it, and nothing but a call does.  A call may lose its answer; its effect is then known *)
(* from the bots alone.                                                                           *)
EXTENDS Naturals, FiniteSets

CONSTANTS BotIds, Tokens, Chats, Redacted

VARIABLES bots,     \* the configured bots, by id
          call,     \* the call being served
          phase     \* "idle", "asked", "applied" or "refused"

svcVars == <<bots, call, phase>>

Bot == [token : Tokens, chats : SUBSET Chats]
Config == UNION {[ids -> Bot] : ids \in SUBSET BotIds}

(* A payload may leave out the token or send back the redacted one of a GET, and name no chats.   *)
Call == [op : {"add", "update", "delete"}, id : BotIds,
         token : Tokens \cup {Redacted}, chats : SUBSET Chats]

SvcInit == bots \in Config /\ call \in Call /\ phase = "idle"

Ask == phase = "idle" /\ phase' = "asked" /\ call' \in Call /\ UNCHANGED bots

(* Every other bot stays as it was; the bot named is added, gone, or there with what the payload  *)
(* names and the rest of what it had.                                                             *)
Change ==
  /\ \A i \in BotIds \ {call.id} : /\ i \in DOMAIN bots <=> i \in DOMAIN bots'
                                   /\ i \in DOMAIN bots => bots'[i] = bots[i]
  /\ CASE call.op = "add" -> call.id \in DOMAIN bots' \ DOMAIN bots
       [] call.op = "update" -> call.id \in DOMAIN bots' \cap DOMAIN bots
       [] call.op = "delete" -> call.id \in DOMAIN bots \ DOMAIN bots'
  /\ call.id \in DOMAIN bots' =>
       /\ bots'[call.id].token \in
            IF call.token \in Tokens THEN {call.token} ELSE {bots[call.id].token}
       /\ call.chats # {} => bots'[call.id].chats = call.chats

Apply == /\ phase = "asked" /\ phase' = "applied"
         /\ bots' \in Config /\ Change /\ UNCHANGED call

Refuse == phase = "asked" /\ phase' = "refused" /\ UNCHANGED <<bots, call>>

(* The answer is read, or lost with the process.                                                  *)
Answer == phase \in {"applied", "refused"} /\ phase' = "idle" /\ UNCHANGED <<bots, call>>

Lose == phase \in {"asked", "applied", "refused"} /\ phase' = "idle" /\ UNCHANGED <<bots, call>>

SvcNext == Ask \/ Apply \/ Refuse \/ Answer \/ Lose

SvcSpec == SvcInit /\ [][SvcNext]_svcVars
===============================================================================
