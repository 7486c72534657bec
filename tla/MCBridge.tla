------------------------------- MODULE MCBridge -------------------------------
(* One chat of one bot, which a call deletes, renames or adds again.                              *)
EXTENDS Bridge

MCReplies == {<<>>, <<1, 0, 0, 2, 3>>}
MCErrorText == <<1, 0, 2>>

MCBot(token) == [token |-> token, chats |-> {ThisChat}]
MCFirstConfig == [i \in {ThisBot} |-> MCBot("t1")]
MCCall(op, token, chats) == [op |-> op, id |-> ThisBot, token |-> token, chats |-> chats]
MCCalls == {MCCall("update", "***", {}), MCCall("update", "t2", {ThisChat}),
            MCCall("delete", "***", {}), MCCall("add", "t2", {ThisChat}), MCCall("add", "***", {ThisChat})}
===============================================================================
