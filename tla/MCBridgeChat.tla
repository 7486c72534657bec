----------------------------- MODULE MCBridgeChat -----------------------------
EXTENDS BridgeChat

MCReplies == {<<>>, <<1, 0, 0, 2, 3, 4, 5>>}
MCErrorText == <<1, 0, 2>>

(* split_response over every text of up to nine characters, newlines anywhere and every letter     *)
(* another, so that a letter out of place is seen.                                                *)
SplitTexts == UNION {{[i \in 1..n |-> IF i \in gaps THEN NL ELSE i] : gaps \in SUBSET (1..n)} : n \in 0..9}
ASSUME SplitAssumption == \A text \in SplitTexts : SplitIsFaithful(text)
===============================================================================
