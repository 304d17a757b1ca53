--------------------------- MODULE MCInstructions ---------------------------
(* Instructions for TLC: a conversation of two sessions, the messages in the *)
(* order they are queued, and what may disturb their way on each channel.    *)
EXTENDS Instructions

CONSTANTS s1, s2, m1, m2

TwoSessions == <<s1, s2>>
TwoMessages == <<m1, m2>>
FirstIsWake == {m1}

Usual == {"end", "kill", "withdraw", "expire", "busy", "overdue", "slow"}
Disturbed == [inbox |-> Usual \cup {"menu"}, hook |-> Usual \cup {"lose", "menu"}]
             @@ ("app-server" :> Usual \cup {"lose"}) @@ ("typed" :> Usual \cup {"menu"})
=============================================================================
