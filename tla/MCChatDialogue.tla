--------------------------- MODULE MCChatDialogue ---------------------------
(* Values for the constants of ChatDialogue's runs.                        *)
EXTENDS ChatDialogue

CONSTANTS t1, t2, h1, kenya, springfield

LongStayInKenya == {<<t1, kenya>>}
=============================================================================
