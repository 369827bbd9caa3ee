----------------------------- MODULE MCChatTurn -----------------------------
(***************************************************************************)
(* Small instances of ChatTurn for TLC.  Two turns let the start of one     *)
(* overlap the other; two events give a token followed by any terminal      *)
(* event; channels of capacity one make both sends block.                  *)
(***************************************************************************)
EXTENDS ChatTurn
=============================================================================
