----------------------------- MODULE MCTerminal -----------------------------
(***************************************************************************)
(* Small instances of Terminal for TLC.  Two viewers let one block the      *)
(* other; a backlog longer than a channel lets a viewer block at all; two   *)
(* shells let a restart replace one.                                       *)
(***************************************************************************)
EXTENDS Terminal, TLC

Symmetry == Permutations(Viewers)
=============================================================================
