--------------------------- MODULE MCSessionStore ---------------------------
(* Small instances of SessionStore.  Ops selects the requests of a run;    *)
(* the sets of a cfg name them.                                            *)
EXTENDS SessionStore, TLC

Symmetry == Permutations(Sessions) \cup Permutations(Clients)

(* What browsers may ask of a server that does not restart. *)
BrowserOps == {"create", "append", "truncate", "clear", "delete", "undo", "retry",
               "cleanup", "pin", "rename", "import"}
EveryOp == BrowserOps \cup {"update", "resend", "boot"}
=============================================================================
