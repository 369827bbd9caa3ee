------------------------------ MODULE MCJournal ------------------------------
(***************************************************************************)
(* A small instance of Journal for TLC.  Up to three events, then done and *)
(* stream_end, through channels of capacity one make every send of the     *)
(* delivery loop block at some point; retaining two of the five makes a    *)
(* late or resumed Subscribe meet trimmed events; two connections are two  *)
(* readers, or a reader and the one that resumes after it.                 *)
(***************************************************************************)
EXTENDS Journal

(* While nobody disconnects, every connected reader gets to the end of a   *)
(* finished turn: the relay's blocking sends and the readers' loops never  *)
(* wait on one another (journal.go:86-91, journal_writer.go:40-57).        *)
ReadersReachEof ==
  [](\A i \in ConnIds : st[i] \notin {"probe", "leaving", "left"})
    => \A i \in ConnIds : (terminal /\ st[i] \in Reading) ~> (st[i] = "eof")
=============================================================================
