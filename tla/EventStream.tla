----------------------------- MODULE EventStream -----------------------------
(***************************************************************************)
(* What a turn's event stream promises to its readers: an append-only log  *)
(* that ends once, of which every reader gets a gapless, ordered segment   *)
(* from the point where it joins, up to the end of the log.  Only joining  *)
(* may skip events, those below the retention floor.                       *)
(***************************************************************************)
EXTENDS Integers

CONSTANT Readers

VARIABLES
  head,     \* events appended so far
  ended,    \* the log has its final events
  floor,    \* events no longer retained
  cursor,   \* cursor[r]: the last event an open reader needs no more
  reader    \* reader[r]: "none", "open", "eof" or "gone"

vars == <<head, ended, floor, cursor, reader>>

Init ==
  /\ head = 0 /\ ended = FALSE /\ floor = 0
  /\ cursor = [r \in Readers |-> 0]
  /\ reader = [r \in Readers |-> "none"]

Grow(n) ==
  /\ ~ended
  /\ head' = head + n
  /\ floor' \in floor..head'
  /\ UNCHANGED <<cursor, reader>>

Append1 == Grow(1) /\ UNCHANGED ended
End == Grow(2) /\ ended' = TRUE

Join(r) ==
  /\ reader[r] = "none"
  /\ \E after \in 0..head :
       cursor' = [cursor EXCEPT ![r] = IF after < floor THEN floor ELSE after]
  /\ reader' = [reader EXCEPT ![r] = "open"]
  /\ UNCHANGED <<head, ended, floor>>

Deliver(r) ==
  /\ reader[r] = "open" /\ cursor[r] < head
  /\ cursor' = [cursor EXCEPT ![r] = @ + 1]
  /\ UNCHANGED <<head, ended, floor, reader>>

(* The reader is told that there is nothing more: only when that is true. *)
Complete(r) ==
  /\ reader[r] = "open" /\ ended /\ cursor[r] = head
  /\ reader' = [reader EXCEPT ![r] = "eof"]
  /\ cursor' = [cursor EXCEPT ![r] = 0]
  /\ UNCHANGED <<head, ended, floor>>

Quit(r) ==
  /\ reader[r] \in {"none", "open"}
  /\ reader' = [reader EXCEPT ![r] = "gone"]
  /\ cursor' = [cursor EXCEPT ![r] = 0]
  /\ UNCHANGED <<head, ended, floor>>

Next ==
  \/ Append1
  \/ End
  \/ \E r \in Readers : Join(r) \/ Deliver(r) \/ Complete(r) \/ Quit(r)

Spec == Init /\ [][Next]_vars
=============================================================================
