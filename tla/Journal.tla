------------------------------- MODULE Journal -------------------------------
(***************************************************************************)
(* The journaled broadcast hub of one chat turn (stream.Journal) and the   *)
(* SSE connections that read it (stream.WriteJournalSSE).                  *)
(*                                                                         *)
(* One relay goroutine publishes.  Publish and Finish append to the        *)
(* retained events and copy the set of subscriber channels under the mutex,*)
(* then, with the mutex released, send to the copied channels one by one;  *)
(* a send blocks while the channel is full.  A connection first writes the *)
(* replay it got from Subscribe, then drains its channel.  An event is its *)
(* sequence number: the payload plays no part here.                        *)
(***************************************************************************)
EXTENDS Integers, Sequences, FiniteSets

CONSTANTS
  ChanCap,    \* capacity of a subscriber's channel (64 in the code)
  Retain,     \* events a journal keeps (256 in chat.go); 0 keeps all
  MaxConns,   \* bound: connections ever made to the journal
  MaxSeq      \* bound: events published before Finish

ASSUME JournalAssumption ==
  /\ ChanCap \in Nat \ {0}
  /\ Retain \in Nat
  /\ MaxConns \in Nat
  /\ MaxSeq \in Nat

VARIABLES
  seq,        \* j.seq
  events,     \* j.events, oldest first
  terminal,   \* j.terminal
  subs,       \* keys of j.subs
  nextID,     \* j.nextID, counted from 1
  batch,      \* the frames of the Publish or Finish being delivered
  pending,    \* channels of its snapshot not yet reached
  cur,        \* the channel it is sending to, 0 when none
  frames,     \* frames still to send to cur
  ch,         \* ch[i]: the buffered events of connection i's channel
  closed,     \* closed[i]: the channel has been closed
  st,         \* st[i]: where connection i's handler is
  replay,     \* replay[i]: replayed events not yet written, ascending
  pos         \* pos[i]: the last event the client of connection i has

hub == <<seq, events, terminal>>
publisher == <<batch, pending, cur, frames>>
conns == <<ch, closed, st, replay, pos>>
vars == <<hub, subs, nextID, publisher, conns>>

ConnIds == 1..MaxConns
Reading == {"replay", "live"}
Phases == Reading \cup {"new", "probe", "leaving", "left", "eof"}

Retained == {events[k] : k \in 1..Len(events)}
Trim(s) == IF Retain > 0 /\ Len(s) > Retain
             THEN SubSeq(s, Len(s) - Retain + 1, Len(s))
             ELSE s
Idle == cur = 0 /\ pending = {}

Init ==
  /\ seq = 0 /\ events = <<>> /\ terminal = FALSE
  /\ subs = {} /\ nextID = 1
  /\ batch = <<>> /\ pending = {} /\ cur = 0 /\ frames = <<>>
  /\ ch = [i \in ConnIds |-> <<>>]
  /\ closed = [i \in ConnIds |-> FALSE]
  /\ st = [i \in ConnIds |-> "new"]
  /\ replay = [i \in ConnIds |-> {}]
  /\ pos = [i \in ConnIds |-> 0]

(* Publish without the terminal check. *)
Publish_afterEnd ==
  /\ Idle /\ seq < MaxSeq + 2
  /\ seq' = seq + 1
  /\ events' = Trim(Append(events, seq + 1))
  /\ batch' = <<seq + 1>>
  /\ pending' = subs
  /\ UNCHANGED <<terminal, subs, nextID, cur, frames, conns>>

(* The critical section of Publish. *)
Publish ==
  /\ Idle /\ ~terminal /\ seq < MaxSeq
  /\ seq' = seq + 1
  /\ events' = Trim(Append(events, seq + 1))
  /\ batch' = <<seq + 1>>
  /\ pending' = subs
  /\ UNCHANGED <<terminal, subs, nextID, cur, frames, conns>>

(* Finish without the terminal check. *)
Finish_twice ==
  /\ Idle /\ seq < MaxSeq + 4
  /\ seq' = seq + 2
  /\ events' = Trim(Append(Append(events, seq + 1), seq + 2))
  /\ batch' = <<seq + 1, seq + 2>>
  /\ terminal' = TRUE
  /\ pending' = subs
  /\ UNCHANGED <<subs, nextID, cur, frames, conns>>

(* The critical section of Finish: the canonical done and stream_end. *)
Finish ==
  /\ Idle /\ ~terminal
  /\ seq' = seq + 2
  /\ events' = Trim(Append(Append(events, seq + 1), seq + 2))
  /\ batch' = <<seq + 1, seq + 2>>
  /\ terminal' = TRUE
  /\ pending' = subs
  /\ UNCHANGED <<subs, nextID, cur, frames, conns>>

(* The delivery loop takes the next channel of the copy (map order). *)
TakeSub(i) ==
  /\ cur = 0 /\ i \in pending
  /\ cur' = i
  /\ pending' = pending \ {i}
  /\ frames' = batch
  /\ UNCHANGED <<hub, subs, nextID, batch, conns>>

(* ch <- je blocks until the channel has room, whoever reads it. *)
Send ==
  /\ cur # 0 /\ frames # <<>>
  /\ Len(ch[cur]) < ChanCap
  /\ ch' = [ch EXCEPT ![cur] = Append(@, Head(frames))]
  /\ frames' = Tail(frames)
  /\ UNCHANGED <<hub, subs, nextID, batch, pending, cur, closed, st, replay, pos>>

(* SendDone that forgets to close the channels of a finished turn. *)
SendDone_leavesOpen ==
  /\ cur # 0 /\ frames = <<>>
  /\ cur' = 0
  /\ UNCHANGED <<hub, subs, nextID, batch, pending, frames, conns>>

(* All frames sent to cur; only Finish, which set terminal, closes it. *)
SendDone ==
  /\ cur # 0 /\ frames = <<>>
  /\ closed' = [closed EXCEPT ![cur] = terminal]
  /\ cur' = 0
  /\ UNCHANGED <<hub, subs, nextID, batch, pending, frames, ch, st, replay, pos>>

(* Register that replays from the id itself. *)
Register_inclusive(i, after, phase) ==
  /\ i = nextID /\ st[i] = "new"
  /\ nextID' = nextID + 1
  /\ st' = [st EXCEPT ![i] = phase]
  /\ pos' = [pos EXCEPT ![i] = after]
  /\ replay' = [replay EXCEPT ![i] = {e \in Retained : e >= after}]
  /\ subs' = IF terminal THEN subs ELSE subs \cup {i}
  /\ UNCHANGED <<hub, publisher, ch, closed>>

(* Subscribe(after) registers a channel unless the journal is terminal. *)
Register(i, after, phase) ==
  /\ i = nextID /\ st[i] = "new"
  /\ nextID' = nextID + 1
  /\ st' = [st EXCEPT ![i] = phase]
  /\ pos' = [pos EXCEPT ![i] = after]
  /\ replay' = [replay EXCEPT ![i] = {e \in Retained : e > after}]
  /\ subs' = IF terminal THEN subs ELSE subs \cup {i}
  /\ UNCHANGED <<hub, publisher, ch, closed>>

(* A client starts afresh or resumes after the last event that an earlier  *)
(* connection gave it (after_seq, Last-Event-ID).                          *)
Subscribe(i) ==
  \E after \in {0} \cup {pos[j] : j \in 1..(nextID - 1)} :
    Register(i, after, "replay")

(* GET /api/chat/stream/status: Subscribe(0), and cancel() afterwards. *)
Probe(i) == Register(i, 0, "probe")

WriteReplay(i) ==
  /\ st[i] = "replay" /\ replay[i] # {}
  /\ \E e \in replay[i] :
       /\ \A f \in replay[i] : e <= f
       /\ replay' = [replay EXCEPT ![i] = @ \ {e}]
       /\ pos' = [pos EXCEPT ![i] = e]
  /\ UNCHANGED <<hub, subs, nextID, publisher, ch, closed, st>>

(* GoLive that asks for terminal again when the replay is written. *)
GoLive_rechecks(i) ==
  /\ st[i] = "replay" /\ replay[i] = {}
  /\ st' = [st EXCEPT ![i] = IF terminal THEN "eof" ELSE "live"]
  /\ UNCHANGED <<hub, subs, nextID, publisher, ch, closed, replay, pos>>

(* The replay is written: a nil live channel ends the response. *)
GoLive(i) ==
  /\ st[i] = "replay" /\ replay[i] = {}
  /\ st' = [st EXCEPT ![i] = IF i \in subs THEN "live" ELSE "eof"]
  /\ UNCHANGED <<hub, subs, nextID, publisher, ch, closed, replay, pos>>

WriteLive(i) ==
  /\ st[i] = "live" /\ ch[i] # <<>>
  /\ pos' = [pos EXCEPT ![i] = Head(ch[i])]
  /\ ch' = [ch EXCEPT ![i] = Tail(@)]
  /\ UNCHANGED <<hub, subs, nextID, publisher, closed, st, replay>>

(* A closed and drained channel: the response is complete. *)
Eof(i) ==
  /\ st[i] = "live" /\ ch[i] = <<>> /\ closed[i]
  /\ st' = [st EXCEPT ![i] = "eof"]
  /\ subs' = subs \ {i}
  /\ UNCHANGED <<hub, nextID, publisher, ch, closed, replay, pos>>

(* ctx.Done() in the select loop: the client has gone. *)
Leave(i) ==
  /\ st[i] = "live"
  /\ st' = [st EXCEPT ![i] = "leaving"]
  /\ UNCHANGED <<hub, subs, nextID, publisher, ch, closed, replay, pos>>

(* A failed write: the event being written is lost with the connection. *)
WriteFails(i) ==
  /\ \/ st[i] = "replay" /\ replay[i] # {} /\ UNCHANGED ch
     \/ st[i] = "live" /\ ch[i] # <<>> /\ ch' = [ch EXCEPT ![i] = Tail(@)]
  /\ st' = [st EXCEPT ![i] = "leaving"]
  /\ UNCHANGED <<hub, subs, nextID, publisher, closed, replay, pos>>

(* The deferred cancel(): the map entry goes, the channel is not drained. *)
Cancel(i) ==
  /\ st[i] \in {"leaving", "probe"}
  /\ st' = [st EXCEPT ![i] = "left"]
  /\ subs' = subs \ {i}
  /\ UNCHANGED <<hub, nextID, publisher, ch, closed, replay, pos>>

Deliver == Send \/ SendDone \/ \E i \in ConnIds : TakeSub(i)
Write(i) == WriteReplay(i) \/ GoLive(i) \/ WriteLive(i) \/ Eof(i)
Open(i) == Subscribe(i) \/ Probe(i)
Disconnect(i) == Leave(i) \/ WriteFails(i)

Next ==
  \/ Publish
  \/ Finish
  \/ Deliver
  \/ \E i \in ConnIds : Open(i) \/ Write(i) \/ Disconnect(i) \/ Cancel(i)

Spec == Init /\ [][Next]_vars

(* The runtime schedules the relay and every handler goroutine. *)
Fairness ==
  /\ WF_vars(Deliver)
  /\ \A i \in ConnIds : WF_vars(Write(i)) /\ WF_vars(Cancel(i))

FairSpec == Spec /\ Fairness

-----------------------------------------------------------------------------
(* Types, with the two bounds the code sets: a channel holds at most its   *)
(* capacity, the journal at most retain events (journal.go:46-48, 108).     *)
TypeOK ==
  /\ seq \in Nat /\ events \in Seq(Nat) /\ terminal \in BOOLEAN
  /\ subs \subseteq ConnIds /\ nextID \in 1..(MaxConns + 1)
  /\ batch \in Seq(Nat) /\ frames \in Seq(Nat)
  /\ pending \subseteq ConnIds /\ cur \in ConnIds \cup {0}
  /\ ch \in [ConnIds -> Seq(Nat)]
  /\ \A i \in ConnIds : Len(ch[i]) <= ChanCap
  /\ Retain > 0 => Len(events) <= Retain
  /\ closed \in [ConnIds -> BOOLEAN]
  /\ st \in [ConnIds -> Phases]
  /\ replay \in [ConnIds -> SUBSET Nat]
  /\ pos \in [ConnIds -> Nat]

(* What the delivery loop still holds for connection i. *)
InFlight(i) == IF cur = i THEN frames
               ELSE IF i \in pending THEN batch ELSE <<>>

(* Number of events of connection i that are in its channel or in flight.  *)
Ahead(i) == Len(ch[i]) + Len(InFlight(i))

(* The replay still to write, then the channel, then what the delivery     *)
(* loop holds, are together exactly the events after pos[i], in order, once *)
(* each; only events dropped by retention before Subscribe may be missing.  *)
ChannelExact(i) ==
  /\ \A k \in 1..Len(ch[i]) : ch[i][k] = seq - Ahead(i) + k
  /\ \A k \in 1..Len(InFlight(i)) :
       InFlight(i)[k] = seq - Len(InFlight(i)) + k

ReplayExact(i) ==
  LET due == (pos[i] + 1)..(seq - Ahead(i))
  IN  /\ pos[i] <= seq - Ahead(i)
      /\ replay[i] \subseteq due
      /\ due # {} => seq - Ahead(i) \in replay[i]
      /\ \A e \in due : \/ e \in replay[i]
                        \/ e \notin Retained /\ \A f \in replay[i] : e < f

(* A reader that is still connected is never owed more or less than the    *)
(* journal's own events, whatever the interleaving of Subscribe with the   *)
(* unlocked half of Publish and Finish (journal.go:49-56, 80-91, 95-119).  *)
NoGapNoDuplicate ==
  \A i \in ConnIds : st[i] \in Reading => ChannelExact(i) /\ ReplayExact(i)

(* A response that ends because its channel was closed, or because the     *)
(* journal was already terminal, has carried every event up to stream_end  *)
(* (journal.go:104-107, journal_writer.go:35-45).                          *)
EofIsComplete == \A i \in ConnIds : st[i] = "eof" => terminal /\ pos[i] = seq

(* The delivery loop never sends on, nor closes again, a closed channel,   *)
(* which would panic the relay (journal.go:86-91).                         *)
NoUseOfClosed == \A i \in ConnIds : closed[i] => i # cur /\ i \notin pending

(* What a client gets next always comes after what it has, and never jumps *)
(* over an event the journal still retains: a reconnect with the last id   *)
(* seen loses nothing but what retention dropped (journal.go:46-48,98-103).*)
DeliversInOrder ==
  [][\A i \in ConnIds : st[i] \in Reading /\ pos'[i] # pos[i] =>
       /\ pos'[i] > pos[i]
       /\ \A e \in (pos[i] + 1)..(pos'[i] - 1) : e \notin Retained]_vars

-----------------------------------------------------------------------------
(* The abstract promise: EventStream, with a reader's cursor standing just *)
(* before the next event it is owed.                                       *)
Cursor(i) == IF replay[i] = {} THEN pos[i]
             ELSE (CHOOSE e \in replay[i] : \A f \in replay[i] : e <= f) - 1
Reader(i) == CASE st[i] \in Reading -> "open"
               [] st[i] = "eof" -> "eof"
               [] st[i] = "new" -> "none"
               [] OTHER -> "gone"

Stream == INSTANCE EventStream WITH
  Readers <- ConnIds,
  head <- seq, ended <- terminal, floor <- seq - Len(events),
  cursor <- [i \in ConnIds |-> IF Reader(i) = "open" THEN Cursor(i) ELSE 0],
  reader <- [i \in ConnIds |-> Reader(i)]

StreamSpec == Stream!Spec
=============================================================================
