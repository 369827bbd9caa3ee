------------------------------- MODULE ChatTurn -------------------------------
(***************************************************************************)
(* Chat turns on one session: POST /api/chat/start and its relay goroutine,*)
(* /api/chat/cancel, /api/chat, the busy marker in the sessions row, one   *)
(* SSE reader per turn, session deletion and a crash of the server.        *)
(*                                                                         *)
(* A turn is named by its stream id.  Agent events are their kinds; text   *)
(* is the number of tokens relayed.  Each SQL statement, each access to a  *)
(* shared map and each receive of the relay is a step of its own.          *)
(***************************************************************************)
EXTENDS Integers, Sequences, FiniteSets

CONSTANTS
  MaxTurns,   \* bound: turns ever started
  MaxEvents,  \* bound: events the agent sends in one turn
  EvCap,      \* capacity of the agent's event channel (16)
  ChanCap,    \* capacity of a reader's journal channel (64)
  Happens     \* what may happen around the turns, of the six events below

ASSUME ChatAssumption ==
  /\ MaxTurns \in Nat /\ MaxEvents \in Nat
  /\ EvCap \in Nat \ {0} /\ ChanCap \in Nat \ {0}
  /\ Happens \subseteq {"attach", "detach", "sync", "delete", "stale", "crash"}

VARIABLES
  exists,     \* the sessions row exists
  msgs,       \* its messages
  busy,       \* its active_stream_id, 0 when pending_started_at is 0
  stale,      \* pending_started_at is older than pendingStaleAfter
  streamOf,   \* sessStreams of the session, 0 when absent
  cancels,    \* keys of turnCancels
  crashed,    \* the server has crashed and restarted
  hs,         \* hs[t]: where the start handler of turn t is
  relay,      \* relay[t]: where the relay goroutine of turn t is
  ctxDone,    \* ctxDone[t]: the turn's context is cancelled
  agent,      \* agent[t]: the transport's reader goroutine
  sent,       \* sent[t]: events it has sent
  ev,         \* ev[t]: evCh, the events sent and not yet relayed
  text,       \* text[t]: tokens accumulated in answer
  status,     \* status[t]: the argument of finishTurn
  log,        \* log[t]: kinds of the events journaled
  payload,    \* payload[t]: messages of the done event
  reader,     \* reader[t]: the SSE connection
  queue,      \* queue[t]: events in its channel
  owed        \* owed[t]: frames the relay is still to send to it

row == <<exists, msgs, busy, stale>>
maps == <<streamOf, cancels>>
upstream == <<agent, sent, ev>>
journal == <<log, payload, reader, queue, owed>>
vars == <<row, maps, crashed, hs, relay, ctxDone, upstream, text, status, journal>>

Turns == 1..MaxTurns
Kinds == {"token", "other", "run.completed", "error", "done"}
HandlerPhases == {"none", "checked", "appended", "created", "marked", "returned",
                  "failed", "sync", "lost"}
RelayPhases == {"off", "setup", "loop", "publish", "append", "clear", "load",
                "finish", "closing", "done", "lost"}
Live == RelayPhases \ {"off", "done", "lost"}

User(t) == [role |-> "user", turn |-> t]
Assistant(t) == [role |-> "assistant", turn |-> t, text |-> text[t], status |-> status[t]]

Init ==
  /\ exists = TRUE /\ msgs = <<>> /\ busy = 0 /\ stale = FALSE
  /\ streamOf = 0 /\ cancels = {} /\ crashed = FALSE
  /\ hs = [t \in Turns |-> "none"]
  /\ relay = [t \in Turns |-> "off"]
  /\ ctxDone = [t \in Turns |-> FALSE]
  /\ agent = [t \in Turns |-> "idle"]
  /\ sent = [t \in Turns |-> 0]
  /\ ev = [t \in Turns |-> <<>>]
  /\ text = [t \in Turns |-> 0]
  /\ status = [t \in Turns |-> ""]
  /\ log = [t \in Turns |-> <<>>]
  /\ payload = [t \in Turns |-> <<>>]
  /\ reader = [t \in Turns |-> "none"]
  /\ queue = [t \in Turns |-> 0]
  /\ owed = [t \in Turns |-> 0]

-----------------------------------------------------------------------------
(* POST /api/chat/start *)

(* GetSession and the 409 guard; the request that is refused changes nothing. *)
StartCheck(t) ==
  /\ hs[t] = "none" /\ \A u \in 1..(t - 1) : hs[u] # "none"
  /\ exists /\ (busy = 0 \/ stale)
  /\ hs' = [hs EXCEPT ![t] = "checked"]
  /\ UNCHANGED <<row, maps, crashed, relay, ctxDone, upstream, text, status, journal>>

(* StartAppend that stores nothing. *)
StartAppend_skips(t) ==
  /\ hs[t] = "checked"
  /\ hs' = [hs EXCEPT ![t] = IF exists THEN "appended" ELSE "failed"]
  /\ UNCHANGED <<row, maps, crashed, relay, ctxDone, upstream, text, status, journal>>

(* AppendMessage fails when the row has gone meanwhile. *)
StartAppend(t) ==
  /\ hs[t] = "checked"
  /\ hs' = [hs EXCEPT ![t] = IF exists THEN "appended" ELSE "failed"]
  /\ msgs' = IF exists THEN Append(msgs, User(t)) ELSE msgs
  /\ UNCHANGED <<exists, busy, stale, maps, crashed, relay, ctxDone, upstream,
                 text, status, journal>>

(* reg.Create and sessStreams.Set. *)
StartCreate(t) ==
  /\ hs[t] = "appended"
  /\ hs' = [hs EXCEPT ![t] = "created"]
  /\ streamOf' = t
  /\ UNCHANGED <<row, cancels, crashed, relay, ctxDone, upstream, text, status, journal>>

(* SetSessionPending(now, streamID, msg). *)
StartMark(t) ==
  /\ hs[t] = "created"
  /\ hs' = [hs EXCEPT ![t] = "marked"]
  /\ busy' = IF exists THEN t ELSE busy
  /\ stale' = FALSE
  /\ UNCHANGED <<exists, msgs, maps, crashed, relay, ctxDone, upstream, text,
                 status, journal>>

(* turnCancels.Store, then the goroutine. *)
StartSpawn(t) ==
  /\ hs[t] = "marked"
  /\ hs' = [hs EXCEPT ![t] = "returned"]
  /\ cancels' = cancels \cup {t}
  /\ relay' = [relay EXCEPT ![t] = "setup"]
  /\ UNCHANGED <<row, streamOf, crashed, ctxDone, upstream, text, status, journal>>

Start(t) == StartAppend(t) \/ StartCreate(t) \/ StartMark(t) \/ StartSpawn(t)

-----------------------------------------------------------------------------
(* The relay goroutine *)

(* finishTurn(how) starts: it is the last thing every exit path calls. *)
GoFinish(t, how) ==
  /\ relay' = [relay EXCEPT ![t] = IF text[t] > 0 THEN "append" ELSE "clear"]
  /\ status' = [status EXCEPT ![t] = how]

(* journal.Publish: append, then send to the reader if it is registered. *)
Journaled(t, kinds) ==
  /\ log' = [log EXCEPT ![t] = @ \o kinds]
  /\ owed' = [owed EXCEPT ![t] = IF reader[t] = "reading" THEN Len(kinds) ELSE 0]
  /\ UNCHANGED <<payload, reader, queue>>

(* RunTurn returns a channel, or fails: an error event and finishTurn. *)
RunTurn(t) ==
  /\ relay[t] = "setup"
  /\ \/ /\ relay' = [relay EXCEPT ![t] = "loop"]
        /\ agent' = [agent EXCEPT ![t] = "running"]
        /\ UNCHANGED <<status, journal>>
     \/ /\ relay' = [relay EXCEPT ![t] = "publish"]
        /\ status' = [status EXCEPT ![t] = "partial"]
        /\ Journaled(t, <<"error">>)
        /\ UNCHANGED agent
  /\ UNCHANGED <<row, maps, crashed, hs, ctxDone, sent, ev, text>>

(* RelayCancelled that waits for the agent to close its channel. *)
RelayCancelled_afterClose(t) ==
  /\ relay[t] = "loop" /\ ctxDone[t] /\ agent[t] = "closed"
  /\ \E how \in {"interrupted", "partial"} : GoFinish(t, how)
  /\ UNCHANGED <<row, maps, crashed, hs, ctxDone, upstream, text, journal>>

(* Both ctx.Done() cases of the select, which Go picks at random. *)
RelayCancelled(t) ==
  /\ relay[t] = "loop" /\ ctxDone[t]
  /\ \E how \in {"interrupted", "partial"} : GoFinish(t, how)
  /\ UNCHANGED <<row, maps, crashed, hs, ctxDone, upstream, text, journal>>

(* evCh is closed and drained. *)
RelayClosed(t) ==
  /\ relay[t] = "loop" /\ ev[t] = <<>> /\ agent[t] = "closed"
  /\ GoFinish(t, "")
  /\ UNCHANGED <<row, maps, crashed, hs, ctxDone, upstream, text, journal>>

(* RelayDone that journals the agent's own done as an event. *)
RelayDone_publishes(t) ==
  /\ relay[t] = "loop" /\ ev[t] # <<>> /\ Head(ev[t]) = "done"
  /\ ev' = [ev EXCEPT ![t] = Tail(@)]
  /\ log' = [log EXCEPT ![t] = Append(@, "done")]
  /\ GoFinish(t, "")
  /\ UNCHANGED <<row, maps, crashed, hs, ctxDone, agent, sent, text, payload,
                 reader, queue, owed>>

(* The transport's own done is not forwarded: finishTurn emits the only one. *)
RelayDone(t) ==
  /\ relay[t] = "loop" /\ ev[t] # <<>> /\ Head(ev[t]) = "done"
  /\ ev' = [ev EXCEPT ![t] = Tail(@)]
  /\ GoFinish(t, "")
  /\ UNCHANGED <<row, maps, crashed, hs, ctxDone, agent, sent, text, journal>>

(* run.completed is swallowed. *)
RelaySwallow(t) ==
  /\ relay[t] = "loop" /\ ev[t] # <<>> /\ Head(ev[t]) = "run.completed"
  /\ ev' = [ev EXCEPT ![t] = Tail(@)]
  /\ UNCHANGED <<row, maps, crashed, hs, relay, ctxDone, agent, sent, text,
                 status, journal>>

(* Any other event is accumulated and published; an error ends the turn. *)
RelayForward(t) ==
  /\ relay[t] = "loop" /\ ev[t] # <<>>
  /\ Head(ev[t]) \in {"token", "other", "error"}
  /\ ev' = [ev EXCEPT ![t] = Tail(@)]
  /\ text' = [text EXCEPT ![t] = IF Head(ev[t]) = "token" THEN @ + 1 ELSE @]
  /\ status' = [status EXCEPT ![t] = IF Head(ev[t]) = "error" THEN "partial" ELSE @]
  /\ relay' = [relay EXCEPT ![t] = "publish"]
  /\ Journaled(t, <<Head(ev[t])>>)
  /\ UNCHANGED <<row, maps, crashed, hs, ctxDone, agent, sent>>

(* ch <- je: blocks while the reader's channel is full. *)
RelaySend(t) ==
  /\ relay[t] \in {"publish", "closing"} /\ owed[t] > 0
  /\ queue[t] < ChanCap
  /\ queue' = [queue EXCEPT ![t] = @ + 1]
  /\ owed' = [owed EXCEPT ![t] = @ - 1]
  /\ UNCHANGED <<row, maps, crashed, hs, relay, ctxDone, upstream, text, status,
                 log, payload, reader>>

(* Publish has returned: back to the loop, or on to finishTurn("partial"). *)
RelaySent(t) ==
  /\ relay[t] = "publish" /\ owed[t] = 0
  /\ \/ status[t] = "" /\ relay' = [relay EXCEPT ![t] = "loop"] /\ UNCHANGED status
     \/ status[t] # "" /\ GoFinish(t, status[t])
  /\ UNCHANGED <<row, maps, crashed, hs, ctxDone, upstream, text, journal>>

(* FinishAppend that drops the answer of an interrupted turn. *)
FinishAppend_notInterrupted(t) ==
  /\ relay[t] = "append"
  /\ relay' = [relay EXCEPT ![t] = "clear"]
  /\ msgs' = IF exists /\ status[t] # "interrupted"
               THEN Append(msgs, Assistant(t)) ELSE msgs
  /\ UNCHANGED <<exists, busy, stale, maps, crashed, hs, ctxDone, upstream, text,
                 status, journal>>

(* finishTurn: AppendMessage; its failure is ignored. *)
FinishAppend(t) ==
  /\ relay[t] = "append"
  /\ relay' = [relay EXCEPT ![t] = "clear"]
  /\ msgs' = IF exists THEN Append(msgs, Assistant(t)) ELSE msgs
  /\ UNCHANGED <<exists, busy, stale, maps, crashed, hs, ctxDone, upstream, text,
                 status, journal>>

(* FinishClear only after a turn that succeeded. *)
FinishClear_onSuccess(t) ==
  /\ relay[t] = "clear"
  /\ relay' = [relay EXCEPT ![t] = "load"]
  /\ IF status[t] = "" THEN busy' = 0 /\ stale' = FALSE ELSE UNCHANGED <<busy, stale>>
  /\ UNCHANGED <<exists, msgs, maps, crashed, hs, ctxDone, upstream, text, status,
                 journal>>

(* finishTurn: SetSessionPending(0): whichever turn the marker names. *)
FinishClear(t) ==
  /\ relay[t] = "clear"
  /\ relay' = [relay EXCEPT ![t] = "load"]
  /\ busy' = 0 /\ stale' = FALSE
  /\ UNCHANGED <<exists, msgs, maps, crashed, hs, ctxDone, upstream, text, status,
                 journal>>

(* finishTurn: GetSession for the payload of done. *)
FinishLoad(t) ==
  /\ relay[t] = "load"
  /\ relay' = [relay EXCEPT ![t] = "finish"]
  /\ payload' = [payload EXCEPT ![t] = msgs]
  /\ UNCHANGED <<row, maps, crashed, hs, ctxDone, upstream, text, status, log,
                 reader, queue, owed>>

(* journal.Finish(done, stream_end): the critical section. *)
FinishJournal(t) ==
  /\ relay[t] = "finish"
  /\ relay' = [relay EXCEPT ![t] = "closing"]
  /\ Journaled(t, <<"done", "stream_end">>)
  /\ UNCHANGED <<row, maps, crashed, hs, ctxDone, upstream, text, status>>

(* The goroutine returns: the deferred turnCancels.Delete and cancel(). *)
RelayExit(t) ==
  /\ relay[t] = "closing" /\ owed[t] = 0
  /\ relay' = [relay EXCEPT ![t] = "done"]
  /\ cancels' = cancels \ {t}
  /\ ctxDone' = [ctxDone EXCEPT ![t] = TRUE]
  /\ UNCHANGED <<row, streamOf, crashed, hs, upstream, text, status, journal>>

Relay(t) ==
  \/ RunTurn(t) \/ RelayCancelled(t) \/ RelayClosed(t) \/ RelayDone(t)
  \/ RelaySwallow(t) \/ RelayForward(t) \/ RelaySend(t) \/ RelaySent(t)
  \/ FinishAppend(t) \/ FinishClear(t) \/ FinishLoad(t) \/ FinishJournal(t)
  \/ RelayExit(t)

-----------------------------------------------------------------------------
(* The transport's goroutine: an event, unless the channel is full ... *)
AgentSend(t) ==
  /\ agent[t] = "running" /\ sent[t] < MaxEvents /\ Len(ev[t]) < EvCap
  /\ \E k \in Kinds : ev' = [ev EXCEPT ![t] = Append(@, k)]
  /\ sent' = [sent EXCEPT ![t] = @ + 1]
  /\ UNCHANGED <<row, maps, crashed, hs, relay, ctxDone, agent, text, status, journal>>

(* ... or the end of the upstream response, or the cancelled context.      *)
AgentClose(t) ==
  /\ agent[t] = "running"
  /\ agent' = [agent EXCEPT ![t] = "closed"]
  /\ UNCHANGED <<row, maps, crashed, hs, relay, ctxDone, sent, ev, text, status, journal>>

(* POST /api/chat/cancel: 404 unless the stream is the session's current one. *)
Cancel(t) ==
  /\ streamOf = t /\ t \in cancels
  /\ cancels' = cancels \ {t}
  /\ ctxDone' = [ctxDone EXCEPT ![t] = TRUE]
  /\ UNCHANGED <<row, streamOf, crashed, hs, relay, upstream, text, status, journal>>

(* GET /api/chat/stream: Subscribe, the reads, and the disconnect. *)
Attach(t) ==
  /\ "attach" \in Happens
  /\ reader[t] = "none" /\ hs[t] \in {"created", "marked", "returned"}
  /\ relay[t] # "lost"
  /\ reader' = [reader EXCEPT ![t] =
                  IF relay[t] \in {"closing", "done"} THEN "eof" ELSE "reading"]
  /\ UNCHANGED <<row, maps, crashed, hs, relay, ctxDone, upstream, text, status,
                 log, payload, queue, owed>>

Read(t) ==
  /\ reader[t] = "reading" /\ queue[t] > 0
  /\ queue' = [queue EXCEPT ![t] = @ - 1]
  /\ UNCHANGED <<row, maps, crashed, hs, relay, ctxDone, upstream, text, status,
                 log, payload, reader, owed>>

Detach(t) ==
  /\ "detach" \in Happens
  /\ reader[t] = "reading"
  /\ reader' = [reader EXCEPT ![t] = "gone"]
  /\ UNCHANGED <<row, maps, crashed, hs, relay, ctxDone, upstream, text, status,
                 log, payload, queue, owed>>

(* POST /api/chat: the user message is stored; the answer only returned.   *)
SyncStart(t) ==
  /\ "sync" \in Happens
  /\ hs[t] = "none" /\ \A u \in 1..(t - 1) : hs[u] # "none"
  /\ exists
  /\ hs' = [hs EXCEPT ![t] = "sync"]
  /\ msgs' = Append(msgs, User(t))
  /\ UNCHANGED <<exists, busy, stale, maps, crashed, relay, ctxDone, upstream,
                 text, status, journal>>

-----------------------------------------------------------------------------
(* Fifteen minutes pass since pending_started_at. *)
Elapse ==
  /\ "stale" \in Happens
  /\ busy # 0 /\ ~stale
  /\ stale' = TRUE
  /\ UNCHANGED <<exists, msgs, busy, maps, crashed, hs, relay, ctxDone, upstream,
                 text, status, journal>>

(* The session is deleted (POST /api/session/delete). *)
DeleteSession ==
  /\ "delete" \in Happens
  /\ exists
  /\ exists' = FALSE /\ msgs' = <<>> /\ busy' = 0 /\ stale' = FALSE
  /\ UNCHANGED <<maps, crashed, hs, relay, ctxDone, upstream, text, status, journal>>

(* The process dies and restarts: the row survives, memory does not. *)
Crash ==
  /\ "crash" \in Happens /\ ~crashed
  /\ crashed' = TRUE
  /\ streamOf' = 0 /\ cancels' = {}
  /\ hs' = [t \in Turns |-> IF hs[t] \in {"none", "failed"} THEN hs[t] ELSE "lost"]
  /\ relay' = [t \in Turns |-> IF relay[t] = "off" THEN "off" ELSE "lost"]
  /\ agent' = [t \in Turns |-> IF agent[t] = "running" THEN "closed" ELSE agent[t]]
  /\ ev' = [t \in Turns |-> <<>>]
  /\ reader' = [t \in Turns |-> IF reader[t] = "reading" THEN "gone" ELSE reader[t]]
  /\ queue' = [t \in Turns |-> 0]
  /\ owed' = [t \in Turns |-> 0]
  /\ UNCHANGED <<row, ctxDone, sent, text, status, log, payload>>

Next ==
  \/ \E t \in Turns :
       \/ StartCheck(t) \/ Start(t) \/ Relay(t)
       \/ AgentSend(t) \/ AgentClose(t) \/ Cancel(t)
       \/ Attach(t) \/ Read(t) \/ Detach(t) \/ SyncStart(t)
  \/ Elapse \/ DeleteSession \/ Crash

Spec == Init /\ [][Next]_vars

(* Goroutines are scheduled; the agent, the clock and the clients need not  *)
(* ever do anything more, except that a connected client keeps reading.     *)
Fairness ==
  \A t \in Turns : WF_vars(Start(t)) /\ WF_vars(Relay(t)) /\ WF_vars(Read(t))

FairSpec == Spec /\ Fairness

-----------------------------------------------------------------------------
(* Types, and the capacities of the two channels of a turn. *)
TypeOK ==
  /\ exists \in BOOLEAN /\ stale \in BOOLEAN /\ crashed \in BOOLEAN
  /\ busy \in 0..MaxTurns /\ streamOf \in 0..MaxTurns /\ cancels \subseteq Turns
  /\ hs \in [Turns -> HandlerPhases]
  /\ relay \in [Turns -> RelayPhases]
  /\ ctxDone \in [Turns -> BOOLEAN]
  /\ agent \in [Turns -> {"idle", "running", "closed"}]
  /\ sent \in [Turns -> 0..MaxEvents] /\ text \in [Turns -> 0..MaxEvents]
  /\ status \in [Turns -> {"", "partial", "interrupted"}]
  /\ reader \in [Turns -> {"none", "reading", "gone", "eof"}]
  /\ queue \in [Turns -> 0..ChanCap] /\ owed \in [Turns -> 0..2]
  /\ \A t \in Turns : ev[t] \in Seq(Kinds) /\ Len(ev[t]) <= EvCap
  /\ \A t \in Turns : log[t] \in Seq(Kinds \cup {"stream_end"})

(* "It emits EXACTLY ONE done" (chat.go:176-180): the journal of a turn    *)
(* holds done only as its last event but one, whatever the agent sent and   *)
(* however the cancellation raced it.                                      *)
OneCompletion ==
  \A t \in Turns :
    /\ \A k \in 1..Len(log[t]) : log[t][k] = "done" => k = Len(log[t]) - 1
    /\ relay[t] \in {"closing", "done"} => \E k \in 1..Len(log[t]) : log[t][k] = "done"

(* "A partial answer is never silently dropped" (chat.go:176-206): once     *)
(* done is journaled the answer is stored, all of it, and the payload the   *)
(* page swaps in contains it, unless the session has been deleted.         *)
DoneCarriesAnswer ==
  \A t \in Turns :
    relay[t] \in {"closing", "done"} /\ text[t] > 0 /\ exists =>
      /\ \E k \in 1..Len(msgs) : msgs[k] = Assistant(t)
      /\ \E k \in 1..Len(payload[t]) : payload[t][k] = Assistant(t)

(* A turn stores its question once and then its answer at most once, in    *)
(* this order, even when turns overlap (chat.go:146, 205).                 *)
AnswerFollowsQuestion ==
  \A k \in 1..Len(msgs) :
    /\ msgs[k].role = "assistant" => \E j \in 1..(k - 1) : msgs[j] = User(msgs[k].turn)
    /\ \A j \in 1..Len(msgs) :
         msgs[j].role = msgs[k].role /\ msgs[j].turn = msgs[k].turn => j = k

(* The busy marker never outlives its turn except by a crash               *)
(* (chat.go:207-211, 28-30): a session that reports a turn has one that     *)
(* will still clear the marker.                                            *)
BusyHasOwner ==
  busy # 0 => \/ hs[busy] = "marked"
              \/ relay[busy] \in {"setup", "loop", "publish", "append", "clear"}
              \/ crashed

(* After a crash the turn's user message is still there: it was stored     *)
(* before the marker was set (chat.go:145-158).                            *)
BusyHasQuestion == busy # 0 => \E k \in 1..Len(msgs) : msgs[k] = User(busy)

(* Cancelling settles the turn: even if the agent never sends another       *)
(* event, the relay of a cancelled turn finishes, provided no reader left    *)
(* while the relay was sending to it (chat.go:23-25, 276-281).              *)
CancelSettlesTurn ==
  [](~crashed /\ \A t \in Turns : reader[t] # "gone")
    => \A t \in Turns : (relay[t] \in Live /\ ctxDone[t]) ~> (relay[t] = "done")

(* chat.go:120: "a session with a live turn rejects a second concurrent    *)
(* turn with a typed 409".                                                 *)
OneLiveTurn == \A t, u \in Turns : relay[t] \in Live /\ relay[u] \in Live => t = u

(* chat.go:176-180: finishTurn "runs on every exit path - success,          *)
(* transport-emitted done, agent error, or context cancellation".          *)
CancelledTurnFinishes ==
  \A t \in Turns : (relay[t] \in Live /\ ctxDone[t]) ~> (relay[t] \in {"done", "lost"})
=============================================================================
