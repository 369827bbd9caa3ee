----------------------------- MODULE LiveStream -----------------------------
(***************************************************************************)
(* How the page follows one session's turns (attachLiveStream and its      *)
(* closure, static/messages.js): the event streams it opens, the terminal  *)
(* events, a lost connection and its probes, a stream that ends without a  *)
(* done, a hidden page, and the user leaving and returning.  Each call of  *)
(* attachLiveStream makes a follower, with the flags of its closure; the   *)
(* k-th EventSource of follower i is <<i, k>>.                             *)
(***************************************************************************)
EXTENDS Naturals, Sequences, SequencesExt, FiniteSets

CONSTANTS
  LvTurns,    \* how many turns the user starts
  LvRelays,   \* terminal events of the agent's that the server passes on; an
              \* "early end" is a stream_end with no done before it
  LvFade,     \* is the word fade on?
  LvProbes,   \* probes for a lost stream (six)
  LvRetries,  \* times recovery finds the turn active before it gives up (ten)
  LvFaults,   \* bound: connections lost, requests failed, server restarts
  LvMoves,    \* bound: the session left or opened, the page hidden
  LvHides     \* bound: of these, how often the page is hidden

ASSUME LvAssumption ==
  /\ {LvTurns, LvProbes, LvRetries, LvFaults, LvMoves, LvHides} \subseteq Nat
  /\ LvRelays \subseteq {"apperror", "cancel", "early end"} /\ LvFade \in BOOLEAN

VARIABLES
  lvTurn,    \* server: the turns started
  lvPhase,   \* server: the phase of each turn
  lvMarked,  \* server: active_stream_id of the session's row, 0 for none
  lvJournal, \* server: the events of each turn but tokens and the like
  lvTab,     \* S, INFLIGHT and LIVE_STREAMS of the session, and the followers
  lvLeft     \* what the bounds still allow

lvVars == <<lvTurn, lvPhase, lvMarked, lvJournal, lvTab, lvLeft>>
lvServer == <<lvTurn, lvPhase, lvMarked, lvJournal>>

LvIds == 1 .. Len(lvTab.followers)
NoSource == <<0, 0>>
Chains == {"none", "preflight", "waiting", "asking", "restoring", "last restore",
           "late restore", "deferred", "resuming", "resume restore"}
Restores == {"restoring", "last restore", "late restore", "resume restore"}
NoReply == [kind |-> "none", turn |-> 0]
Follower(t, chain) ==
  [turn |-> t, final |-> FALSE, wired |-> 0, seen |-> 0, fading |-> FALSE,
   recovery |-> "none", pending |-> FALSE, tries |-> 0, recsrc |-> 0,
   recreply |-> NoReply, chain |-> chain, chainsrc |-> 0, probes |-> 0,
   lost |-> FALSE, reply |-> NoReply]

LvReply == [kind: {"none", "idle", "active", "failed", "refused"}, turn: 0 .. LvTurns]
LvFollower ==
  [turn: 1 .. LvTurns, final: BOOLEAN, wired: Nat, seen: Nat, fading: BOOLEAN,
   recovery: {"none", "scheduled", "asking", "settling"}, pending: BOOLEAN,
   tries: Nat, recsrc: Nat, recreply: LvReply, chain: Chains, chainsrc: Nat,
   probes: Nat, lost: BOOLEAN, reply: LvReply]

LvTypeOK ==
  /\ lvTurn \in 0 .. LvTurns /\ lvMarked \in 0 .. LvTurns
  /\ lvPhase \in [1 .. LvTurns -> {"unsent", "running", "stored", "ended", "dead"}]
  /\ lvJournal \in [1 .. LvTurns -> Seq(LvRelays \cup {"error", "done", "stream_end"})]
  /\ lvTab \in [here: BOOLEAN, load: {"none", "leaving", "asked"}, busy: BOOLEAN,
                 stream: 0 .. LvTurns, inflight: {"none", "held", "reattach"},
                 live: Nat \X Nat, open: SUBSET (Nat \X Nat), hidden: BOOLEAN,
                 followers: Seq(LvFollower), shown: 0 .. LvTurns, notice: 0 .. LvTurns]
  /\ \A src \in lvTab.open \cup {lvTab.live} : src = NoSource \/ src[1] \in LvIds
  /\ lvLeft \in [faults: Nat, moves: Nat, hides: Nat]

LvInit ==
  /\ lvTurn = 0 /\ lvPhase = [t \in 1 .. LvTurns |-> "unsent"] /\ lvMarked = 0
  /\ lvJournal = [t \in 1 .. LvTurns |-> << >>]
  /\ lvTab = [here |-> TRUE, load |-> "none", busy |-> FALSE, stream |-> 0,
              inflight |-> "none", live |-> NoSource, open |-> {},
              hidden |-> FALSE, followers |-> << >>, shown |-> 0, notice |-> 0]
  /\ lvLeft = [faults |-> LvFaults, moves |-> LvMoves, hides |-> LvHides]

---------------------------------------------------------------------------
(* The helpers of the closure, as functions of the page's state P *)

\* _isActiveSession is P.here; _isSessionCurrentPane:
CurrentPane(P) == P.here /\ P.load # "leaving"

\* Does follower i not own the session that is shown?
Stale(P, i) == P.here /\ P.stream # P.followers[i].turn

\* closeLiveStream
CloseLiveStream(P) ==
  IF P.live = NoSource THEN P
  ELSE [P EXCEPT !.open = @ \ {P.live}, !.live = NoSource,
                 !.inflight = IF @ = "none" THEN @ ELSE "reattach"]

\* _closeSource: only the source that is in LIVE_STREAMS.
CloseSource(P, src) == IF P.live = src THEN CloseLiveStream(P) ELSE P

\* Mutant: the session's earlier source stays open.
Wire_leavesOpen(P, i) ==
  LET src == <<i, P.followers[i].wired + 1>> IN
  [P EXCEPT !.followers[i].wired = @ + 1, !.followers[i].chain = "none",
            !.open = @ \cup {src}, !.live = src]

\* _wireSSE(new EventSource(...)): the session's earlier source is closed.
Wire(P, i) ==
  LET src == <<i, P.followers[i].wired + 1>> IN
  [P EXCEPT !.followers[i].wired = @ + 1, !.followers[i].chain = "none",
            !.open = (@ \ {P.live}) \cup {src}, !.live = src]

\* _clearOwnerInflightState
ForgetInflight(P, i) == IF Stale(P, i) THEN P ELSE [P EXCEPT !.inflight = "none"]

\* _setActivePaneIdleIfOwner.  Away, it is the other session that goes idle.
PaneIdle(P) == IF P.here THEN [P EXCEPT !.busy = FALSE] ELSE P

\* _clearStreamEndRecovery.  An answer under way is still awaited.
ClearRecovery(P, i) ==
  [P EXCEPT !.followers[i].tries = 0, !.followers[i].pending = FALSE,
            !.followers[i].recovery = IF @ = "scheduled" THEN "none" ELSE @]

\* _restoreSettledSession as it begins, for a chain: refused, and the source
\* closed, when the session that is shown has passed to another stream.
AskRestore(P, i, chain) ==
  LET Q == [P EXCEPT !.followers[i].chain = chain] IN
  IF Stale(P, i)
    THEN [CloseSource(Q, <<i, P.followers[i].chainsrc>>) EXCEPT
            !.followers[i].reply = [NoReply EXCEPT !.kind = "refused"]]
    ELSE [Q EXCEPT !.followers[i].reply = NoReply]

StreamNulled(P, pane) == IF pane THEN [P EXCEPT !.stream = 0] ELSE P

\* attachLiveStream: a source of the same turn that is open is kept.  A
\* reconnecting follower first asks for the stream's status.
Attach(P, t, reconnecting) ==
  LET Q == CloseLiveStream([P EXCEPT !.inflight = IF @ = "none" THEN "held" ELSE @])
      n == Len(P.followers) + 1
  IN  IF P.live \in P.open /\ P.followers[P.live[1]].turn = t
        THEN [P EXCEPT !.inflight = IF @ = "none" THEN "held" ELSE @]
      ELSE IF reconnecting
        THEN [Q EXCEPT !.followers = Append(@, Follower(t, "preflight"))]
      ELSE Wire([Q EXCEPT !.followers = Append(@, Follower(t, "none"))], n)

\* _finishDone: the answer the event carries is shown; the stream of the pane
\* is nulled, whichever it is by now.
FinishDone(P, i) ==
  LET pane == CurrentPane(P)
      Q == StreamNulled(ForgetInflight([P EXCEPT !.followers[i].fading = FALSE], i), pane)
  IN  PaneIdle(IF pane THEN [Q EXCEPT !.busy = FALSE, !.shown = P.followers[i].turn]
               ELSE Q)

\* Mutant: the messages of the settled session are not shown.
Settle_notShown(P, i, src, turn) ==
  LET Q == CloseSource(ForgetInflight([P EXCEPT !.followers[i].final = TRUE], i), src)
  IN  PaneIdle(StreamNulled(Q, CurrentPane(P)))

\* What _restoreSettledSession does with a session that is no longer active.
Settle(P, i, src, turn) ==
  LET pane == CurrentPane(P)
      Q == CloseSource(ForgetInflight([P EXCEPT !.followers[i].final = TRUE], i), src)
      R == StreamNulled(Q, pane)
  IN  PaneIdle(IF pane THEN [R EXCEPT !.shown = turn] ELSE R)

\* _handleStreamError
StreamLost(P, i, src) ==
  IF Stale(P, i) THEN CloseSource(P, src)
  ELSE LET Q == ClearRecovery([P EXCEPT !.followers[i].final = TRUE], i)
           R == CloseSource(ForgetInflight(Q, i), src)
       IN  PaneIdle(IF P.here THEN [R EXCEPT !.stream = 0, !.notice = P.followers[i].turn]
                    ELSE R)

\* _finalizeStreamEndFallback
StreamEndFallback(P, i, src) ==
  LET Q == ClearRecovery([P EXCEPT !.followers[i].final = TRUE], i)
  IN  CloseSource(PaneIdle(StreamNulled(ForgetInflight(Q, i), P.here)), src)

\* _deferStreamErrorIfPageHidden, where the chain would give up.
GiveUp(P, i, src) ==
  IF P.hidden THEN [P EXCEPT !.followers[i].chain = "deferred",
                             !.stream = IF P.here THEN P.followers[i].turn ELSE @]
  ELSE StreamLost([P EXCEPT !.followers[i].chain = "none"], i, src)

---------------------------------------------------------------------------
(* The events of a source *)

OnDone(P, i, src) ==
  LET Q == ClearRecovery(P, i)
      R == [Q EXCEPT !.followers[i].final = TRUE]
  IN  IF P.followers[i].final THEN {P}
      ELSE IF Stale(P, i) THEN {CloseSource(Q, src)}
      ELSE {FinishDone(R, i)}
           \cup (IF LvFade THEN {[R EXCEPT !.followers[i].fading = TRUE]} ELSE {})

\* With live content on the screen the restore waits 180 ms for a late done.
OnStreamEnd(P, i, src) ==
  LET Q == ClearRecovery(P, i)
      Next(phase) == [Q EXCEPT !.followers[i].recovery = phase,
                               !.followers[i].pending = phase = "scheduled",
                               !.followers[i].recreply = NoReply,
                               !.followers[i].recsrc = src[2]]
  IN  IF P.followers[i].final THEN {CloseSource(P, src)}
      ELSE IF Stale(P, i) THEN {CloseSource(Q, src)}
      ELSE {Next("settling")} \cup (IF P.stream = P.followers[i].turn
                                      THEN {Next("scheduled")} ELSE {})

\* apperror and cancel: the source is closed, LIVE_STREAMS keeps it.
OnTerminal(P, i, src) ==
  LET Q == [ClearRecovery(P, i) EXCEPT !.followers[i].final = TRUE, !.open = @ \ {src}]
  IN  IF Stale(P, i) THEN {CloseSource(P, src)}
      ELSE {PaneIdle(StreamNulled(ForgetInflight(Q, i), P.here))}

\* error: a lost connection, the end of the response, or the server's event
\* of that name.  The first one of a follower starts the probes.
OnError(P, i, src) ==
  LET f == P.followers[i]
      Q == CloseSource(P, src)
      Chain(c) == [Q EXCEPT !.followers[i].chain = c, !.followers[i].chainsrc = src[2]]
  IN  IF f.final \/ Stale(P, i) \/ f.pending THEN {Q}
      ELSE IF P.hidden
        THEN {[P EXCEPT !.open = @ \ {src}, !.followers[i].chain = "deferred",
                        !.followers[i].chainsrc = src[2]]}
      ELSE IF ~CurrentPane(P) THEN {Q}
      ELSE IF ~f.lost
        THEN {[Chain("waiting") EXCEPT !.followers[i].lost = TRUE,
                                       !.followers[i].probes = 0]}
      ELSE {AskRestore(Chain("none"), i, "late restore")}

OnEvent(e, P, i, src) ==
  CASE e = "done" -> OnDone(P, i, src)
    [] e \in {"stream_end", "early end"} -> OnStreamEnd(P, i, src)
    [] e \in {"apperror", "cancel"} -> OnTerminal(P, i, src)
    [] e = "error" -> OnError(P, i, src)

Journal(i) == lvJournal[lvTab.followers[i].turn]

Deliver(src) ==
  LET i == src[1]
      n == lvTab.followers[i].seen + 1
  IN /\ src \in lvTab.open /\ n <= Len(Journal(i))
     /\ lvPhase[lvTab.followers[i].turn] # "dead"
     /\ lvTab' \in OnEvent(Journal(i)[n], [lvTab EXCEPT !.followers[i].seen = n], i, src)
     /\ UNCHANGED <<lvServer, lvLeft>>

\* The response ends with the journal, or there is no such stream.
ResponseEnds(src) ==
  LET i == src[1] IN
  /\ src \in lvTab.open
  /\ \/ lvPhase[lvTab.followers[i].turn] = "dead"
     \/ /\ lvPhase[lvTab.followers[i].turn] = "ended"
        /\ lvTab.followers[i].seen = Len(Journal(i))
  /\ lvTab' \in OnError(lvTab, i, src)
  /\ UNCHANGED <<lvServer, lvLeft>>

ConnectionLost(src) ==
  /\ src \in lvTab.open /\ lvLeft.faults > 0
  /\ lvLeft' = [lvLeft EXCEPT !.faults = @ - 1]
  /\ lvTab' \in OnError(lvTab, src[1], src)
  /\ UNCHANGED lvServer

---------------------------------------------------------------------------
(* What a follower waits for *)

\* /api/chat/stream/status; /api/session tells a turn active by its marker.
Status(i) == CASE lvPhase[lvTab.followers[i].turn] \in {"running", "stored"} -> "active"
               [] lvPhase[lvTab.followers[i].turn] = "ended" -> "replay"
               [] OTHER -> "gone"

\* A request is answered, or fails.
Answers(ok, fails) ==
  \/ lvTab' = ok /\ UNCHANGED lvLeft
  \/ lvLeft.faults > 0 /\ lvTab' = fails
     /\ lvLeft' = [lvLeft EXCEPT !.faults = @ - 1]

FadeEnds(i) ==
  /\ lvTab.followers[i].fading /\ lvTab' = FinishDone(lvTab, i)
  /\ UNCHANGED <<lvServer, lvLeft>>

\* The preflight of a reconnecting follower; it wires in whatever pane is shown.
Preflight(i) ==
  LET gone == PaneIdle(StreamNulled(ForgetInflight(
                [lvTab EXCEPT !.followers[i].chain = "none"], i), lvTab.here))
      ok == IF Status(i) = "gone" THEN gone ELSE Wire(lvTab, i)
  IN /\ lvTab.followers[i].chain = "preflight"
     /\ Answers(ok, Wire(lvTab, i))
     /\ UNCHANGED lvServer

\* _runStreamEndRecovery's timer.  A restore of a session that has passed to
\* another stream gives up at once.
RecoveryRuns(i) ==
  LET f == lvTab.followers[i] IN
  /\ f.recovery = "scheduled"
  /\ lvTab' = IF f.final THEN ClearRecovery(lvTab, i)
              ELSE IF Stale(lvTab, i)
                THEN StreamEndFallback(CloseSource(lvTab, <<i, f.recsrc>>), i, <<i, f.recsrc>>)
              ELSE [lvTab EXCEPT !.followers[i].recovery = "asking",
                                 !.followers[i].recreply = NoReply]
  /\ UNCHANGED <<lvServer, lvLeft>>

\* /api/session as a restore gets it: read now, used when it returns.
SessionReplies ==
  [kind: IF lvMarked = 0 THEN {"idle"} ELSE {"active"}, turn: {lvTurn}]
  \cup (IF lvLeft.faults > 0 THEN {[NoReply EXCEPT !.kind = "failed"]} ELSE {})
SessionAnswered(i) ==
  LET f == lvTab.followers[i] IN
  \E r \in SessionReplies :
    /\ \/ f.recovery \in {"asking", "settling"} /\ f.recreply = NoReply
          /\ lvTab' = [lvTab EXCEPT !.followers[i].recreply = r]
       \/ f.chain \in Restores /\ f.reply = NoReply
          /\ lvTab' = [lvTab EXCEPT !.followers[i].reply = r]
    /\ lvLeft' = [lvLeft EXCEPT !.faults = IF r.kind = "failed" THEN @ - 1 ELSE @]
    /\ UNCHANGED lvServer

\* The restore after stream_end, asked for by the timer or by the event.
RecoveryReturns(i) ==
  LET f == lvTab.followers[i]
      src == <<i, f.recsrc>>
      P == [lvTab EXCEPT !.followers[i].recovery = "none"]
      again == IF f.recovery = "asking" THEN f.tries < LvRetries
               ELSE lvTab.stream = f.turn
  IN /\ f.recovery \in {"asking", "settling"} /\ f.recreply # NoReply
     /\ lvTab' =
          IF f.final /\ f.recreply.kind # "failed"
            THEN IF f.recovery = "asking" THEN ClearRecovery(P, i) ELSE P
          ELSE IF f.recreply.kind = "idle"
            THEN LET Q == Settle(P, i, src, f.recreply.turn)
                 IN  IF f.recovery = "asking" THEN ClearRecovery(Q, i) ELSE Q
          ELSE IF f.recreply.kind = "active" /\ again
            THEN [P EXCEPT !.followers[i].recovery = "scheduled",
                    !.followers[i].pending = TRUE,
                    !.followers[i].tries = IF f.recovery = "asking" THEN @ + 1 ELSE @]
          ELSE StreamEndFallback(P, i, src)
     /\ UNCHANGED <<lvServer, lvLeft>>

\* _probeReconnect: the delay is over, the status is asked for.
ProbeRuns(i) ==
  LET f == lvTab.followers[i] IN
  /\ f.chain = "waiting"
  /\ lvTab' = [lvTab EXCEPT !.followers[i].chain =
                 IF f.final \/ ~CurrentPane(lvTab) THEN "none" ELSE "asking"]
  /\ UNCHANGED <<lvServer, lvLeft>>

ProbeAnswered(i) ==
  LET next == AskRestore(lvTab, i, "restoring")
      ok == IF Status(i) = "gone" THEN next ELSE Wire(lvTab, i)
  IN /\ lvTab.followers[i].chain = "asking" /\ Answers(ok, next)
     /\ UNCHANGED lvServer

\* Mutant: a session that is still active is taken for settled.
RestoreReturns_settlesActive(i) ==
  LET f == lvTab.followers[i]
      Q == [lvTab EXCEPT !.followers[i].chain = "none"]
  IN /\ f.chain \in Restores /\ f.reply # NoReply
     /\ lvTab' = IF f.final \/ f.reply.turn = 0 THEN Q
                 ELSE Settle(Q, i, <<i, f.chainsrc>>, f.reply.turn)
     /\ UNCHANGED <<lvServer, lvLeft>>

\* _restoreSettledSession returns in a chain of probes.  Unless it settled, the
\* next probe, or, after the last one, one more restore.
RestoreReturns(i) ==
  LET f == lvTab.followers[i]
      src == <<i, f.chainsrc>>
      Q == [lvTab EXCEPT !.followers[i].chain = "none"]
      goesOn ==
        CASE f.chain = "restoring" ->
               IF lvTab.hidden THEN GiveUp(lvTab, i, src)
               ELSE IF f.probes + 1 < LvProbes
                 THEN [lvTab EXCEPT !.followers[i].probes = @ + 1,
                                    !.followers[i].chain = "waiting"]
               ELSE AskRestore(lvTab, i, "last restore")
          [] f.chain = "last restore" -> IF f.final THEN Q ELSE GiveUp(lvTab, i, src)
          [] f.chain = "late restore" -> GiveUp(lvTab, i, src)
          [] f.chain = "resume restore" -> IF lvTab.hidden THEN Q ELSE StreamLost(Q, i, src)
  IN /\ f.chain \in Restores /\ f.reply # NoReply
     /\ lvTab' = IF f.reply.kind \in {"idle", "active"} /\ f.final THEN Q
                 ELSE IF f.reply.kind = "idle" THEN Settle(Q, i, src, f.reply.turn)
                 ELSE goesOn
     /\ UNCHANGED <<lvServer, lvLeft>>

\* The page is shown again: _reattachOrRestoreAfterDeferredStreamError.
Resumes(i) ==
  LET f == lvTab.followers[i] IN
  /\ f.chain = "deferred" /\ ~lvTab.hidden
  /\ lvTab' = [lvTab EXCEPT !.followers[i].chain =
                 IF f.final \/ ~lvTab.here THEN "none" ELSE "resuming"]
  /\ UNCHANGED <<lvServer, lvLeft>>

ResumeAnswered(i) ==
  LET next == AskRestore(lvTab, i, "resume restore")
      ok == IF Status(i) = "active" THEN Wire(lvTab, i) ELSE next
  IN /\ lvTab.followers[i].chain = "resuming"
     /\ Answers(ok, IF lvTab.hidden THEN [lvTab EXCEPT !.followers[i].chain = "none"]
                    ELSE next)
     /\ UNCHANGED lvServer

---------------------------------------------------------------------------
(* The server, and the user *)

StartTurn ==
  /\ lvTurn < LvTurns /\ lvMarked = 0 /\ lvTab.here /\ lvTab.load = "none"
  /\ ~lvTab.busy
  /\ lvTurn' = lvTurn + 1 /\ lvMarked' = lvTurn'
  /\ lvPhase' = [lvPhase EXCEPT ![lvTurn'] = "running"]
  /\ lvTab' = Attach([lvTab EXCEPT !.busy = TRUE, !.stream = lvTurn', !.inflight = "held"],
                     lvTurn', FALSE)
  /\ UNCHANGED <<lvJournal, lvLeft>>

\* Bound: one such event in a turn.
Publishes(e) ==
  /\ lvTurn > 0 /\ lvPhase[lvTurn] = "running"
  /\ lvJournal[lvTurn] = << >>
  /\ lvJournal' = [lvJournal EXCEPT ![lvTurn] = Append(@, e)]
  /\ UNCHANGED <<lvTurn, lvPhase, lvMarked, lvTab, lvLeft>>

\* finishTurn: the answer is stored and the marker cleared, then the journal ends.
AnswerStored ==
  /\ lvTurn > 0 /\ lvPhase[lvTurn] = "running"
  /\ lvPhase' = [lvPhase EXCEPT ![lvTurn] = "stored"] /\ lvMarked' = 0
  /\ UNCHANGED <<lvTurn, lvJournal, lvTab, lvLeft>>

JournalEnds(t) ==
  /\ lvPhase[t] = "stored"
  /\ lvPhase' = [lvPhase EXCEPT ![t] = "ended"]
  /\ lvJournal' = [lvJournal EXCEPT ![t] = @ \o <<"done", "stream_end">>]
  /\ UNCHANGED <<lvTurn, lvMarked, lvTab, lvLeft>>

\* The journals are in memory, the marker is not.
ServerRestarts ==
  /\ lvLeft.faults > 0 /\ lvTurn > 0 /\ lvPhase[lvTurn] # "dead"
  /\ lvLeft' = [lvLeft EXCEPT !.faults = @ - 1]
  /\ lvPhase' = [t \in 1 .. LvTurns |-> IF t <= lvTurn THEN "dead" ELSE lvPhase[t]]
  /\ UNCHANGED <<lvTurn, lvMarked, lvJournal, lvTab>>

LvMove(P) == /\ lvLeft.moves > 0 /\ lvTab' = P
             /\ lvLeft' = [lvLeft EXCEPT !.moves = @ - 1]
             /\ UNCHANGED lvServer

\* loadSession of another session begins, and shows it, idle.
Leave ==
  /\ lvTab.here /\ lvTab.load = "none"
  /\ LvMove(CloseLiveStream([lvTab EXCEPT !.load = "leaving",
       !.inflight = IF @ = "none" /\ (lvTab.busy \/ lvTab.stream # 0) THEN "held" ELSE @]))

OtherShown ==
  /\ lvTab.load = "leaving"
  /\ lvTab' = [lvTab EXCEPT !.load = "none", !.here = FALSE, !.busy = FALSE, !.stream = 0]
  /\ UNCHANGED <<lvServer, lvLeft>>

\* The user returns, or the page reloads the idle session it shows.
OpenAgain ==
  /\ lvTab.load = "none" /\ (lvTab.here => ~lvTab.busy)
  /\ LvMove([lvTab EXCEPT !.load = "asked"])

\* The session's marker decides: idle, with what the server has; or the turn
\* is followed, by a new follower unless INFLIGHT still has one at work.
Opened ==
  /\ lvTab.load = "asked"
  /\ LET P == [lvTab EXCEPT !.load = "none", !.here = TRUE]
         Q == [P EXCEPT !.busy = TRUE, !.stream = lvMarked]
     IN lvTab' = IF lvMarked = 0
                   THEN [P EXCEPT !.busy = FALSE, !.stream = 0, !.inflight = "none",
                                  !.shown = lvTurn]
                 ELSE IF lvTab.inflight = "held" THEN Q
                 ELSE Attach([Q EXCEPT !.inflight = "held"], lvMarked, TRUE)
  /\ UNCHANGED <<lvServer, lvLeft>>

Hide == /\ lvLeft.moves > 0 /\ lvLeft.hides > 0 /\ ~lvTab.hidden
        /\ lvTab' = [lvTab EXCEPT !.hidden = TRUE] /\ UNCHANGED lvServer
        /\ lvLeft' = [lvLeft EXCEPT !.moves = @ - 1, !.hides = @ - 1]
Show == /\ lvTab.hidden /\ lvTab' = [lvTab EXCEPT !.hidden = FALSE]
        /\ UNCHANGED <<lvServer, lvLeft>>

LvFollowing == \E i \in LvIds :
  \/ FadeEnds(i) \/ Preflight(i) \/ SessionAnswered(i) \/ RecoveryRuns(i)
  \/ RecoveryReturns(i) \/ ProbeRuns(i) \/ ProbeAnswered(i) \/ RestoreReturns(i)
  \/ Resumes(i) \/ ResumeAnswered(i)
LvReading == \E src \in lvTab.open : Deliver(src) \/ ResponseEnds(src)
LvServing == AnswerStored \/ \E t \in 1 .. LvTurns : JournalEnds(t)
LvLoading == OtherShown \/ Opened

LvNext ==
  \/ StartTurn \/ ServerRestarts \/ \E e \in LvRelays \cup {"error"} : Publishes(e)
  \/ Leave \/ OpenAgain \/ Hide \/ Show
  \/ \E src \in lvTab.open : ConnectionLost(src)
  \/ LvFollowing \/ LvReading \/ LvServing \/ LvLoading

\* The server finishes its turns, requests are answered, timers fire and
\* events arrive.  The user need neither return nor look at the page.

LvSpec == LvInit /\ [][LvNext]_lvVars
  /\ WF_lvVars(LvFollowing) /\ WF_lvVars(LvReading)
  /\ WF_lvVars(LvServing) /\ WF_lvVars(LvLoading)

---------------------------------------------------------------------------
(* Properties *)

\* The page leaks no EventSource: every open one is the one in LIVE_STREAMS,
\* which closeLiveStream and the next attachLiveStream will close
\* (messages.js 2050-2190, 5697-5703).
OneSource == lvTab.open \subseteq {lvTab.live}

\* A turn the agent ended by an event the server passes on: the page believes
\* the event, and the rest is the agent's.
Relayed(t) == LvRelays \cap ToSet(lvJournal[t]) # {}

\* A visible page does not stay busy for ever: whatever is lost, retried, left
\* or returned to, some follower makes it idle (the probes, the recovery after
\* stream_end, the deferred error, loadSession).
LvBusyEnds == []<>(~lvTab.busy \/ lvTab.hidden \/ Relayed(lvTab.stream))

\* The user who stays with the session sees how the turn ended: its answer, or
\* the notice that the connection was lost, unless a restart of the server
\* killed the turn (messages.js 6978-7156).
AnswerShown ==
  []<>(\/ ~lvTab.here \/ lvTab.hidden \/ lvMarked # 0
       \/ lvTab.shown = lvTurn \/ lvTab.notice = lvTurn
       \/ lvPhase[lvTurn] = "dead" \/ Relayed(lvTurn))

\* The shown session lets go of its running turn only when the user was told
\* that the connection was lost, not by a late answer to an earlier probe; or
\* when the follower of an earlier turn is not done yet: a fade's end, for one,
\* does not ask whose stream it nulls (messages.js 5238-5270, 6116-6176,
\* 6978-7081).
NotDone(f) == f.fading \/ f.recovery # "none" \/ f.chain \in {"preflight"} \cup Restores
OwnStreamOnly ==
  [][lvTab.here /\ lvTab'.here /\ lvTab.stream # 0 /\ lvTab'.stream = 0 =>
       \/ lvPhase[lvTab.stream] # "running" \/ Relayed(lvTab.stream)
       \/ lvTab'.notice = lvTab.stream
       \/ \E i \in LvIds : lvTab.followers[i].turn # lvTab.stream
                             /\ NotDone(lvTab.followers[i])]_lvVars

\* As messages.js 6716-6718 puts it, recovery owns the terminal decision: a
\* freshly connected stream of a running turn is never muted by its follower.
NotMuted ==
  \A src \in lvTab.open : lvTab.followers[src[1]].final =>
    lvPhase[lvTab.followers[src[1]].turn] \notin {"running", "stored"}
=============================================================================
