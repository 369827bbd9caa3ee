------------------------------ MODULE ChatPage ------------------------------
(***************************************************************************)
(* The composer of the page and what becomes of a message: send, steer,    *)
(* interrupt and queue (static/messages.js, commands.js), the queues of    *)
(* messages waiting for a turn to end and the drain (ui.js), Stop          *)
(* (boot.js), and loadSession moving the page to another session           *)
(* (sessions.js).  A turn is named by the message that started it.  What   *)
(* the turn's event stream delivers before its end is left out.            *)
(***************************************************************************)
EXTENDS Naturals, Sequences, SequencesExt, FiniteSets

CONSTANTS
  CpSessions,   \* sessions
  CpScript,     \* the messages the user writes, in order
  CpFirst,      \* the session shown first
  CpModes,      \* values of the setting default_message_mode in use
  CpServerTells,\* do list rows tell the running turn, and session replies the
                \* draft?  The page expects it; the Go server sends neither
  CpActs,       \* bound: sessions opened, uses of Stop, turns of others
  CpErrors      \* bound: starts that fail

Nothing == "none"
Foreign == "foreign"           \* the turn of another client
CpMessages == ToSet(CpScript)
CpTurns == CpMessages \cup {Foreign, Nothing}
CpSid   == CpSessions \cup {Nothing}

ASSUME CpAssumption ==
  /\ CpFirst \in CpSessions /\ CpModes \subseteq {"queue", "interrupt", "steer"}
  /\ CpServerTells \in BOOLEAN /\ CpScript \in Seq(CpMessages) /\ IsInjective(CpScript)
  /\ {Nothing, Foreign} \cap CpMessages = {}
  /\ {CpActs, CpErrors} \subseteq Nat

VARIABLES
  cpRunning,  \* server: the running turn of each session
  cpTaken,    \* server: the sessions each message was taken in, in order
  cpDrafts,   \* server: the composer draft of each session
  cpPage,     \* S, INFLIGHT, LIVE_STREAMS, SESSION_QUEUES, the composer
  cpSend,     \* the send() in progress: _sendInProgress, _sendInProgressSid
  cpLoad,     \* the loadSession in progress, and how far
  cpStops,    \* /api/chat/cancel requests in flight
  cpList,     \* the running turns an /api/sessions answer in flight reports
  cpTyped,    \* how many messages of the script have been written
  cpHome,     \* the session each message was meant for when it was sent
  cpLeft      \* what the bounds still allow

cpVars == <<cpRunning, cpTaken, cpDrafts, cpPage, cpSend, cpLoad, cpStops,
            cpList, cpTyped, cpHome, cpLeft>>
cpServer == <<cpRunning, cpTaken>>
cpUser   == <<cpTyped, cpHome, cpLeft>>

NoSend == [phase |-> "idle", sid |-> Nothing, msg |-> Nothing, turn |-> Nothing]
NoLoad == [sid |-> Nothing, phase |-> "none", found |-> Nothing, draft |-> Nothing]

CpTypeOK ==
  /\ cpRunning \in [CpSessions -> CpTurns]
  /\ cpTaken \in [CpMessages -> Seq(CpSessions)]
  /\ cpDrafts \in [CpSessions -> CpMessages \cup {Nothing}]
  /\ cpPage \in [view: CpSessions, busy: BOOLEAN, stream: CpTurns, confirm: BOOLEAN,
                  inflight: [CpSessions -> {"none", "held", "reattach"}],
                  live: [CpSessions -> CpTurns], queue: [CpSessions -> Seq(CpMessages)],
                  fresh: SUBSET CpMessages, stored: SUBSET CpSessions,
                  timers: SUBSET [sid: CpSessions, msg: CpMessages],
                  composer: CpMessages \cup {Nothing}]
  /\ cpSend \in [phase: {"idle", "uploading", "posting", "started", "conflict",
                         "failed", "reconnecting", "steering", "steered",
                         "refused", "stopping"},
                 sid: CpSid, msg: CpMessages \cup {Nothing}, turn: CpTurns]
  /\ cpLoad \in [sid: CpSid, phase: {"none", "saving", "asked", "answered", "shown",
                                      "showing live", "broken"},
                 found: CpTurns, draft: CpMessages \cup {Nothing}]
  /\ cpStops \subseteq [sid: CpSessions, turn: CpTurns, by: {"user", "send"},
                        reply: {"none", "yes", "no"}]
  /\ cpList = << >> \/ cpList \in [CpSessions -> CpTurns]
  /\ cpTyped \in 0 .. Len(CpScript)
  /\ cpHome \in [CpMessages -> CpSid]
  /\ cpLeft \in [acts: Nat, errors: Nat]

CpInit ==
  /\ cpRunning = [s \in CpSessions |-> Nothing]
  /\ cpTaken = [m \in CpMessages |-> << >>]
  /\ cpDrafts = [s \in CpSessions |-> Nothing]
  /\ cpPage = [view |-> CpFirst, busy |-> FALSE, stream |-> Nothing,
               confirm |-> FALSE, inflight |-> [s \in CpSessions |-> "none"],
               live |-> [s \in CpSessions |-> Nothing],
               queue |-> [s \in CpSessions |-> << >>], fresh |-> {},
               stored |-> {}, timers |-> {}, composer |-> Nothing]
  /\ cpSend = NoSend /\ cpLoad = NoLoad /\ cpStops = {} /\ cpList = << >>
  /\ cpTyped = 0 /\ cpHome = [m \in CpMessages |-> Nothing]
  /\ cpLeft = [acts |-> CpActs, errors |-> CpErrors]

---------------------------------------------------------------------------
(* The page's helpers, as functions of its state *)

\* queueSessionMessage: the whole queue is written to storage each time.
QueueMessage(P, s, m) ==
  [P EXCEPT !.queue[s] = Append(@, m), !.fresh = @ \cup {m},
            !.stored = @ \cup {s}]

\* setBusy(false): one message of the finished session, when it is shown, is
\* taken from its queue and sent 120 ms later.
SetIdle(P, s) ==
  IF s # P.view \/ P.queue[s] = << >> THEN [P EXCEPT !.busy = FALSE]
  ELSE [P EXCEPT !.busy = FALSE, !.queue[s] = Tail(@),
                 !.stored = IF Len(P.queue[s]) = 1 THEN @ \ {s} ELSE @ \cup {s},
                 !.timers = @ \cup {[sid |-> s, msg |-> Head(P.queue[s])]}]

\* closeLiveStream of every session of S but those of keep.
CloseLive(P, S) ==
  LET shut == {s \in S : P.live[s] # Nothing} IN
  [P EXCEPT
     !.live = [s \in CpSessions |-> IF s \in shut THEN Nothing ELSE @[s]],
     !.inflight = [s \in CpSessions |->
                     IF s \in shut /\ @[s] # "none" THEN "reattach" ELSE @[s]]]

\* attachLiveStream: at most one session keeps an event stream, whichever is
\* on the screen.
AttachLive(P, s, turn) ==
  LET Q == CloseLive([P EXCEPT !.inflight[s] = IF @ = "none" THEN "held" ELSE @],
                     IF P.live[s] = turn THEN CpSessions \ {s} ELSE CpSessions)
  IN  IF P.live[s] = turn /\ turn # Nothing THEN P
      ELSE [Q EXCEPT !.live[s] = turn]

Forgotten(P, s) == [P EXCEPT !.inflight[s] = "none"]

---------------------------------------------------------------------------
(* send() *)

\* The session a message goes to when a send is already in progress: the one
\* that send is for, once it has left the composer.
SendTarget ==
  IF cpSend.phase \in {"uploading", "posting", "started", "conflict", "failed",
                       "reconnecting"}
    THEN cpSend.sid ELSE cpPage.view

\* _clearStaleBusyStateBeforeSend
StaleBusyCleared(P) ==
  IF P.busy /\ P.stream = Nothing /\ ~P.confirm
    THEN SetIdle(Forgotten(P, P.view), P.view) ELSE P

SendInProgress(P, m) ==
  /\ cpSend.phase # "idle"
  /\ cpPage' = [QueueMessage(P, SendTarget, m) EXCEPT !.composer = Nothing]
  /\ cpDrafts' = [s \in CpSessions |-> IF s \in {P.view, SendTarget}
                                         THEN Nothing ELSE cpDrafts[s]]
  /\ UNCHANGED <<cpSend, cpStops>>

SendQueues(P, m, mode) ==
  /\ cpSend.phase = "idle" /\ P.busy
  /\ mode = "queue" \/ (mode \in {"steer", "interrupt"} /\ P.stream = Nothing)
  /\ cpPage' = [QueueMessage(P, P.view, m) EXCEPT !.composer = Nothing]
  /\ cpDrafts' = [cpDrafts EXCEPT ![P.view] = Nothing]
  /\ UNCHANGED <<cpSend, cpStops>>

SendInterrupts(P, m, mode) ==
  /\ cpSend.phase = "idle" /\ P.busy /\ mode = "interrupt" /\ P.stream # Nothing
  /\ cpPage' = [QueueMessage(P, P.view, m) EXCEPT !.composer = Nothing]
  /\ cpDrafts' = [cpDrafts EXCEPT ![P.view] = Nothing]
  /\ cpSend' = [NoSend EXCEPT !.phase = "stopping"]
  /\ cpStops' = cpStops \cup {[sid |-> P.view, turn |-> P.stream, by |-> "send",
                               reply |-> "none"]}

SendSteers(P, m, mode) ==
  /\ cpSend.phase = "idle" /\ P.busy /\ mode = "steer" /\ P.stream # Nothing
  /\ cpPage' = [P EXCEPT !.composer = Nothing]
  /\ cpSend' = [phase |-> "steering", sid |-> P.view, msg |-> m, turn |-> P.stream]
  /\ UNCHANGED <<cpDrafts, cpStops>>

SendUploads(P, m) ==
  /\ cpSend.phase = "idle" /\ ~P.busy
  /\ cpPage' = [P EXCEPT !.composer = Nothing]
  /\ cpDrafts' = [cpDrafts EXCEPT ![P.view] = Nothing]
  /\ cpSend' = [NoSend EXCEPT !.phase = "uploading", !.sid = P.view, !.msg = m]
  /\ UNCHANGED cpStops

\* The stale state is cleared when send() was not already in progress.
SendText(P, m, mode) ==
  LET Q == IF cpSend.phase = "idle" THEN StaleBusyCleared(P) ELSE P IN
  \/ SendInProgress(Q, m) \/ SendQueues(Q, m, mode) \/ SendInterrupts(Q, m, mode)
  \/ SendSteers(Q, m, mode) \/ SendUploads(Q, m)

\* The user writes while no other session is being opened; the draft is saved.
TypeMessage ==
  /\ cpTyped < Len(CpScript) /\ cpPage.composer = Nothing /\ cpLoad = NoLoad
  /\ cpTyped' = cpTyped + 1
  /\ cpPage' = [cpPage EXCEPT !.composer = CpScript[cpTyped']]
  /\ cpDrafts' = [cpDrafts EXCEPT ![cpPage.view] = CpScript[cpTyped']]
  /\ UNCHANGED <<cpServer, cpSend, cpLoad, cpStops, cpList, cpHome, cpLeft>>

PressSend(mode) ==
  /\ cpPage.composer # Nothing /\ cpLoad = NoLoad
  /\ SendText(cpPage, cpPage.composer, mode)
  /\ cpHome' = [cpHome EXCEPT ![cpPage.composer] = SendTarget]
  /\ UNCHANGED <<cpServer, cpLoad, cpList, cpTyped, cpLeft>>

\* Mutant: the message of a session no longer shown is not put back.
DrainBack_drops(d) ==
  /\ d \in cpPage.timers /\ d.sid # cpPage.view
  /\ cpPage' = [cpPage EXCEPT !.timers = @ \ {d}]
  /\ UNCHANGED <<cpServer, cpDrafts, cpSend, cpLoad, cpStops, cpList, cpUser>>

\* The drain's timer: back to the end of its queue when another session is
\* shown, else into the composer, over what is there, and sent.
DrainBack(d) ==
  /\ d \in cpPage.timers /\ d.sid # cpPage.view
  /\ cpPage' = QueueMessage([cpPage EXCEPT !.timers = @ \ {d}], d.sid, d.msg)
  /\ UNCHANGED <<cpServer, cpDrafts, cpSend, cpLoad, cpStops, cpList, cpUser>>

DrainSends(d, mode) ==
  /\ d \in cpPage.timers /\ d.sid = cpPage.view
  /\ SendText([cpPage EXCEPT !.timers = @ \ {d}, !.composer = d.msg], d.msg, mode)
  /\ UNCHANGED <<cpServer, cpLoad, cpList, cpUser>>

\* The files are up: the turn is shown in whatever session is on the screen.
Uploaded ==
  /\ cpSend.phase = "uploading"
  /\ cpSend' = [cpSend EXCEPT !.phase = "posting"]
  /\ cpPage' = [cpPage EXCEPT !.busy = TRUE, !.confirm = TRUE, !.stream = Nothing,
                              !.inflight[cpSend.sid] = "held"]
  /\ UNCHANGED <<cpServer, cpDrafts, cpLoad, cpStops, cpList, cpUser>>

\* POST /api/chat/start at the server: 409 while the session has a turn.
StartAnswered ==
  /\ cpSend.phase = "posting"
  /\ \/ /\ cpRunning[cpSend.sid] = Nothing
        /\ cpRunning' = [cpRunning EXCEPT ![cpSend.sid] = cpSend.msg]
        /\ cpTaken' = [cpTaken EXCEPT ![cpSend.msg] = Append(@, cpSend.sid)]
        /\ cpSend' = [cpSend EXCEPT !.phase = "started"] /\ UNCHANGED cpLeft
     \/ /\ cpRunning[cpSend.sid] # Nothing
        /\ cpSend' = [cpSend EXCEPT !.phase = "conflict"]
        /\ UNCHANGED <<cpServer, cpLeft>>
     \/ /\ cpLeft.errors > 0
        /\ cpLeft' = [cpLeft EXCEPT !.errors = @ - 1]
        /\ cpSend' = [cpSend EXCEPT !.phase = "failed"] /\ UNCHANGED cpServer
  /\ UNCHANGED <<cpDrafts, cpPage, cpLoad, cpStops, cpList, cpTyped, cpHome>>

\* S.activeStreamId is set whatever session is shown.
Started ==
  /\ cpSend.phase = "started" /\ cpSend' = NoSend
  /\ cpPage' = AttachLive([cpPage EXCEPT !.stream = cpSend.msg, !.confirm = TRUE,
                             !.inflight[cpSend.sid] = IF @ = "none" THEN "held" ELSE @],
                          cpSend.sid, cpSend.msg)
  /\ UNCHANGED <<cpServer, cpDrafts, cpLoad, cpStops, cpList, cpUser>>

\* loadSession(s) as it begins: nothing when s is already shown.  The text in
\* the composer is saved for the session that is left.
LoadsNothing(s) == s = cpPage.view /\ cpLoad.sid \in {Nothing, s}
LoadBegins(P, s) ==
  IF LoadsNothing(s) THEN UNCHANGED <<cpLoad, cpDrafts>>
  ELSE /\ cpLoad' = [NoLoad EXCEPT !.sid = s,
                       !.phase = IF s = P.view THEN "asked" ELSE "saving"]
       /\ cpDrafts' = IF s = P.view THEN cpDrafts
                      ELSE [cpDrafts EXCEPT ![P.view] = P.composer]

\* 409: the message is queued and loadSession called.  INFLIGHT has forgotten
\* the session, so this load does not throw.
StartConflicts ==
  /\ cpSend.phase = "conflict"
  /\ cpPage' = QueueMessage(Forgotten(cpPage, cpSend.sid), cpSend.sid, cpSend.msg)
  /\ LoadBegins(cpPage, cpSend.sid)
  /\ cpSend' = IF LoadsNothing(cpSend.sid) THEN NoSend
               ELSE [cpSend EXCEPT !.phase = "reconnecting"]
  /\ UNCHANGED <<cpServer, cpStops, cpList, cpUser>>

Reconnected ==
  /\ cpSend.phase = "reconnecting" /\ cpLoad.sid # cpSend.sid
  /\ cpSend' = NoSend
  /\ UNCHANGED <<cpServer, cpDrafts, cpPage, cpLoad, cpStops, cpList, cpUser>>

\* _restoreComposerDraftAfterFailedSend: back into an empty composer of the
\* session, or as its draft.
DraftBack(P, s, m) ==
  IF P.view = s /\ P.composer = Nothing THEN [P EXCEPT !.composer = m] ELSE P

\* The start failed: the page goes idle, which may take a queued message, and
\* the text comes back.
StartFails ==
  /\ cpSend.phase = "failed" /\ cpSend' = NoSend
  /\ LET s == cpSend.sid
     IN /\ cpPage' = DraftBack(SetIdle(Forgotten(cpPage, s), s), s, cpSend.msg)
        /\ cpDrafts' = [cpDrafts EXCEPT ![s] =
                          IF cpPage.view = s THEN cpPage'.composer ELSE cpSend.msg]
  /\ UNCHANGED <<cpServer, cpLoad, cpStops, cpList, cpUser>>

---------------------------------------------------------------------------
(* _trySteer *)

SteerAnswered ==
  /\ cpSend.phase = "steering"
  /\ \/ /\ cpRunning[cpSend.sid] # Nothing
        /\ cpTaken' = [cpTaken EXCEPT ![cpSend.msg] = Append(@, cpSend.sid)]
        /\ cpSend' = [cpSend EXCEPT !.phase = "steered"]
     \/ /\ cpRunning[cpSend.sid] = Nothing
        /\ cpSend' = [cpSend EXCEPT !.phase = "refused"] /\ UNCHANGED cpTaken
  /\ UNCHANGED <<cpRunning, cpDrafts, cpPage, cpLoad, cpStops, cpList, cpUser>>

Steered ==
  /\ cpSend.phase = "steered" /\ cpSend' = NoSend
  /\ cpDrafts' = [cpDrafts EXCEPT ![cpSend.sid] = Nothing]
  /\ UNCHANGED <<cpServer, cpPage, cpLoad, cpStops, cpList, cpUser>>

\* Mutant: a refusal is only handled while the session is still shown.
SteerRefused_onlyShown ==
  /\ cpSend.phase = "refused" /\ cpPage.view = cpSend.sid /\ cpSend' = NoSend
  /\ cpPage' = [Forgotten(cpPage, cpSend.sid) EXCEPT !.composer = cpSend.msg,
                  !.busy = FALSE, !.stream = Nothing, !.confirm = FALSE]
  /\ UNCHANGED <<cpServer, cpDrafts, cpLoad, cpStops, cpList, cpUser>>

\* The run was dead: the text comes back over what is in the composer and the
\* page goes idle, without draining; or it becomes the session's draft.
SteerRefused ==
  /\ cpSend.phase = "refused" /\ cpSend' = NoSend
  /\ IF cpPage.view = cpSend.sid /\ cpPage.stream \in {cpSend.turn, Nothing}
       THEN /\ cpPage' = [Forgotten(cpPage, cpSend.sid) EXCEPT
                            !.composer = cpSend.msg, !.busy = FALSE,
                            !.stream = Nothing, !.confirm = FALSE]
            /\ UNCHANGED cpDrafts
       ELSE /\ cpDrafts' = [cpDrafts EXCEPT ![cpSend.sid] = cpSend.msg]
            /\ UNCHANGED cpPage
  /\ UNCHANGED <<cpServer, cpLoad, cpStops, cpList, cpUser>>

---------------------------------------------------------------------------
(* Turns end, and are stopped *)

TurnEnds(s) ==
  /\ cpRunning[s] # Nothing
  /\ cpRunning' = [cpRunning EXCEPT ![s] = Nothing]
  /\ cpPage' = [cpPage EXCEPT !.fresh = @ \ ToSet(cpPage.queue[s])]
  /\ UNCHANGED <<cpTaken, cpDrafts, cpSend, cpLoad, cpStops, cpList, cpUser>>

\* The terminal event (done, apperror or cancel) of a turn whose stream is
\* open.  A stream the shown session no longer owns only closes.
TurnEndShown(s) ==
  LET turn == cpPage.live[s]
      stale == cpPage.view = s /\ cpPage.stream # turn
      P == [Forgotten(cpPage, s) EXCEPT !.live[s] = Nothing]
  IN /\ turn # Nothing /\ cpRunning[s] # turn
     /\ cpPage' =
          IF stale THEN CloseLive(cpPage, {s})
          ELSE IF P.view = s
            THEN SetIdle([P EXCEPT !.stream = Nothing, !.confirm = FALSE], s)
          ELSE IF P.inflight[P.view] = "none" THEN SetIdle(P, P.view) ELSE P
     /\ UNCHANGED <<cpServer, cpDrafts, cpSend, cpLoad, cpStops, cpList, cpUser>>

\* The Stop button: the page is busy, the composer empty, a stream known.
PressStop ==
  /\ cpLeft.acts > 0 /\ cpPage.busy /\ cpPage.stream # Nothing
  /\ cpPage.composer = Nothing
  /\ cpLeft' = [cpLeft EXCEPT !.acts = @ - 1]
  /\ cpStops' = cpStops \cup {[sid |-> cpPage.view, turn |-> cpPage.stream,
                               by |-> "user", reply |-> "none"]}
  /\ UNCHANGED <<cpServer, cpDrafts, cpPage, cpSend, cpLoad, cpList, cpTyped, cpHome>>

StopAnswered(p) ==
  /\ p \in cpStops /\ p.reply = "none"
  /\ LET hit == {s \in CpSessions : cpRunning[s] = p.turn} IN
     /\ cpRunning' = [s \in CpSessions |-> IF s \in hit THEN Nothing ELSE cpRunning[s]]
     /\ cpPage' = [cpPage EXCEPT !.fresh = @ \ (UNION {ToSet(cpPage.queue[s]) : s \in hit})]
     /\ cpStops' = (cpStops \ {p})
          \cup {[p EXCEPT !.reply = IF hit = {} THEN "no" ELSE "yes"]}
  /\ UNCHANGED <<cpTaken, cpDrafts, cpSend, cpLoad, cpList, cpUser>>

\* cancelStream's end: the turn's own terminal event tidies up, unless the
\* page has moved to another stream or the server knew no such turn.
StopReturns(p) ==
  /\ p \in cpStops /\ p.reply # "none"
  /\ cpStops' = cpStops \ {p}
  /\ cpSend' = IF p.by = "send" THEN NoSend ELSE cpSend
  /\ cpPage' = IF cpPage.stream # p.turn
                 THEN IF cpPage.live[p.sid] = p.turn THEN CloseLive(cpPage, {p.sid})
                      ELSE cpPage
               ELSE IF p.reply = "no"
                 THEN SetIdle([cpPage EXCEPT !.stream = Nothing], cpPage.view)
               ELSE cpPage
  /\ UNCHANGED <<cpServer, cpDrafts, cpLoad, cpList, cpUser>>

\* Another browser or a scheduled job starts a turn.
OtherStarts(s) ==
  /\ cpLeft.acts > 0 /\ cpRunning[s] = Nothing
  /\ cpLeft' = [cpLeft EXCEPT !.acts = @ - 1]
  /\ cpRunning' = [cpRunning EXCEPT ![s] = Foreign]
  /\ UNCHANGED <<cpTaken, cpDrafts, cpPage, cpSend, cpLoad, cpStops, cpList,
                 cpTyped, cpHome>>

---------------------------------------------------------------------------
(* loadSession *)

OpenSession(s) ==
  /\ cpLeft.acts > 0 /\ ~LoadsNothing(s) /\ s # cpLoad.sid
  /\ cpLeft' = [cpLeft EXCEPT !.acts = @ - 1]
  /\ LoadBegins(cpPage, s)
  /\ UNCHANGED <<cpServer, cpPage, cpSend, cpStops, cpList, cpTyped, cpHome>>

\* The draft is saved: the session on the screen keeps its live turn in
\* INFLIGHT and loses its event stream.
DraftSaved ==
  /\ cpLoad.phase = "saving"
  /\ cpLoad' = [cpLoad EXCEPT !.phase = "asked"]
  /\ LET kept == IF cpPage.inflight[cpPage.view] = "none"
                    /\ (cpPage.busy \/ cpPage.stream # Nothing)
                   THEN [cpPage EXCEPT !.inflight[cpPage.view] = "held"] ELSE cpPage
     IN cpPage' = CloseLive(kept, CpSessions \ {cpLoad.sid})
  /\ UNCHANGED <<cpServer, cpDrafts, cpSend, cpStops, cpList, cpUser>>

MetadataAnswered ==
  /\ cpLoad.phase = "asked"
  /\ cpLoad' = [cpLoad EXCEPT !.phase = "answered", !.found = cpRunning[cpLoad.sid],
                   !.draft = IF CpServerTells THEN cpDrafts[cpLoad.sid] ELSE Nothing]
  /\ UNCHANGED <<cpServer, cpDrafts, cpPage, cpSend, cpStops, cpList, cpUser>>

\* S.session is the new session; the page is made idle when that one is, and
\* otherwise keeps the busy flag and stream of the session it left.
MetadataShown ==
  /\ cpLoad.phase = "answered"
  /\ cpLoad' = [cpLoad EXCEPT !.phase =
                   IF cpLoad.found # Nothing
                      /\ cpPage.inflight[cpLoad.sid] # "none"
                     THEN "showing live" ELSE "shown"]
  /\ cpPage' = IF cpLoad.found # Nothing
                 THEN [cpPage EXCEPT !.view = cpLoad.sid, !.confirm = TRUE]
               ELSE [Forgotten(cpPage, cpLoad.sid) EXCEPT !.view = cpLoad.sid,
                       !.confirm = FALSE, !.busy = FALSE, !.stream = Nothing]
  /\ UNCHANGED <<cpServer, cpDrafts, cpSend, cpStops, cpList, cpUser>>

\* The oldest stored message goes into an empty composer if it was queued
\* after the last answer; what is stored is dropped, the queue itself stays.
QueueRestored(P, s) ==
  LET late == {i \in 1 .. Len(P.queue[s]) : P.queue[s][i] \in P.fresh} IN
  IF s \notin P.stored THEN P
  ELSE [P EXCEPT !.stored = @ \ {s},
                 !.composer = IF @ = Nothing /\ late # {} THEN P.queue[s][Min(late)] ELSE @]

\* The draft the metadata came with fills the composer, or empties it; with
\* no draft in the reply the text of the session that was left stays.
LoadEnds(P) ==
  /\ cpPage' = [P EXCEPT !.composer = IF CpServerTells THEN cpLoad.draft ELSE @]
  /\ cpLoad' = NoLoad

\* The messages are loaded, INFLIGHT had nothing for the session: its running
\* turn is followed; else the page goes idle, unless a stream was set meanwhile.
MessagesLoaded ==
  /\ cpLoad.phase = "shown"
  /\ LET P == QueueRestored(cpPage, cpLoad.sid)
         turn == IF cpLoad.found # Nothing THEN cpLoad.found ELSE P.stream
         Q == [P EXCEPT !.stream = turn, !.busy = turn # Nothing]
     IN LoadEnds(IF turn = Nothing THEN Q ELSE AttachLive(Q, cpLoad.sid, turn))
  /\ UNCHANGED <<cpServer, cpDrafts, cpSend, cpStops, cpList, cpUser>>

\* INFLIGHT had the live turn: its stream is reopened if it was closed.  When
\* the entry is gone by now, reading it throws and the load never ends.
LiveTurnLoaded ==
  /\ cpLoad.phase = "showing live"
  /\ LET s == cpLoad.sid
         P == [cpPage EXCEPT !.stream = cpLoad.found, !.busy = TRUE]
     IN \/ /\ cpPage.inflight[s] = "none"
           /\ cpLoad' = [cpLoad EXCEPT !.phase = "broken"] /\ UNCHANGED cpPage
        \/ cpPage.inflight[s] = "held" /\ LoadEnds(P)
        \/ /\ cpPage.inflight[s] = "reattach"
           /\ LoadEnds(AttachLive([P EXCEPT !.inflight[s] = "held"], s, cpLoad.found))
  /\ UNCHANGED <<cpServer, cpDrafts, cpSend, cpStops, cpList, cpUser>>

---------------------------------------------------------------------------
(* The session list reports the shown session idle *)

ListAsked ==
  /\ cpList = << >> /\ cpPage.busy
  /\ cpList' = [s \in CpSessions |->
                  IF CpServerTells THEN cpRunning[s] ELSE Nothing]
  /\ UNCHANGED <<cpServer, cpDrafts, cpPage, cpSend, cpLoad, cpStops, cpUser>>

\* Mutant: the list clears the stream and leaves the page busy.
ListReconciles_keepsBusy ==
  /\ cpList # << >> /\ cpList' = << >>
  /\ cpPage' = IF cpSend.phase # "idle" \/ cpList[cpPage.view] # Nothing THEN cpPage
               ELSE [Forgotten(cpPage, cpPage.view) EXCEPT !.stream = Nothing]
  /\ UNCHANGED <<cpServer, cpDrafts, cpSend, cpLoad, cpStops, cpUser>>

\* _reconcileActiveSessionIdleStateFromList: not for the session a send is in
\* progress for.  The page goes idle without draining the queue.
ListIdles(P, idle, sending) ==
  IF P.view \notin idle \ sending THEN P
  ELSE [P EXCEPT !.busy = FALSE, !.stream = Nothing, !.confirm = FALSE]

\* _purgeStaleInflightEntries: INFLIGHT forgets every session that is idle.  It
\* spares the one a send is in progress for, but the merge of the optimistic
\* rows, which runs before it, does not if the row is one of these.
Purged(P, idle, sending) ==
  {[P EXCEPT !.inflight = [s \in CpSessions |-> IF s \in gone THEN "none" ELSE @[s]]]
     : gone \in {idle, idle \ sending}}

ListReconciles ==
  /\ cpList # << >> /\ cpList' = << >>
  /\ LET idle == {s \in CpSessions : cpList[s] = Nothing}
         sending == IF cpSend.phase \in {"idle", "steering", "steered", "refused",
                                         "stopping"} THEN {} ELSE {cpSend.sid}
     IN cpPage' \in Purged(ListIdles(cpPage, idle, sending), idle, sending)
  /\ UNCHANGED <<cpServer, cpDrafts, cpSend, cpLoad, cpStops, cpUser>>

---------------------------------------------------------------------------

CpLoading == DraftSaved \/ MetadataAnswered \/ MetadataShown \/ MessagesLoaded
             \/ LiveTurnLoaded
CpSending == Uploaded \/ StartAnswered \/ Started \/ StartConflicts \/ Reconnected
             \/ StartFails \/ SteerAnswered \/ Steered \/ SteerRefused
CpStopping == \E p \in cpStops : StopAnswered(p) \/ StopReturns(p)
CpDraining == \E d \in cpPage.timers : DrainBack(d) \/ \E mode \in CpModes : DrainSends(d, mode)
CpEnding  == \E s \in CpSessions : TurnEnds(s) \/ TurnEndShown(s)
CpListing == ListAsked \/ ListReconciles

CpNext ==
  \/ TypeMessage \/ \E mode \in CpModes : PressSend(mode)
  \/ PressStop \/ \E s \in CpSessions : OpenSession(s) \/ OtherStarts(s)
  \/ CpLoading \/ CpSending \/ CpStopping \/ CpDraining \/ CpEnding \/ CpListing

\* Requests are answered, timers fire, turns end, and the list is refreshed.
\* The user need do nothing.
CpSpec == CpInit /\ [][CpNext]_cpVars
  /\ WF_cpVars(CpLoading) /\ WF_cpVars(CpSending) /\ WF_cpVars(CpStopping)
  /\ WF_cpVars(CpDraining) /\ WF_cpVars(ListAsked) /\ WF_cpVars(ListReconciles)
  /\ \A s \in CpSessions : WF_cpVars(TurnEnds(s)) /\ WF_cpVars(TurnEndShown(s))
---------------------------------------------------------------------------
(* Properties *)

\* The messages that have left the composer: in the queue of a session, due in
\* a drain's timer, in the hands of send(), or taken by the server.
HandedOver ==
  (UNION {ToSet(cpPage.queue[s]) : s \in CpSessions})
  \cup {d.msg : d \in cpPage.timers} \cup {cpSend.msg}
  \cup {m \in CpMessages : cpTaken[m] # << >>}

\* A message the user handed over is never dropped (send, the queues, the
\* drain's timer, a steer that comes too late): if it is not taken it comes
\* back to the composer or becomes its session's draft.  The one exception the
\* code chooses is other text in the composer when a start fails.
HandedOverIsKept ==
  [][\A m \in CpMessages : m \in HandedOver /\ m \notin HandedOver' =>
       \/ cpPage'.composer = m \/ \E s \in CpSessions : cpDrafts'[s] = m
       \/ cpSend.phase = "failed" /\ cpPage.composer # Nothing]_cpVars

\* The shown session is not left busy when its turn is over (the terminal
\* event, the list's reconciliation, loadSession, a failed start or a Stop the
\* server does not know of must make it idle, whichever comes first).
BusyEnds == []<>~cpPage.busy

\* send() always lets go of the composer: _sendInProgress is cleared on every
\* path, the 409 that waits for loadSession and the late steer included.
SendEnds == []<>(cpSend.phase = "idle")

\* A queued message is sent once: what the server took is never taken again
\* (drain, queue restored into the composer, retry after a failed start).
SentOnce == \A m \in CpMessages : Len(cpTaken[m]) <= 1

\* The busy page goes idle only when the turn it follows is over: the list
\* reconciles the shown session with what the server says is running.
IdleOnlyWhenOver ==
  [][LET v == cpPage.view IN
     cpPage.busy /\ cpPage.stream = cpRunning[v] /\ cpRunning[v] # Nothing
       /\ cpPage'.view = v => cpPage'.busy]_cpVars
=============================================================================
