----------------------------- MODULE ListEvents -----------------------------
(***************************************************************************)
(* How the page learns that the session list changed (static/sessions.js   *)
(* 5784-6420): the session-events stream and its reconnects, the coalesced *)
(* refreshes it asks for, the closing of the streams while the window is   *)
(* hidden or not focused, and the gateway stream with its probe and its    *)
(* fallback poll.  The list is known by its version; how a refresh paints  *)
(* it is module SessionList.  The server only sends changes that happen    *)
(* after the subscription (internal/httpserver/session_events_sse.go).     *)
(***************************************************************************)
EXTENDS Naturals

CONSTANTS
  EvChanges,     \* bound: changes of the list
  EvErrors,      \* bound: errors of the two streams
  EvWindows      \* bound: the window is hidden, blurred, shown or focused

ASSUME EvAssumption == {EvChanges, EvErrors, EvWindows} \subseteq Nat

VARIABLES
  evVersion,   \* the server's version of the list
  evShown,     \* the version the page shows
  evWindow,    \* document.hidden, no focus, the debounce of the blur
  evStream,    \* _sessionEventsSSE: none, connecting, subscribed, open
  evQueue,     \* changes sent over it and not received
  evNeeds,     \* _sessionEventsNeedsRefreshOnOpen
  evRetry,     \* _sessionEventsReconnectTimer is set
  evTimer,     \* _sessionEventsRefreshPendingRequest, its 300 ms timer set
  evFetch,     \* the refresh refreshSessionList has in flight
  evAgain,     \* _sessionListRefreshPendingRequest
  gwStream,    \* _gatewaySSE is open
  gwPoll,      \* _gatewayPollTimer is set
  gwFlag,      \* _gatewayProbeInFlight
  gwProbes,    \* probes in flight
  gwUnknown,   \* the last probe told nothing
  evLeft       \* changes, errors and window events still allowed

sseVars == <<evStream, evQueue, evNeeds, evRetry>>
askVars == <<evTimer, evFetch, evAgain>>
gwVars  == <<gwStream, gwPoll, gwFlag, gwProbes, gwUnknown>>
evVars  == <<evVersion, evShown, evWindow, sseVars, askVars, gwVars, evLeft>>

Request == [on: BOOLEAN, force: BOOLEAN]
NoRequest == [on |-> FALSE, force |-> FALSE]
NoFetch == [phase |-> "idle", version |-> 0]

EvTypeOK ==
  /\ evVersion \in Nat /\ evShown \in Nat
  /\ evWindow \in [hidden: BOOLEAN, blurred: BOOLEAN, closing: BOOLEAN]
  /\ evStream \in {"none", "connecting", "subscribed", "open"}
  /\ evQueue \in Nat /\ evNeeds \in BOOLEAN /\ evRetry \in BOOLEAN
  /\ evTimer \in Request /\ evAgain \in Request
  /\ evFetch \in [phase: {"idle", "asked", "served", "active"}, version: Nat]
  /\ gwStream \in BOOLEAN /\ gwPoll \in BOOLEAN /\ gwFlag \in BOOLEAN
  /\ gwProbes \in Nat /\ gwUnknown \in BOOLEAN
  /\ evLeft \in [changes: Nat, errors: Nat, windows: Nat]

\* The page is up and focused, its list current, both streams open.
EvInit ==
  /\ evVersion = 0 /\ evShown = 0
  /\ evWindow = [hidden |-> FALSE, blurred |-> FALSE, closing |-> FALSE]
  /\ evStream = "open" /\ evQueue = 0 /\ evNeeds = FALSE /\ evRetry = FALSE
  /\ evTimer = NoRequest /\ evAgain = NoRequest /\ evFetch = NoFetch
  /\ gwStream = TRUE /\ gwPoll = FALSE /\ gwFlag = FALSE /\ gwProbes = 0
  /\ gwUnknown = FALSE
  /\ evLeft = [changes |-> EvChanges, errors |-> EvErrors, windows |-> EvWindows]

Backgrounded == evWindow.hidden \/ evWindow.blurred

---------------------------------------------------------------------------
(* Refreshes *)

\* refreshSessionList: not for a hidden page unless forced; one at a time.
RefreshSessionList(force, hidden) ==
  IF ~force /\ hidden THEN UNCHANGED <<evFetch, evAgain>>
  ELSE IF evFetch.phase # "idle"
    THEN /\ evAgain' = [on |-> TRUE, force |-> force \/ evAgain.force]
         /\ UNCHANGED evFetch
    ELSE /\ evFetch' = [phase |-> "asked", version |-> 0]
         /\ UNCHANGED evAgain

\* _scheduleSessionEventsRefresh
Coalesced(r) == [on |-> TRUE, force |-> r.force \/ evTimer.force]

\* A new session or a pull of the list.
AskedByUser ==
  /\ evLeft.windows > 0
  /\ evLeft' = [evLeft EXCEPT !.windows = @ - 1]
  /\ \E force \in BOOLEAN : RefreshSessionList(force, evWindow.hidden)
  /\ UNCHANGED <<evVersion, evShown, evWindow, sseVars, evTimer, gwVars>>

RefreshTimer ==
  /\ evTimer.on
  /\ evTimer' = NoRequest
  /\ RefreshSessionList(evTimer.force, evWindow.hidden)
  /\ UNCHANGED <<evVersion, evShown, evWindow, sseVars, gwVars, evLeft>>

ServeList ==
  /\ evFetch.phase = "asked"
  /\ evFetch' = [phase |-> "served", version |-> evVersion]
  /\ UNCHANGED <<evVersion, evShown, evWindow, sseVars, evTimer, evAgain, gwVars,
                 evLeft>>

\* ensureSessionEventsSSE: only for a window in front, and only one stream.
Ensured(window) ==
  IF evStream = "none" /\ ~window.hidden /\ ~window.blurred
    THEN "connecting" ELSE evStream

\* The list is painted; painting makes sure of the stream.  The refresh may
\* go on to the active session.
PaintList ==
  /\ evFetch.phase = "served"
  /\ evShown' = evFetch.version
  /\ evFetch' = [evFetch EXCEPT !.phase = "active"]
  /\ evStream' = Ensured(evWindow)
  /\ UNCHANGED <<evVersion, evWindow, evQueue, evNeeds, evRetry, evTimer, evAgain,
                 gwVars, evLeft>>

\* Mutant: what was asked during the refresh is dropped.
RefreshDone_dropsAgain ==
  /\ evFetch.phase = "active"
  /\ evFetch' = NoFetch /\ evAgain' = NoRequest
  /\ UNCHANGED <<evVersion, evShown, evWindow, sseVars, evTimer, gwVars, evLeft>>

\* What was asked meanwhile is asked again, 300 ms later.
RefreshDone ==
  /\ evFetch.phase = "active"
  /\ evFetch' = NoFetch /\ evAgain' = NoRequest
  /\ evTimer' = IF evAgain.on THEN Coalesced(evAgain) ELSE evTimer
  /\ UNCHANGED <<evVersion, evShown, evWindow, sseVars, gwVars, evLeft>>

---------------------------------------------------------------------------
(* The session-events stream *)

\* A full channel drops its oldest item: one item then stands for both.
ListChanges ==
  /\ evLeft.changes > 0
  /\ evLeft' = [evLeft EXCEPT !.changes = @ - 1]
  /\ evVersion' = evVersion + 1
  /\ evQueue' \in IF evStream \in {"subscribed", "open"}
                   THEN {evQueue + 1} \cup ({evQueue} \ {0}) ELSE {evQueue}
  /\ UNCHANGED <<evShown, evWindow, evStream, evNeeds, evRetry, askVars, gwVars>>

Subscribe ==
  /\ evStream = "connecting"
  /\ evStream' = "subscribed"
  /\ UNCHANGED <<evVersion, evShown, evWindow, evQueue, evNeeds, evRetry, askVars,
                 gwVars, evLeft>>

\* onopen: catch up on what was missed since the close.
StreamOpens ==
  /\ evStream = "subscribed"
  /\ evStream' = "open"
  /\ evNeeds' = FALSE
  /\ IF evNeeds THEN RefreshSessionList(TRUE, evWindow.hidden)
                ELSE UNCHANGED <<evFetch, evAgain>>
  /\ UNCHANGED <<evVersion, evShown, evWindow, evQueue, evRetry, evTimer, gwVars,
                 evLeft>>

SessionsChanged ==
  /\ evStream = "open" /\ evQueue > 0
  /\ evQueue' = evQueue - 1
  /\ evTimer' = Coalesced([force |-> TRUE])
  /\ UNCHANGED <<evVersion, evShown, evWindow, evStream, evNeeds, evRetry, evFetch,
                 evAgain, gwVars, evLeft>>

\* Mutant: a lost stream does not ask for a refresh when it is back.
StreamFails_forgets ==
  /\ evLeft.errors > 0 /\ evStream # "none"
  /\ evLeft' = [evLeft EXCEPT !.errors = @ - 1]
  /\ evStream' = "none" /\ evQueue' = 0 /\ evRetry' = TRUE
  /\ UNCHANGED <<evVersion, evShown, evWindow, evNeeds, askVars, gwVars>>

\* onerror: close, and reconnect after a delay.
StreamFails ==
  /\ evLeft.errors > 0 /\ evStream # "none"
  /\ evLeft' = [evLeft EXCEPT !.errors = @ - 1]
  /\ evStream' = "none" /\ evQueue' = 0 /\ evNeeds' = TRUE /\ evRetry' = TRUE
  /\ UNCHANGED <<evVersion, evShown, evWindow, askVars, gwVars>>

ReconnectTimer ==
  /\ evRetry
  /\ evRetry' = FALSE
  /\ evStream' = Ensured(evWindow)
  /\ UNCHANGED <<evVersion, evShown, evWindow, evQueue, evNeeds, askVars, gwVars,
                 evLeft>>

---------------------------------------------------------------------------
(* The gateway stream *)

StopGatewaySSE ==
  /\ gwStream' = FALSE /\ gwPoll' = FALSE /\ gwFlag' = FALSE /\ gwUnknown' = FALSE
  /\ UNCHANGED gwProbes

StartGatewaySSE(window) ==
  /\ gwStream' = (~window.hidden /\ ~window.blurred)
  /\ gwPoll' = FALSE /\ gwFlag' = FALSE /\ gwUnknown' = FALSE

\* onerror: ask whether the server watches the gateway at all.
GatewayFails ==
  /\ evLeft.errors > 0 /\ gwStream
  /\ evLeft' = [evLeft EXCEPT !.errors = @ - 1]
  /\ gwStream' = FALSE /\ gwFlag' = TRUE
  /\ gwProbes' = IF gwFlag THEN gwProbes ELSE gwProbes + 1
  /\ UNCHANGED <<evVersion, evShown, evWindow, sseVars, askVars, gwPoll, gwUnknown>>

\* A list pushed by the gateway ends the fallback poll.
GatewayChanged ==
  /\ gwStream /\ gwPoll
  /\ gwPoll' = FALSE
  /\ UNCHANGED <<evVersion, evShown, evWindow, sseVars, askVars, gwStream, gwFlag,
                 gwProbes, gwUnknown, evLeft>>

\* Mutant: no fallback poll when the server does not watch the gateway.
ProbeAnswers_noPoll ==
  /\ gwProbes > 0 /\ gwProbes' = gwProbes - 1 /\ gwFlag' = FALSE
  /\ gwStream' \in {gwStream, gwStream \/ ~Backgrounded}
  /\ UNCHANGED <<evVersion, evShown, evWindow, sseVars, askVars, gwPoll, gwUnknown, evLeft>>

\* The probe answers: the watcher runs; it does not, or the network failed;
\* or another status, about which nothing is done.
ProbeAnswers ==
  /\ gwProbes > 0
  /\ gwProbes' = gwProbes - 1 /\ gwFlag' = FALSE
  /\ \/ /\ gwStream' = (gwStream \/ ~Backgrounded)
        /\ gwPoll' = FALSE /\ gwUnknown' = FALSE
     \/ /\ gwPoll' = TRUE
        /\ UNCHANGED <<gwStream, gwUnknown>>
     \/ /\ gwUnknown' = TRUE
        /\ UNCHANGED <<gwStream, gwPoll>>
  /\ UNCHANGED <<evVersion, evShown, evWindow, sseVars, askVars, evLeft>>

---------------------------------------------------------------------------
(* The window *)

CloseSessionEventsSSE ==
  /\ evStream' = "none" /\ evQueue' = 0
  /\ evNeeds' = (evNeeds \/ evStream # "none")
  /\ UNCHANGED evRetry

\* visibilitychange, to hidden: both streams close.
Hide ==
  /\ ~evWindow.hidden
  /\ evWindow' = [evWindow EXCEPT !.hidden = TRUE]
  /\ CloseSessionEventsSSE /\ StopGatewaySSE
  /\ UNCHANGED askVars

\* _refreshSessionListAfterSidebarResume clears the catch-up of onopen, though
\* the stream it has just asked for is not subscribed yet.
Resume(window) ==
  /\ evStream' = Ensured(window)
  /\ evNeeds' = FALSE
  /\ RefreshSessionList(TRUE, window.hidden)
  /\ UNCHANGED <<evQueue, evRetry, evTimer>>

Show ==
  /\ evWindow.hidden
  /\ evWindow' = [evWindow EXCEPT !.hidden = FALSE]
  /\ Resume(evWindow')
  /\ StartGatewaySSE(evWindow') /\ UNCHANGED gwProbes

Blur ==
  /\ ~evWindow.blurred
  /\ evWindow' = [evWindow EXCEPT !.blurred = TRUE, !.closing = TRUE]
  /\ UNCHANGED <<sseVars, askVars, gwVars>>

Focus ==
  /\ evWindow.blurred
  /\ evWindow' = [evWindow EXCEPT !.blurred = FALSE, !.closing = FALSE]
  /\ Resume(evWindow')
  /\ IF gwStream THEN UNCHANGED gwVars
     ELSE StartGatewaySSE(evWindow') /\ UNCHANGED gwProbes

WindowEvent ==
  /\ evLeft.windows > 0
  /\ evLeft' = [evLeft EXCEPT !.windows = @ - 1]
  /\ Hide \/ Show \/ Blur \/ Focus
  /\ UNCHANGED <<evVersion, evShown>>

\* Mutant: the timer only closes the streams of a hidden window.
BlurTimer_hiddenOnly ==
  /\ evWindow.closing /\ evWindow' = [evWindow EXCEPT !.closing = FALSE]
  /\ IF evWindow.hidden THEN CloseSessionEventsSSE /\ StopGatewaySSE
                        ELSE UNCHANGED <<sseVars, gwVars>>
  /\ UNCHANGED <<evVersion, evShown, askVars, evLeft>>

\* A blur that lasts a second closes both streams.
BlurTimer ==
  /\ evWindow.closing
  /\ evWindow' = [evWindow EXCEPT !.closing = FALSE]
  /\ IF Backgrounded THEN CloseSessionEventsSSE /\ StopGatewaySSE
                     ELSE UNCHANGED <<sseVars, gwVars>>
  /\ UNCHANGED <<evVersion, evShown, askVars, evLeft>>

---------------------------------------------------------------------------
StreamProgress  == Subscribe \/ StreamOpens \/ SessionsChanged \/ ReconnectTimer
RefreshProgress == RefreshTimer \/ ServeList \/ PaintList \/ RefreshDone

EvNext ==
  \/ AskedByUser \/ ListChanges \/ StreamFails \/ GatewayFails \/ GatewayChanged
  \/ WindowEvent \/ BlurTimer \/ ProbeAnswers \/ StreamProgress \/ RefreshProgress

\* Timers fire, connections are made and requests are answered.
EvFairness ==
  /\ WF_evVars(StreamProgress) /\ WF_evVars(RefreshProgress)
  /\ WF_evVars(BlurTimer) /\ WF_evVars(ProbeAnswers)

EvSpec == EvInit /\ [][EvNext]_evVars /\ EvFairness

---------------------------------------------------------------------------
(* Properties *)

\* Something still under way that will bring the list up to date.
CatchUpUnderWay ==
  \/ evQueue > 0 \/ evNeeds \/ evTimer.on \/ evAgain.on
  \/ evFetch.phase = "asked"
  \/ evFetch.phase = "served" /\ evFetch.version = evVersion

\* No wake-up is lost while the window stays in front: a list that is behind
\* is about to be caught up, through reconnects and coalesced refreshes alike
\* (sessions.js 6060-6095, 6193-6224).
NoLostWakeup ==
  evLeft.windows = EvWindows => evShown = evVersion \/ CatchUpUnderWay

\* ... and it is caught up.
ListCatchesUp ==
  []<>(evShown = evVersion \/ evLeft.windows # EvWindows)

\* A window in the background gives its connections back
\* (sessions.js 6097-6164: the pool of six connections).
BackgroundReleases ==
  []<>(~Backgrounded \/ (evStream = "none" /\ ~gwStream))

\* A window in front hears of the gateway's sessions by its stream, by the
\* fallback poll, or will after the probe, unless the last probe told nothing.
GatewayWatched ==
  ~Backgrounded => gwStream \/ gwPoll \/ gwProbes > 0 \/ gwUnknown

\* As sessions.js 5813 puts it, the refresh of a resume satisfies any pending
\* catch-up: a list behind is about to be caught up, resumes included.
ResumeCoversClose == Backgrounded \/ evShown = evVersion \/ CatchUpUnderWay
                       \/ evStream \in {"connecting", "none"}
=============================================================================
