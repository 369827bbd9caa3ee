----------------------------- MODULE Approvals -----------------------------
(***************************************************************************)
(* The approval card of the page (static/messages.js 7336-7895, with the   *)
(* parts of loadSession that touch it): which approval the card shows, the *)
(* answer in flight, dismissals, the poll of /api/approval/pending and the *)
(* approval events of the live stream, against the queue of approvals the  *)
(* server keeps for each session.  The owner of a card is its approval id; *)
(* the run id and the mirror token that refine it are left out.            *)
(***************************************************************************)
EXTENDS Naturals, Sequences, SequencesExt

CONSTANTS
  ApSessions,     \* sessions
  ApApprovals,    \* approvals agents ask for
  ApScript,       \* the same, in the order they are asked
  ApSession,      \* [ApApprovals -> ApSessions]
  ApFirst,        \* the session shown first
  ApActs,         \* bound: answers, dismissals and sessions opened
  ApLosses        \* bound: requests that fail

NoApproval == "none"

ASSUME ApAssumption ==
  /\ ApSession \in [ApApprovals -> ApSessions] /\ ApFirst \in ApSessions
  /\ ApScript \in Seq(ApApprovals)
  /\ {ApActs, ApLosses} \subseteq Nat
  /\ NoApproval \notin ApApprovals \cup ApSessions

VARIABLES
  apWaiting,     \* the server's queue of unanswered approvals, by session
  apAsked,       \* how many of the script have been asked
  apRunning,     \* sessions whose turn is running (S.busy for the viewed one)
  apSending,     \* the session send() is starting a turn in
  apEvents,      \* approval events of live streams, in transit
  apView,        \* S.session.session_id
  apGen,         \* _loadSessionGeneration
  apLoading,     \* the session loadSession is loading, and how far
  apPending,     \* _approvalPendingBySession
  apCard,        \* the card: visible, _approvalSessionId, _approvalCurrentId,
                 \* _approvalDisplayedOwner, controls disabled, hide timer
  apDismissed,   \* the dismissed approvals of localStorage
  apResponding,  \* _approvalResponding
  apCleared,     \* _approvalClearedOwner: number of its answer, 0 for null
  apPosts,       \* answers in flight
  apPoll,        \* _approvalPollingSessionId and _approvalFallbackPollInFlight
  apAsks,        \* requests for the pending approval, of polls and refetches
  apLeft         \* acts of the user and failures still allowed

apVars == <<apWaiting, apAsked, apRunning, apSending, apEvents, apView, apGen, apLoading,
  apPending, apCard, apDismissed, apResponding, apCleared, apPosts, apPoll,
  apAsks, apLeft>>
apServer == <<apWaiting, apAsked, apRunning, apSending, apEvents>>
apPage   == <<apView, apGen, apLoading>>
apAnswer == <<apResponding, apPosts>>

Approval == ApApprovals \cup {NoApproval}
ApSid    == ApSessions \cup {NoApproval}
NoCard   == [visible |-> FALSE, sid |-> NoApproval, current |-> NoApproval,
             owner |-> NoApproval, disabled |-> FALSE, timer |-> NoApproval]
NoAnswer == [id |-> NoApproval, gen |-> 0]
ApNoSend == [sid |-> NoApproval, polls |-> FALSE]
NoPoll   == [sid |-> NoApproval, inFlight |-> FALSE]
\* n is the answer a refetch belongs to, 0 for a poll.
Ask(s, n, gen) ==
  [sid |-> s, n |-> n, gen |-> gen, phase |-> "asked", found |-> NoApproval]

ApTypeOK ==
  /\ apWaiting \in [ApSessions -> Seq(ApApprovals)]
  /\ apAsked \in 0 .. Len(ApScript)
  /\ apRunning \subseteq ApSessions /\ apSending \in [sid: ApSid, polls: BOOLEAN]
  /\ apEvents \subseteq ApApprovals
  /\ apView \in ApSessions /\ apGen \in Nat
  /\ apLoading \in [sid: ApSid, phase: {"none", "asked", "shown"}]
  /\ apPending \in [ApSessions -> Approval]
  /\ apCard \in [visible: BOOLEAN, sid: ApSid, current: Approval,
                 owner: Approval, disabled: BOOLEAN, timer: Approval]
  /\ apDismissed \subseteq ApApprovals
  /\ apResponding \in [id: Approval, gen: Nat]
  /\ apCleared \in Nat
  /\ \A p \in apPosts : p \in [n: Nat, id: ApApprovals, gen: Nat,
                               reply: {"none", "ok", "stale", "error"}]
  /\ apPoll \in [sid: ApSid, inFlight: BOOLEAN]
  /\ \A r \in apAsks : r \in [sid: ApSessions, n: Nat, gen: Nat,
                    phase: {"asked", "answered", "lost"}, found: Approval]
  /\ apLeft \in [acts: Nat, losses: Nat]

ApInit ==
  /\ apWaiting = [s \in ApSessions |-> << >>]
  /\ apAsked = 0 /\ apRunning = {ApSession[a] : a \in ApApprovals}
  /\ apSending = ApNoSend /\ apEvents = {}
  /\ apView = ApFirst /\ apGen = 0
  /\ apLoading = [sid |-> NoApproval, phase |-> "none"]
  /\ apPending = [s \in ApSessions |-> NoApproval]
  /\ apCard = NoCard /\ apDismissed = {}
  /\ apResponding = NoAnswer /\ apCleared = 0 /\ apPosts = {}
  /\ apPoll = [sid |-> ApFirst, inFlight |-> FALSE] /\ apAsks = {}
  /\ apLeft = [acts |-> ApActs, losses |-> ApLosses]

---------------------------------------------------------------------------
(* The card *)

\* showApprovalCard: the approval is remembered for its session; the card only
\* changes for the session on the screen, and not for a dismissed approval.
\* view, card and cleared are the values the call finds.
Shows(a, view) == ApSession[a] = view /\ a \notin apDismissed
Shown(a, card, resp) ==
  [visible |-> TRUE, sid |-> ApSession[a], current |-> a, owner |-> a,
   disabled |-> resp = [id |-> a, gen |-> apGen],
   timer |-> IF card.visible /\ card.current = a THEN card.timer ELSE NoApproval]
ShowApprovalCard(a, view, card, resp) ==
  /\ apPending' = [apPending EXCEPT ![ApSession[a]] = a]
  /\ apCard' = IF Shows(a, view) THEN Shown(a, card, resp) ELSE card
  /\ apCleared' = IF Shows(a, view) THEN 0 ELSE apCleared

\* hideApprovalCard(true): while its answer is in flight the card keeps its
\* owner.
Hidden(card, resp) ==
  [card EXCEPT !.visible = FALSE, !.sid = NoApproval, !.timer = NoApproval,
     !.owner = IF @ = resp.id THEN @ ELSE NoApproval]

\* hideApprovalCard(false): a card shown for less than 30 s gets a timer.
HiddenLater(card, resp) ==
  {Hidden(card, resp)} \cup
    IF card.visible THEN {[card EXCEPT !.timer = card.current]} ELSE {}

\* Mutant: the timer only forgets itself.
HideTimer_idle ==
  /\ apCard.timer # NoApproval
  /\ apCard' = [apCard EXCEPT !.timer = NoApproval]
  /\ UNCHANGED <<apServer, apPage, apPending, apDismissed, apAnswer, apCleared,
                 apPoll, apAsks, apLeft>>

\* The timer only hides the approval it was set for.
HideTimer ==
  /\ apCard.timer # NoApproval
  /\ apCard' = IF apCard.visible /\ apCard.current = apCard.timer
                 THEN Hidden(apCard, apResponding)
                 ELSE [apCard EXCEPT !.timer = NoApproval]
  /\ UNCHANGED <<apServer, apPage, apPending, apDismissed, apAnswer, apCleared,
                 apPoll, apAsks, apLeft>>

DismissApprovalCard ==
  /\ apLeft.acts > 0 /\ apCard.visible
  /\ apLeft' = [apLeft EXCEPT !.acts = @ - 1]
  /\ apDismissed' = apDismissed \cup {apCard.current}
  /\ apCard' = Hidden(apCard, apResponding)
  /\ apPending' = [apPending EXCEPT ![apCard.sid] = NoApproval]
  /\ UNCHANGED <<apServer, apPage, apAnswer, apCleared, apPoll, apAsks>>

---------------------------------------------------------------------------
(* The agent and its live stream *)

AgentAsks ==
  /\ apAsked < Len(ApScript)
  /\ apAsked' = apAsked + 1
  /\ LET a == ApScript[apAsked'] IN
     /\ ApSession[a] \in apRunning
     /\ apWaiting' = [apWaiting EXCEPT ![ApSession[a]] = Append(@, a)]
     /\ apEvents' = apEvents \cup {a}
  /\ UNCHANGED <<apRunning, apSending, apPage, apPending, apCard, apDismissed, apAnswer,
                 apCleared, apPoll, apAsks, apLeft>>

\* An event that is lost is one that is never delivered.
ApprovalEvent(a) ==
  /\ a \in apEvents
  /\ apEvents' = apEvents \ {a}
  /\ ShowApprovalCard(a, apView, apCard, apResponding)
  /\ UNCHANGED <<apWaiting, apAsked, apRunning, apSending, apPage, apDismissed,
                 apAnswer, apPoll, apAsks, apLeft>>

\* The turn ends, its approvals with it, and the stream's last event clears
\* the card (_clearApprovalForOwner) and stops the poll.
TurnEnds(s) ==
  /\ s \in apRunning
  /\ apRunning' = apRunning \ {s}
  /\ apWaiting' = [apWaiting EXCEPT ![s] = << >>]
  /\ apEvents' = {a \in apEvents : ApSession[a] # s}
  /\ apPending' = [apPending EXCEPT ![s] = NoApproval]
  /\ IF apCard.sid = s \/ (apCard.sid = NoApproval /\ apView = s)
       THEN apPoll' = NoPoll /\ apCard' = Hidden(apCard, apResponding)
       ELSE UNCHANGED <<apPoll, apCard>>
  /\ UNCHANGED <<apAsked, apSending, apPage, apDismissed, apAnswer, apCleared,
                 apAsks, apLeft>>

\* A session list that reports the shown session idle, unless a message is
\* being sent in it, hides the card.
ListReconciles ==
  /\ apSending.sid # apView /\ apCard.visible
  /\ apCard' = Hidden(apCard, apResponding)
  /\ UNCHANGED <<apServer, apPage, apPending, apDismissed, apAnswer, apCleared,
                 apPoll, apAsks, apLeft>>

---------------------------------------------------------------------------
(* The poll *)

StartApprovalPolling(s) ==
  /\ apPoll' = [sid |-> s, inFlight |-> TRUE]
  /\ apAsks' = apAsks \cup {Ask(s, 0, 0)}

\* Every 1.5 s.  A poll whose session left the screen stops itself.
PollTick ==
  /\ apPoll.sid # NoApproval
  /\ \/ /\ apPoll.sid # apView
        /\ apPoll' = NoPoll
        /\ apCard' = IF apCard.sid = apPoll.sid THEN Hidden(apCard, apResponding)
                                                ELSE apCard
        /\ UNCHANGED apAsks
     \/ /\ apPoll.sid = apView /\ ~apPoll.inFlight
        /\ StartApprovalPolling(apPoll.sid)
        /\ UNCHANGED apCard
  /\ UNCHANGED <<apServer, apPage, apPending, apDismissed, apAnswer, apCleared,
                 apLeft>>

\* The user sends a message in the session shown; its files are uploaded first.
SendBegins ==
  /\ apLeft.acts > 0 /\ apView \notin apRunning /\ apSending = ApNoSend
  /\ apLeft' = [apLeft EXCEPT !.acts = @ - 1]
  /\ apSending' = [sid |-> apView, polls |-> FALSE]
  /\ UNCHANGED <<apWaiting, apAsked, apRunning, apEvents, apPage, apPending, apCard,
                 apDismissed, apAnswer, apCleared, apPoll, apAsks>>

\* send() has the files of a message up: its session is polled, instead of the
\* one shown if the user has moved on, and in that case the first tick stops it.
SendPolls(s) ==
  /\ apSending = [sid |-> s, polls |-> FALSE]
  /\ apSending' = [apSending EXCEPT !.polls = TRUE]
  /\ IF s = apView
       THEN StartApprovalPolling(s) /\ UNCHANGED apCard
       ELSE /\ apPoll' = NoPoll /\ UNCHANGED apAsks
            /\ apCard' = IF apCard.sid = s THEN Hidden(apCard, apResponding) ELSE apCard
  /\ UNCHANGED <<apWaiting, apAsked, apRunning, apEvents, apPage, apPending,
                 apDismissed, apAnswer, apCleared, apLeft>>

\* POST /api/chat/start is accepted, or refused: whatever is polled by then is
\* polled no longer.
SendStarted ==
  /\ apSending.polls /\ apSending' = ApNoSend
  /\ \/ apRunning' = apRunning \cup {apSending.sid} /\ UNCHANGED <<apPoll, apCard>>
     \/ /\ apPoll' = NoPoll /\ UNCHANGED apRunning
        /\ apCard' = IF apCard.sid \in {NoApproval, apSending.sid}
                       THEN Hidden(apCard, apResponding) ELSE apCard
  /\ UNCHANGED <<apWaiting, apAsked, apEvents, apPage, apPending, apDismissed,
                 apAnswer, apCleared, apAsks, apLeft>>

\* GET /api/approval/pending: the oldest approval of the session, or a failure.
ServeAsk(r) ==
  /\ r \in apAsks /\ r.phase = "asked"
  /\ \/ /\ apAsks' = (apAsks \ {r}) \cup
             {[r EXCEPT !.phase = "answered",
                 !.found = IF apWaiting[r.sid] = << >> THEN NoApproval
                           ELSE Head(apWaiting[r.sid])]}
        /\ UNCHANGED apLeft
     \/ /\ apLeft.losses > 0
        /\ apLeft' = [apLeft EXCEPT !.losses = @ - 1]
        /\ apAsks' = (apAsks \ {r}) \cup {[r EXCEPT !.phase = "lost"]}
  /\ UNCHANGED <<apServer, apPage, apPending, apCard, apDismissed, apAnswer,
                 apCleared, apPoll>>

\* S.busy: it may be false although the turn runs, since the list clears it.
MayBeBusy(s) == s \in apRunning \cup {apSending.sid}

\* The answer of a poll.  Nothing asks whether this poll is still the one that
\* runs: the in-flight flag it resets may be another poll's.
TakePoll(r) ==
  /\ r \in apAsks /\ r.n = 0 /\ r.phase # "asked"
  /\ apAsks' = apAsks \ {r}
  /\ LET polling == [apPoll EXCEPT !.inFlight = FALSE] IN
     \/ /\ r.found # NoApproval
        /\ ShowApprovalCard(r.found, apView, apCard, apResponding)
        /\ apPoll' = polling
        /\ UNCHANGED apDismissed
     \/ /\ r.phase = "answered" /\ r.found = NoApproval /\ apView = r.sid
        /\ apPending' = [apPending EXCEPT ![r.sid] = NoApproval]
        /\ apDismissed' = apDismissed \ {apPending[r.sid]}
        /\ apCard' \in IF apCard.sid = r.sid THEN HiddenLater(apCard, apResponding)
                                             ELSE {apCard}
        /\ apPoll' \in IF apPoll.sid \notin {r.sid, NoApproval} THEN {polling}
                       ELSE {NoPoll} \cup IF MayBeBusy(r.sid) THEN {polling} ELSE {}
        /\ UNCHANGED apCleared
     \/ /\ r.phase = "lost" \/ (r.found = NoApproval /\ apView # r.sid)
        /\ apPoll' = polling
        /\ UNCHANGED <<apPending, apCard, apDismissed, apCleared>>
  /\ UNCHANGED <<apServer, apPage, apAnswer, apLeft>>

---------------------------------------------------------------------------
(* respondApproval *)

OwnerIsCurrent(id, gen) ==
  ApSession[id] = apView /\ apGen = gen /\ apCard.owner = id

Respond ==
  /\ apLeft.acts > 0
  /\ apCard.visible /\ ~apCard.disabled
  /\ apCard.sid = apView /\ apCard.owner = apCard.current
  /\ apResponding # [id |-> apCard.current, gen |-> apGen]
  /\ apResponding' = [id |-> apCard.current, gen |-> apGen]
  /\ apCleared' = 0
  /\ apDismissed' = apDismissed \ {apCard.current}
  /\ apCard' = [apCard EXCEPT !.disabled = TRUE]
  /\ apPosts' = apPosts \cup {[n |-> apLeft.acts, id |-> apCard.current,
                               gen |-> apGen, reply |-> "none"]}
  /\ apLeft' = [apLeft EXCEPT !.acts = @ - 1]
  /\ UNCHANGED <<apServer, apPage, apPending, apPoll, apAsks>>

\* The server takes the approval off its queue; one it does not have any more
\* is "stale".  A failed call may have been served.
ServePost(p) ==
  /\ p \in apPosts /\ p.reply = "none"
  /\ LET found  == Contains(apWaiting[ApSession[p.id]], p.id)
         served == [apWaiting EXCEPT ![ApSession[p.id]] = RemoveFirst(@, p.id)] IN
     \/ /\ apPosts' = (apPosts \ {p}) \cup
             {[p EXCEPT !.reply = IF found THEN "ok" ELSE "stale"]}
        /\ apWaiting' = served
        /\ UNCHANGED apLeft
     \/ /\ apLeft.losses > 0
        /\ apLeft' = [apLeft EXCEPT !.losses = @ - 1]
        /\ apPosts' = (apPosts \ {p}) \cup {[p EXCEPT !.reply = "error"]}
        /\ apWaiting' \in {apWaiting, served}
  /\ UNCHANGED <<apAsked, apRunning, apSending, apEvents, apPage, apPending, apCard,
                 apDismissed, apResponding, apCleared, apPoll, apAsks>>

\* _releaseApprovalResponseOwner
Released(p) == IF apResponding = [id |-> p.id, gen |-> p.gen] THEN NoAnswer
                                                              ELSE apResponding
Forgotten(p) == IF apCard.owner = p.id /\ ~apCard.visible
                  THEN [apCard EXCEPT !.owner = NoApproval] ELSE apCard

\* The page moved on while the answer was under way: only its own marks go.
TakeStrayReply(p) ==
  /\ p \in apPosts /\ p.reply # "none" /\ ~OwnerIsCurrent(p.id, p.gen)
  /\ apPosts' = apPosts \ {p}
  /\ apResponding' = Released(p) /\ apCard' = Forgotten(p)
  /\ UNCHANGED <<apServer, apPage, apPending, apDismissed, apCleared, apPoll,
                 apAsks, apLeft>>

TakeAccepted(p) ==
  /\ p \in apPosts /\ p.reply \in {"ok", "stale"} /\ OwnerIsCurrent(p.id, p.gen)
  /\ apPosts' = apPosts \ {p}
  /\ apResponding' = Released(p)
  /\ apPending' = IF apPending[apView] = p.id
                    THEN [apPending EXCEPT ![apView] = NoApproval] ELSE apPending
  /\ apCard' = [Hidden(apCard, NoAnswer) EXCEPT !.current = NoApproval]
  /\ apCleared' = p.n
  /\ apAsks' = IF p.reply = "ok" THEN apAsks
               ELSE apAsks \cup {Ask(apView, p.n, apGen)}
  /\ UNCHANGED <<apServer, apPage, apDismissed, apPoll, apLeft>>

\* _restoreFailedApprovalResponse: the controls come back, and the approval
\* remembered for the session is shown again.
TakeRefused(p) ==
  /\ p \in apPosts /\ p.reply = "error" /\ OwnerIsCurrent(p.id, p.gen)
  /\ apPosts' = apPosts \ {p}
  /\ apResponding' = Released(p)
  /\ LET freed == [Forgotten(p) EXCEPT !.disabled = FALSE]
         card  == IF freed.sid \in {NoApproval, apView} THEN freed
                  ELSE Hidden(freed, Released(p))
         again == apPending[apView] IN
     IF again = NoApproval
       THEN apCard' = card /\ UNCHANGED <<apPending, apCleared>>
       ELSE ShowApprovalCard(again, apView, card, Released(p))
  /\ UNCHANGED <<apServer, apPage, apDismissed, apPoll, apAsks, apLeft>>

\* The refetch after a stale answer (_approvalClearedOwnerMayRefresh).
TakeRefetch(r) ==
  /\ r \in apAsks /\ r.n # 0 /\ r.phase # "asked"
  /\ apAsks' = apAsks \ {r}
  /\ LET may == apCleared = r.n /\ apView = r.sid /\ apGen = r.gen
                  /\ apCard.sid = NoApproval /\ apCard.current = NoApproval IN
     \/ /\ may /\ r.phase = "answered" /\ r.found # NoApproval
        /\ apPending' = [apPending EXCEPT ![r.sid] = r.found]
        /\ apCard' = IF Shows(r.found, apView)
                       THEN Shown(r.found, apCard, apResponding) ELSE apCard
        /\ apCleared' = 0
     \/ /\ ~may \/ r.found = NoApproval
        /\ apCleared' = IF apCleared = r.n /\ (may \/ r.phase = "lost")
                          THEN 0 ELSE apCleared
        /\ UNCHANGED <<apPending, apCard>>
  /\ UNCHANGED <<apServer, apPage, apDismissed, apAnswer, apPoll, apLeft>>

---------------------------------------------------------------------------
(* loadSession *)

LoadSession(s) ==
  /\ apLeft.acts > 0
  /\ apLeft' = [apLeft EXCEPT !.acts = @ - 1]
  /\ apGen' = apGen + 1
  /\ apLoading' = [sid |-> s, phase |-> "asked"]
  /\ apPoll' = NoPoll
  /\ apCard' \in IF s = apView THEN {Hidden(apCard, apResponding)}
                               ELSE HiddenLater(apCard, apResponding)
  /\ UNCHANGED <<apServer, apView, apPending, apDismissed, apAnswer, apCleared,
                 apAsks>>

\* The metadata arrived: S.session is the new session.
LoadMetadata ==
  /\ apLoading.phase = "asked"
  /\ apView' = apLoading.sid
  /\ apLoading' = [apLoading EXCEPT !.phase = "shown"]
  /\ UNCHANGED <<apServer, apGen, apPending, apCard, apDismissed, apAnswer,
                 apCleared, apPoll, apAsks, apLeft>>

\* Mutant: the card of the session that was left is not hidden.
LoadDone_keepsCard ==
  /\ apLoading.phase = "shown"
  /\ apLoading' = [sid |-> NoApproval, phase |-> "none"]
  /\ StartApprovalPolling(apView)
  /\ UNCHANGED <<apServer, apView, apGen, apPending, apCard, apDismissed, apAnswer,
                 apCleared, apLeft>>

\* The messages arrived: the poll starts and the session's own card is shown.
LoadDone ==
  /\ apLoading.phase = "shown"
  /\ apLoading' = [sid |-> NoApproval, phase |-> "none"]
  /\ StartApprovalPolling(apView)
  /\ LET card == IF apCard.sid \in {NoApproval, apView} THEN apCard
                 ELSE Hidden(apCard, apResponding) IN
     IF apPending[apView] = NoApproval
       THEN apCard' = card /\ UNCHANGED <<apPending, apCleared>>
       ELSE ShowApprovalCard(apPending[apView], apView, card, apResponding)
  /\ UNCHANGED <<apServer, apView, apGen, apDismissed, apAnswer, apLeft>>

---------------------------------------------------------------------------
ServeAsks(s)  == \E r \in apAsks : r.sid = s /\ ServeAsk(r)
TakeAsks(s)   == \E r \in apAsks : r.sid = s /\ (TakePoll(r) \/ TakeRefetch(r))
ServePosts    == \E p \in apPosts : ServePost(p)
TakeReplies   == \E p \in apPosts :
                   TakeStrayReply(p) \/ TakeAccepted(p) \/ TakeRefused(p)
LoadStep      == LoadMetadata \/ LoadDone

ApNext ==
  \/ HideTimer \/ DismissApprovalCard \/ PollTick \/ Respond
  \/ AgentAsks \/ \E a \in ApApprovals : ApprovalEvent(a)
  \/ SendBegins \/ SendStarted \/ ListReconciles
  \/ \E s \in ApSessions : TurnEnds(s) \/ LoadSession(s) \/ SendPolls(s)
  \/ \E s \in ApSessions : ServeAsks(s) \/ TakeAsks(s)
  \/ ServePosts \/ TakeReplies \/ LoadStep

\* Timers fire, and every request is answered or fails and is then handled,
\* whatever else goes on.
ApFairness ==
  /\ WF_apVars(HideTimer) /\ WF_apVars(PollTick) /\ WF_apVars(LoadStep)
  /\ WF_apVars(ServePosts) /\ WF_apVars(TakeReplies)
  /\ \A s \in ApSessions : WF_apVars(ServeAsks(s)) /\ WF_apVars(TakeAsks(s))

ApSpec == ApInit /\ [][ApNext]_apVars /\ ApFairness

---------------------------------------------------------------------------
(* Properties *)

\* A card of another session than the one shown is only on the screen while
\* loadSession is under way, and it names the approval its buttons answer
\* (messages.js 7471-7477, 7615-7640).
CardOfView ==
  apCard.visible =>
    /\ apCard.sid # apView => apLoading.phase # "none"
    /\ apCard.owner = apCard.current /\ apCard.sid = ApSession[apCard.current]

\* A late answer to one approval never hides or replaces the card of another
\* (messages.js 7777-7806).
AnswerKeepsNewerCard ==
  [][\A p \in apPosts :
       /\ \A q \in apPosts' : q.n # p.n
       /\ apCard.visible /\ apCard.current # p.id
       => apCard'.visible /\ apCard'.current = apCard.current]_apVars

\* Buttons disabled for an answer in flight do not stay disabled on a visible
\* card, whatever becomes of the answer (messages.js 7732-7740, 7650-7654).
ButtonsComeBack ==
  []<>~(apCard.visible /\ apCard.disabled)

\* While the session on the screen is polled, an approval its agent waits for
\* gets a card, unless the user dismissed it or leaves (messages.js 7860-7888).
PendingIsShown ==
  []<>(\/ apPoll.sid # apView \/ apWaiting[apView] = << >>
       \/ apCard.visible /\ apCard.sid = apView
       \/ Head(apWaiting[apView]) \in apDismissed)

\* A card whose approval is no longer waited for goes away while its session
\* is polled.  The poll only sees the oldest approval: behind a dismissed one
\* such a card stays.
DeadCardGoes ==
  []<>(\/ ~apCard.visible \/ apPoll.sid # apCard.sid
       \/ Contains(apWaiting[apCard.sid], apCard.current)
       \/ Contains(apWaiting[apView], apPending[apView])
          /\ apPending[apView] \in apDismissed)
=============================================================================
