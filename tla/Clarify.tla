------------------------------ MODULE Clarify ------------------------------
(***************************************************************************)
(* The clarification card of the page (static/messages.js 8411-9059): a    *)
(* question of the agent, the answer being typed or in flight, the poll of *)
(* /api/clarify/pending, and the drafts rescued into the composer.  A      *)
(* draft is known by the question it was typed for.                        *)
(***************************************************************************)
EXTENDS Naturals, Sequences, SequencesExt

CONSTANTS
  ClSessions,     \* sessions
  ClQuestions,    \* questions agents ask
  ClScript,       \* the same, in the order they are asked
  ClSession,      \* [ClQuestions -> ClSessions]
  ClFirst,        \* the session shown first
  ClActs,         \* bound: drafts, answers and sessions opened
  ClLosses        \* bound: requests that fail

NoQuestion == "none"

ASSUME ClAssumption ==
  /\ ClSession \in [ClQuestions -> ClSessions] /\ ClFirst \in ClSessions
  /\ ClScript \in Seq(ClQuestions)
  /\ {ClActs, ClLosses} \subseteq Nat
  /\ NoQuestion \notin ClQuestions \cup ClSessions

VARIABLES
  clWaiting,   \* the server's queue of unanswered questions, by session
  clAsked,     \* how many of the script have been asked
  clRunning,   \* sessions whose turn is running
  clSending,   \* the session send() is starting a turn in
  clEvents,    \* clarify events of live streams, in transit
  clView,      \* S.session.session_id
  clLoading,   \* the session loadSession is loading, how far, and whether the
               \* metadata told a running turn
  clPending,   \* _clarifyPendingBySession
  clCard,      \* the card: visible, _clarifySessionId, _clarifyId, controls
               \* disabled, the question the draft in #clarifyInput is for, timer
  clComposer,  \* drafts rescued into the composer
  clPosts,     \* answers in flight
  clPoll,      \* _clarifyPollingSessionId and _clarifyFallbackPollInFlight
  clAsks,      \* polls in flight
  clLeft       \* acts of the user and failures still allowed

clVars == <<clWaiting, clAsked, clRunning, clSending, clEvents, clView, clLoading, clPending, clCard,
            clComposer, clPosts, clPoll, clAsks, clLeft>>
clServer == <<clWaiting, clAsked, clRunning, clSending, clEvents>>
clPage   == <<clView, clLoading>>

Question == ClQuestions \cup {NoQuestion}
ClSid    == ClSessions \cup {NoQuestion}
ClNoCard == [visible |-> FALSE, sid |-> NoQuestion, current |-> NoQuestion,
             disabled |-> FALSE, draft |-> NoQuestion, timer |-> NoQuestion]
ClNoLoad == [sid |-> NoQuestion, phase |-> "none", live |-> FALSE]
ClNoSend == [sid |-> NoQuestion, polls |-> FALSE]
ClNoPoll == [sid |-> NoQuestion, inFlight |-> FALSE]

ClTypeOK ==
  /\ clWaiting \in [ClSessions -> Seq(ClQuestions)]
  /\ clAsked \in 0 .. Len(ClScript) /\ clEvents \subseteq ClQuestions
  /\ clRunning \subseteq ClSessions /\ clSending \in [sid: ClSid, polls: BOOLEAN]
  /\ clView \in ClSessions
  /\ clLoading \in [sid: ClSid, phase: {"none", "asked", "shown"}, live: BOOLEAN]
  /\ clPending \in [ClSessions -> Question]
  /\ clCard \in [visible: BOOLEAN, sid: ClSid, current: Question,
                 disabled: BOOLEAN, draft: Question, timer: Question]
  /\ clComposer \subseteq ClQuestions
  /\ \A p \in clPosts : p \in [n: Nat, id: ClQuestions, sid: ClSessions,
                     reply: {"none", "ok", "expired", "error"}]
  /\ clPoll \in [sid: ClSid, inFlight: BOOLEAN]
  /\ \A r \in clAsks : r \in [sid: ClSessions, found: Question,
                     phase: {"asked", "answered", "gone", "lost"}]
  /\ clLeft \in [acts: Nat, losses: Nat]

ClInit ==
  /\ clWaiting = [s \in ClSessions |-> << >>]
  /\ clAsked = 0 /\ clEvents = {}
  /\ clRunning = {ClSession[q] : q \in ClQuestions} /\ clSending = ClNoSend
  /\ clView = ClFirst
  /\ clLoading = ClNoLoad
  /\ clPending = [s \in ClSessions |-> NoQuestion]
  /\ clCard = ClNoCard /\ clComposer = {} /\ clPosts = {}
  /\ clPoll = [sid |-> ClFirst, inFlight |-> FALSE] /\ clAsks = {}
  /\ clLeft = [acts |-> ClActs, losses |-> ClLosses]

---------------------------------------------------------------------------
(* The card *)

\* showClarifyCard: shown for the session on the screen only.  Another
\* question clears what was typed; the same one gets its controls back, even
\* while its answer is in flight.
QuestionOn(card, q) == card.visible /\ card.current = q
\* Mutant: the controls of a question shown again are locked.
ShowClarifyCard_locksSame(q, view, card) ==
  /\ clPending' = [clPending EXCEPT ![ClSession[q]] = q]
  /\ clCard' = IF ClSession[q] # view THEN card
               ELSE [ClNoCard EXCEPT !.visible = TRUE, !.sid = view, !.current = q,
                                     !.disabled = QuestionOn(card, q)]

ShowClarifyCard(q, view, card) ==
  /\ clPending' = [clPending EXCEPT ![ClSession[q]] = q]
  /\ clCard' = IF ClSession[q] # view THEN card
               ELSE [visible |-> TRUE, sid |-> view, current |-> q,
                     disabled |-> FALSE,
                     draft |-> IF QuestionOn(card, q) THEN card.draft ELSE NoQuestion,
                     timer |-> IF QuestionOn(card, q) THEN card.timer ELSE NoQuestion]

\* hideClarifyCard when it really hides; "expired" and "terminal" rescue the
\* draft, unless its answer is in flight.
Rescued(card, reason) ==
  IF reason \in {"expired", "terminal"} /\ ~card.disabled
    THEN {card.draft} \ {NoQuestion} ELSE {}
HideClarifyCard(card, reason) ==
  /\ clCard' = ClNoCard
  /\ clComposer' = clComposer \cup Rescued(card, reason)

\* A hide that is neither forced nor "expired" waits until the card has been
\* visible for 30 s.
HideTimerSet == clCard' = [clCard EXCEPT !.timer = clCard.current]

ClHideTimer ==
  /\ clCard.timer # NoQuestion
  /\ HideClarifyCard(clCard, "dismissed")
  /\ UNCHANGED <<clServer, clPage, clPending, clPosts, clPoll, clAsks, clLeft>>

TypeDraft ==
  /\ clLeft.acts > 0 /\ clCard.visible /\ ~clCard.disabled
  /\ clCard.draft = NoQuestion
  /\ clCard' = [clCard EXCEPT !.draft = clCard.current]
  /\ clLeft' = [clLeft EXCEPT !.acts = @ - 1]
  /\ UNCHANGED <<clServer, clPage, clPending, clComposer, clPosts, clPoll, clAsks>>

---------------------------------------------------------------------------
(* The agent *)

AgentAsksQuestion ==
  /\ clAsked < Len(ClScript)
  /\ clAsked' = clAsked + 1
  /\ LET q == ClScript[clAsked'] IN
     /\ ClSession[q] \in clRunning
     /\ clWaiting' = [clWaiting EXCEPT ![ClSession[q]] = Append(@, q)]
     /\ clEvents' = clEvents \cup {q}
  /\ UNCHANGED <<clRunning, clSending, clPage, clPending, clCard, clComposer,
                 clPosts, clPoll, clAsks, clLeft>>

\* An event that is lost is one that is never delivered.
ClarifyEvent(q) ==
  /\ q \in clEvents
  /\ clEvents' = clEvents \ {q}
  /\ ShowClarifyCard(q, clView, clCard)
  /\ UNCHANGED <<clWaiting, clAsked, clRunning, clSending, clPage, clComposer,
                 clPosts, clPoll, clAsks, clLeft>>

\* The agent stops waiting for the oldest question.
QuestionTimesOut(s) ==
  /\ clWaiting[s] # << >>
  /\ clWaiting' = [clWaiting EXCEPT ![s] = Tail(@)]
  /\ UNCHANGED <<clAsked, clRunning, clSending, clEvents, clPage, clPending, clCard,
                 clComposer, clPosts, clPoll, clAsks, clLeft>>

\* The turn ends, its questions with it; the stream's last event closes the
\* card (_clearClarifyForOwner) and stops the poll.
ClTurnEnds(s) ==
  /\ s \in clRunning /\ clRunning' = clRunning \ {s}
  /\ clWaiting' = [clWaiting EXCEPT ![s] = << >>]
  /\ clEvents' = {q \in clEvents : ClSession[q] # s}
  /\ clPending' = [clPending EXCEPT ![s] = NoQuestion]
  /\ IF clCard.sid = s \/ (clCard.sid = NoQuestion /\ clView = s)
       THEN clPoll' = ClNoPoll /\ HideClarifyCard(clCard, "terminal")
       ELSE UNCHANGED <<clPoll, clCard, clComposer>>
  /\ UNCHANGED <<clAsked, clSending, clPage, clPosts, clAsks, clLeft>>

---------------------------------------------------------------------------
(* The poll *)

StartClarifyPolling(s) ==
  /\ clPoll' = [sid |-> s, inFlight |-> TRUE]
  /\ clAsks' = clAsks \cup {[sid |-> s, phase |-> "asked", found |-> NoQuestion]}

\* Every 3 s.
ClPollTick ==
  /\ clPoll.sid # NoQuestion
  /\ \/ /\ clPoll.sid # clView
        /\ clPoll' = ClNoPoll
        /\ IF clCard.sid = clPoll.sid THEN HideClarifyCard(clCard, "session")
           ELSE UNCHANGED <<clCard, clComposer>>
        /\ UNCHANGED clAsks
     \/ /\ clPoll.sid = clView /\ ~clPoll.inFlight
        /\ StartClarifyPolling(clPoll.sid)
        /\ UNCHANGED <<clCard, clComposer>>
  /\ UNCHANGED <<clServer, clPage, clPending, clPosts, clLeft>>

\* The user sends a message in the session shown; its files are uploaded first.
ClSendBegins ==
  /\ clLeft.acts > 0 /\ clView \notin clRunning /\ clSending = ClNoSend
  /\ clLeft' = [clLeft EXCEPT !.acts = @ - 1]
  /\ clSending' = [sid |-> clView, polls |-> FALSE]
  /\ UNCHANGED <<clWaiting, clAsked, clRunning, clEvents, clPage, clPending, clCard,
                 clComposer, clPosts, clPoll, clAsks>>

\* send() has the files of a message up: its session is polled, instead of the
\* one shown if the user has moved on, and in that case the first tick stops it.
ClSendPolls(s) ==
  /\ clSending = [sid |-> s, polls |-> FALSE]
  /\ clSending' = [clSending EXCEPT !.polls = TRUE]
  /\ IF s = clView
       THEN StartClarifyPolling(s) /\ UNCHANGED <<clCard, clComposer>>
       ELSE /\ clPoll' = ClNoPoll /\ UNCHANGED clAsks
            /\ IF clCard.sid = s THEN HideClarifyCard(clCard, "session")
                                 ELSE UNCHANGED <<clCard, clComposer>>
  /\ UNCHANGED <<clWaiting, clAsked, clRunning, clEvents, clPage, clPending, clPosts,
                 clLeft>>

\* POST /api/chat/start is accepted, or refused: whatever is polled by then is
\* polled no longer.
ClSendStarted ==
  /\ clSending.polls /\ clSending' = ClNoSend
  /\ \/ clRunning' = clRunning \cup {clSending.sid} /\ UNCHANGED <<clPoll, clCard, clComposer>>
     \/ /\ clPoll' = ClNoPoll /\ UNCHANGED clRunning
        /\ IF clCard.sid \in {NoQuestion, clSending.sid}
             THEN HideClarifyCard(clCard, "terminal")
             ELSE UNCHANGED <<clCard, clComposer>>
  /\ UNCHANGED <<clWaiting, clAsked, clEvents, clPage, clPending, clPosts, clAsks, clLeft>>

\* The oldest question, no such session (it was deleted, or the profile was
\* switched: 404), or a failure.
ServeClarifyAsk(r) ==
  /\ r \in clAsks /\ r.phase = "asked"
  /\ \/ /\ clAsks' = (clAsks \ {r}) \cup
             {[r EXCEPT !.phase = "answered",
                 !.found = IF clWaiting[r.sid] = << >> THEN NoQuestion
                           ELSE Head(clWaiting[r.sid])]}
        /\ UNCHANGED clLeft
     \/ /\ clLeft.losses > 0
        /\ clLeft' = [clLeft EXCEPT !.losses = @ - 1]
        /\ \E phase \in {"lost"} \cup (IF clView = r.sid THEN {} ELSE {"gone"}) :
             clAsks' = (clAsks \ {r}) \cup {[r EXCEPT !.phase = phase]}
  /\ UNCHANGED <<clServer, clPage, clPending, clCard, clComposer, clPosts, clPoll>>

\* Mutant: the in-flight flag is never reset.
ClPolled_stuckFlag == clPoll

ClPolled == [clPoll EXCEPT !.inFlight = FALSE]
Dropped(s) == clPending' = [clPending EXCEPT ![s] = NoQuestion]

\* An answer that may be older than the card it hides, and a 404 that stops
\* whatever poll is running by now.
TakeClarifyAsk(r) ==
  /\ r \in clAsks /\ r.phase # "asked"
  /\ clAsks' = clAsks \ {r}
  /\ \/ /\ r.found # NoQuestion
        /\ ShowClarifyCard(r.found, clView, clCard)
        /\ clPoll' = ClPolled
        /\ UNCHANGED clComposer
     \/ /\ r.phase = "answered" /\ r.found = NoQuestion
        /\ Dropped(r.sid)
        /\ clPoll' = ClPolled
        /\ IF clCard.sid = r.sid THEN HideClarifyCard(clCard, "expired")
           ELSE UNCHANGED <<clCard, clComposer>>
     \/ /\ r.phase = "gone"
        /\ Dropped(r.sid)
        /\ clPoll' = ClNoPoll
        /\ IF clCard.sid = r.sid THEN HideClarifyCard(clCard, "session")
           ELSE UNCHANGED <<clCard, clComposer>>
     \/ /\ r.phase = "lost"
        /\ clPoll' = ClPolled
        /\ UNCHANGED <<clPending, clCard, clComposer>>
  /\ UNCHANGED <<clServer, clPage, clPosts, clLeft>>

---------------------------------------------------------------------------
(* respondClarify: the draft, or one of the choices, is the answer *)

RespondClarify ==
  /\ clLeft.acts > 0 /\ clCard.visible /\ ~clCard.disabled
  /\ clCard' = [clCard EXCEPT !.disabled = TRUE]
  /\ clPosts' = clPosts \cup {[n |-> clLeft.acts, id |-> clCard.current,
                               sid |-> clCard.sid, reply |-> "none"]}
  /\ clLeft' = [clLeft EXCEPT !.acts = @ - 1]
  /\ UNCHANGED <<clServer, clPage, clPending, clComposer, clPoll, clAsks>>

ServeClarifyPost(p) ==
  /\ p \in clPosts /\ p.reply = "none"
  /\ LET served == [clWaiting EXCEPT ![p.sid] = RemoveFirst(@, p.id)]
         found  == Contains(clWaiting[p.sid], p.id) IN
     \/ /\ clPosts' = (clPosts \ {p}) \cup
             {[p EXCEPT !.reply = IF found THEN "ok" ELSE "expired"]}
        /\ clWaiting' = served
        /\ UNCHANGED clLeft
     \/ /\ clLeft.losses > 0
        /\ clLeft' = [clLeft EXCEPT !.losses = @ - 1]
        /\ clPosts' = (clPosts \ {p}) \cup {[p EXCEPT !.reply = "error"]}
        /\ clWaiting' \in {clWaiting, served}
  /\ UNCHANGED <<clAsked, clRunning, clSending, clEvents, clPage, clPending, clCard,
                 clComposer, clPoll, clAsks>>

\* Mutant: the reply closes the card, whichever question it shows by now.
TakeClarifyReply_anyCard(p) ==
  /\ p \in clPosts /\ p.reply \in {"ok", "expired"} /\ clPosts' = clPosts \ {p}
  /\ Dropped(p.sid) /\ HideClarifyCard(clCard, "sent")
  /\ UNCHANGED <<clServer, clPage, clPoll, clAsks, clLeft>>

\* Accepted, or refused for good (409): only the card of this very question
\* is closed.
TakeClarifyReply(p) ==
  /\ p \in clPosts /\ p.reply \in {"ok", "expired"}
  /\ clPosts' = clPosts \ {p}
  /\ IF clCard.current = p.id
       THEN /\ Dropped(p.sid)
            /\ LET card == [clCard EXCEPT !.disabled = p.reply = "ok"] IN
               HideClarifyCard(card, IF p.reply = "ok" THEN "sent" ELSE "expired")
       ELSE /\ clCard' = IF p.reply = "ok" THEN clCard
                         ELSE [clCard EXCEPT !.disabled = FALSE]
            /\ UNCHANGED <<clPending, clComposer>>
  /\ UNCHANGED <<clServer, clPage, clPoll, clAsks, clLeft>>

\* A failed call puts the draft back into the input, whichever question it
\* belongs to by now.
TakeClarifyError(p) ==
  /\ p \in clPosts /\ p.reply = "error"
  /\ clPosts' = clPosts \ {p}
  /\ clCard' = [clCard EXCEPT !.disabled = FALSE,
                              !.draft = IF clCard.visible THEN p.id ELSE @]
  /\ UNCHANGED <<clServer, clPage, clPending, clComposer, clPoll, clAsks, clLeft>>

---------------------------------------------------------------------------
(* loadSession *)

ClLoadSession(s) ==
  /\ clLeft.acts > 0
  /\ clLeft' = [clLeft EXCEPT !.acts = @ - 1]
  /\ clLoading' = [ClNoLoad EXCEPT !.sid = s, !.phase = "asked"]
  /\ clPoll' = ClNoPoll
  /\ \/ HideClarifyCard(clCard, "dismissed")
     \/ /\ s # clView /\ clCard.visible
        /\ HideTimerSet
        /\ UNCHANGED clComposer
  /\ UNCHANGED <<clServer, clView, clPending, clPosts, clAsks>>

ClLoadMetadata ==
  /\ clLoading.phase = "asked"
  /\ clView' = clLoading.sid
  /\ clLoading' = [clLoading EXCEPT !.phase = "shown",
                                   !.live = clLoading.sid \in clRunning]
  /\ UNCHANGED <<clServer, clPending, clCard, clComposer, clPosts, clPoll,
                 clAsks, clLeft>>

\* The messages arrived: a turn that ran when the metadata came is polled, and
\* the session's own question is shown.
ClLoadDone ==
  /\ clLoading.phase = "shown"
  /\ clLoading' = ClNoLoad
  /\ IF clLoading.live THEN StartClarifyPolling(clView) ELSE UNCHANGED <<clPoll, clAsks>>
  /\ LET card == IF clCard.sid \in {NoQuestion, clView} THEN clCard ELSE ClNoCard IN
     IF clPending[clView] = NoQuestion
       THEN clCard' = card /\ UNCHANGED clPending
       ELSE ShowClarifyCard(clPending[clView], clView, card)
  /\ UNCHANGED <<clServer, clView, clComposer, clPosts, clLeft>>

---------------------------------------------------------------------------
ServeClarifyAsks(s) == \E r \in clAsks : r.sid = s /\ ServeClarifyAsk(r)
TakeClarifyAsks(s)  == \E r \in clAsks : r.sid = s /\ TakeClarifyAsk(r)
ServeClarifyPosts   == \E p \in clPosts : ServeClarifyPost(p)
TakeClarifyReplies  == \E p \in clPosts : TakeClarifyReply(p) \/ TakeClarifyError(p)
ClLoadStep          == ClLoadMetadata \/ ClLoadDone

ClNext ==
  \/ ClHideTimer \/ TypeDraft \/ ClPollTick \/ RespondClarify
  \/ AgentAsksQuestion \/ \E q \in ClQuestions : ClarifyEvent(q)
  \/ ClSendBegins \/ ClSendStarted
  \/ \E s \in ClSessions : QuestionTimesOut(s) \/ ClTurnEnds(s)
  \/ \E s \in ClSessions : ClLoadSession(s) \/ ClSendPolls(s)
  \/ \E s \in ClSessions : ServeClarifyAsks(s) \/ TakeClarifyAsks(s)
  \/ ServeClarifyPosts \/ TakeClarifyReplies \/ ClLoadStep

\* Timers fire, and every request is answered or fails and is then handled.
ClFairness ==
  /\ WF_clVars(ClHideTimer) /\ WF_clVars(ClPollTick) /\ WF_clVars(ClLoadStep)
  /\ WF_clVars(ServeClarifyPosts) /\ WF_clVars(TakeClarifyReplies)
  /\ \A s \in ClSessions :
       WF_clVars(ServeClarifyAsks(s)) /\ WF_clVars(TakeClarifyAsks(s))

ClSpec == ClInit /\ [][ClNext]_clVars /\ ClFairness

---------------------------------------------------------------------------
(* Properties *)

\* A question of another session than the one shown is only on the screen
\* while loadSession is under way (messages.js 8452-8458).
QuestionOfView ==
  clCard.visible =>
    /\ clCard.sid # clView => clLoading.phase # "none"
    /\ clCard.sid = ClSession[clCard.current]

\* A late answer, accepted, refused or lost, never closes or replaces the card
\* of another question (messages.js 8856-8863, 8885-8926).
AnswerKeepsNewerQuestion ==
  [][\A p \in clPosts :
       /\ \A q \in clPosts' : q.n # p.n
       /\ clCard.visible /\ clCard.current # p.id
       => clCard'.visible /\ clCard'.current = clCard.current]_clVars

\* A question the agent waits for is on the screen while its session is
\* polled: an older answer may hide it, the next poll shows it again
\* (messages.js 8974-8984).
QuestionIsShown ==
  []<>(\/ clPoll.sid # clView \/ clWaiting[clView] = << >>
       \/ clCard.visible /\ clCard.sid = clView)

\* The controls of a visible card do not stay disabled (messages.js 8867-8936).
ControlsComeBack == []<>~(clCard.visible /\ clCard.disabled)

\* As messages.js 8921-8922 puts it, the next prompt has its own input cycle:
\* what is in the input was typed for the question above it.
DraftBelongsToQuestion == clCard.visible => clCard.draft \in {NoQuestion, clCard.current}

\* As messages.js 8997-8999 puts it, a 404 of a stale poll stops that poll: it
\* does not stop the poll of the session that is polled by now.
StalePollStopsItself ==
  [][\A r \in clAsks \ clAsks' :
       r.phase = "gone" /\ clView' = clView => r.sid = clPoll.sid
         \/ clPoll'.sid = clPoll.sid]_clVars
=============================================================================
