-------------------------- MODULE PagePromptsProofs --------------------------
(***************************************************************************)
(* Proofs about the approval card and the clarification card, for any      *)
(* sessions, prompts, script, acts of the user and failures: the types,    *)
(* that a card belongs to the session on the screen, and that a late       *)
(* answer leaves a newer card alone.                                       *)
(***************************************************************************)
EXTENDS MCPagePrompts, SequenceTheorems, WellFoundedInduction, TLAPS

(* The sets the variables of Approvals range over. *)
ApCards   == [visible: BOOLEAN, sid: ApSid, current: Approval,
              owner: Approval, disabled: BOOLEAN, timer: Approval]
ApAnswers == [id: Approval, gen: Nat]
ApReplies == [n: Nat, id: ApApprovals, gen: Nat, reply: {"none", "ok", "stale", "error"}]
ApPolls   == [sid: ApSid, inFlight: BOOLEAN]
ApFetches == [sid: ApSessions, n: Nat, gen: Nat,
              phase: {"asked", "answered", "lost"}, found: Approval]
ApBudget  == [acts: Nat, losses: Nat]

(* A card on the screen shows an approval, and is of the session shown. *)
ApCardInv ==
  ApTypeOK /\ CardOfView /\ (apCard.visible => apCard.current \in ApApprovals)

(* A message that is polled for has a session, which its turn will run in,  *)
(* and a load under way has one, which will be shown.                       *)
ApInv ==
  /\ ApCardInv
  /\ apSending.polls => apSending.sid \in ApSessions
  /\ apLoading.phase # "none" => apLoading.sid \in ApSessions

-----------------------------------------------------------------------------
(* Queues *)

LEMMA LeastPosition ==
  ASSUME NEW I, I \subseteq Nat, I # {}
  PROVE  Min(I) \in I
<1>1. PICK x \in I : \A y \in I : ~(<<y, x>> \in OpToRel(<, Nat))
  BY NatLessThanWellFounded, WFMin, Zenon
<1>2. \A y \in I : ~(y < x)
  BY <1>1 DEF OpToRel
<1>3. \A y \in I : x <= y
  BY <1>2
<1> QED
  BY <1>3 DEF Min

(* A prompt taken off a queue leaves a queue. *)
LEMMA RemoveFirstType ==
  ASSUME NEW S, NEW q \in Seq(S), NEW e
  PROVE  RemoveFirst(q, e) \in Seq(S)
<1>1. CASE \E i \in 1 .. Len(q) : q[i] = e
  <2> DEFINE I == {i \in 1 .. Len(q) : q[i] = e}
  <2>1. RemoveFirst(q, e) = RemoveAt(q, Min(I))
    BY <1>1 DEF RemoveFirst, SelectInSeq
  <2>2. I \subseteq Nat /\ I # {} /\ I \subseteq 1 .. Len(q)
    BY <1>1
  <2>3. PICK m \in 1 .. Len(q) : m = Min(I)
    <3> HIDE DEF I
    <3> QED
      BY <2>2, LeastPosition
  <2>4. SubSeq(q, 1, m - 1) \in Seq(S) /\ SubSeq(q, m + 1, Len(q)) \in Seq(S)
    BY SubSeqProperties
  <2> QED
    BY <2>1, <2>3, <2>4, ConcatProperties DEF RemoveAt
<1>2. CASE ~\E i \in 1 .. Len(q) : q[i] = e
  BY <1>2 DEF RemoveFirst
<1> QED
  BY <1>1, <1>2

LEMMA HeadType ==
  ASSUME NEW S, NEW q \in Seq(S), q # << >>
  PROVE  Head(q) \in S
OBVIOUS

-----------------------------------------------------------------------------
(* The approval card *)

LEMMA HiddenCard ==
  ASSUME NEW card \in ApCards, NEW resp \in ApAnswers
  PROVE  /\ Hidden(card, resp) \in ApCards
         /\ ~Hidden(card, resp).visible
         /\ Hidden(card, resp).current = card.current
<1> DEFINE h1 == [card EXCEPT !.visible = FALSE]
           h2 == [h1 EXCEPT !.sid = NoApproval]
           h3 == [h2 EXCEPT !.timer = NoApproval]
           own == IF h3.owner = resp.id THEN h3.owner ELSE NoApproval
<1>1. h1 \in ApCards /\ ~h1.visible /\ h1.current = card.current
  BY DEF ApCards
<1>2. h2 \in ApCards /\ ~h2.visible /\ h2.current = card.current
  BY <1>1 DEF ApCards, ApSid
<1>3. h3 \in ApCards /\ ~h3.visible /\ h3.current = card.current
  BY <1>2 DEF ApCards, Approval
<1>4. own \in Approval
  BY <1>3 DEF ApCards, Approval
<1>5. Hidden(card, resp) = [h3 EXCEPT !.owner = own]
  BY DEF Hidden
<1> HIDE DEF h1, h2, h3, own
<1> QED
  BY <1>3, <1>4, <1>5 DEF ApCards

LEMMA LaterCard ==
  ASSUME NEW card \in ApCards, NEW resp \in ApAnswers, NEW new \in HiddenLater(card, resp)
  PROVE  /\ new \in ApCards
         /\ new = Hidden(card, resp) \/ new = [card EXCEPT !.timer = card.current]
<1>1. [card EXCEPT !.timer = card.current] \in ApCards
  BY DEF ApCards
<1> QED
  BY <1>1, HiddenCard DEF HiddenLater

LEMMA ShownCard ==
  ASSUME ApTypeOK, NEW card \in ApCards, NEW resp, NEW a \in ApApprovals
  PROVE  /\ Shown(a, card, resp) \in ApCards
         /\ Shown(a, card, resp).visible
         /\ Shown(a, card, resp).current = a
         /\ Shown(a, card, resp).owner = a
         /\ Shown(a, card, resp).sid = ApSession[a]
<1>1. ApSession[a] \in ApSid /\ a \in Approval
  BY ApAssumption DEF ApAssumption, ApSid, Approval
<1>2. (IF card.visible /\ card.current = a THEN card.timer ELSE NoApproval) \in Approval
  BY DEF ApCards, Approval
<1>3. (resp = [id |-> a, gen |-> apGen]) \in BOOLEAN
  OBVIOUS
<1> QED
  BY <1>1, <1>2, <1>3 DEF Shown, ApCards

(* What a call of showApprovalCard leaves: the card it found, or the card   *)
(* of the approval, which is one of the session on the screen.              *)
LEMMA ShowsCard ==
  ASSUME ApTypeOK, NEW a \in ApApprovals, NEW view, NEW card \in ApCards, NEW resp,
         ShowApprovalCard(a, view, card, resp)
  PROVE  /\ apPending' \in [ApSessions -> Approval]
         /\ apCard' \in ApCards
         /\ apCleared' \in Nat
         /\ \/ apCard' = card
            \/ /\ apCard'.visible /\ apCard'.current = a /\ apCard'.owner = a
               /\ apCard'.sid = ApSession[a] /\ ApSession[a] = view
<1>1. apPending' \in [ApSessions -> Approval]
  BY DEF ShowApprovalCard, ApTypeOK, Approval
<1>2. apCleared' \in Nat
  BY DEF ShowApprovalCard, ApTypeOK
<1> QED
  BY <1>1, <1>2, ShownCard DEF ShowApprovalCard, Shows

(* The types, said with the sets above. *)
LEMMA ApTypes ==
  /\ ApTypeOK <=>
      /\ apWaiting \in [ApSessions -> Seq(ApApprovals)]
      /\ apAsked \in 0 .. Len(ApScript)
      /\ apRunning \subseteq ApSessions /\ apSending \in [sid: ApSid, polls: BOOLEAN]
      /\ apEvents \subseteq ApApprovals
      /\ apView \in ApSessions /\ apGen \in Nat
      /\ apLoading \in [sid: ApSid, phase: {"none", "asked", "shown"}]
      /\ apPending \in [ApSessions -> Approval]
      /\ apCard \in ApCards /\ apDismissed \subseteq ApApprovals
      /\ apResponding \in ApAnswers /\ apCleared \in Nat
      /\ apPosts \subseteq ApReplies /\ apPoll \in ApPolls
      /\ apAsks \subseteq ApFetches /\ apLeft \in ApBudget
  /\ ApTypeOK' <=>
      /\ apWaiting' \in [ApSessions -> Seq(ApApprovals)]
      /\ apAsked' \in 0 .. Len(ApScript)
      /\ apRunning' \subseteq ApSessions /\ apSending' \in [sid: ApSid, polls: BOOLEAN]
      /\ apEvents' \subseteq ApApprovals
      /\ apView' \in ApSessions /\ apGen' \in Nat
      /\ apLoading' \in [sid: ApSid, phase: {"none", "asked", "shown"}]
      /\ apPending' \in [ApSessions -> Approval]
      /\ apCard' \in ApCards /\ apDismissed' \subseteq ApApprovals
      /\ apResponding' \in ApAnswers /\ apCleared' \in Nat
      /\ apPosts' \subseteq ApReplies /\ apPoll' \in ApPolls
      /\ apAsks' \subseteq ApFetches /\ apLeft' \in ApBudget
BY DEF ApTypeOK, ApCards, ApAnswers, ApReplies, ApPolls, ApFetches, ApBudget

LEMMA ApPollTypes ==
  /\ NoPoll \in ApPolls
  /\ \A s \in ApSessions : [sid |-> s, inFlight |-> TRUE] \in ApPolls
  /\ \A p \in ApPolls : [p EXCEPT !.inFlight = FALSE] \in ApPolls
  /\ \A s \in ApSessions, n \in Nat, g \in Nat : Ask(s, n, g) \in ApFetches
BY DEF NoPoll, ApPolls, ApSid, Ask, ApFetches, Approval

LEMMA ApBudgetTypes ==
  ASSUME ApTypeOK
  PROVE  /\ apLeft.acts > 0 => [apLeft EXCEPT !.acts = @ - 1] \in ApBudget
         /\ apLeft.losses > 0 => [apLeft EXCEPT !.losses = @ - 1] \in ApBudget
<1>1. apLeft \in [acts: Nat, losses: Nat]
  BY DEF ApTypeOK
<1> QED
  BY <1>1 DEF ApBudget

LEMMA ApInitInv == ApInit => ApInv
<1> SUFFICES ASSUME ApInit PROVE ApInv
  OBVIOUS
<1>1. apWaiting \in [ApSessions -> Seq(ApApprovals)] /\ apAsked \in 0 .. Len(ApScript)
  BY ApAssumption DEF ApInit, ApAssumption
<1>2. /\ apRunning \subseteq ApSessions /\ apSending \in [sid: ApSid, polls: BOOLEAN]
      /\ apEvents \subseteq ApApprovals /\ apView \in ApSessions /\ apGen \in Nat
  BY ApAssumption DEF ApInit, ApAssumption, ApNoSend, ApSid
<1>3. /\ apLoading \in [sid: ApSid, phase: {"none", "asked", "shown"}]
      /\ apPending \in [ApSessions -> Approval]
  BY DEF ApInit, ApSid, Approval
<1>4. apCard \in ApCards /\ ~apCard.visible
  BY DEF ApInit, NoCard, ApCards, ApSid, Approval
<1>5. apResponding \in ApAnswers /\ apCleared \in Nat /\ apPosts \subseteq ApReplies
  BY DEF ApInit, NoAnswer, ApAnswers, Approval
<1>6. apPoll \in ApPolls /\ apAsks \subseteq ApFetches
  BY ApAssumption DEF ApInit, ApAssumption, ApPolls, ApSid
<1>7. apLeft \in ApBudget /\ apDismissed \subseteq ApApprovals
  BY ApAssumption DEF ApInit, ApAssumption, ApBudget
<1>8. ApTypeOK
  BY <1>1, <1>2, <1>3, <1>4, <1>5, <1>6, <1>7, ApTypes
<1> QED
  BY <1>4, <1>8 DEF ApInv, ApCardInv, CardOfView, ApInit, ApNoSend

(* The card of a step: gone, as it was on a page that has not moved or is   *)
(* moving, or one of the session on the screen.                             *)
SameCard ==
  /\ apCard'.visible = apCard.visible /\ apCard'.sid = apCard.sid
  /\ apCard'.current = apCard.current /\ apCard'.owner = apCard.owner
NewCard ==
  /\ apCard'.current \in ApApprovals /\ apCard'.owner = apCard'.current
  /\ apCard'.sid = ApSession[apCard'.current] /\ apCard'.sid = apView'

LEMMA CardCases ==
  ASSUME ApInv, ApTypeOK',
         \/ ~apCard'.visible
         \/ SameCard /\ apView' = apView /\ apLoading' = apLoading
         \/ SameCard /\ apLoading'.phase # "none"
         \/ NewCard
  PROVE  ApCardInv'
<1>1. CASE ~apCard'.visible
  BY <1>1 DEF ApInv, ApCardInv, CardOfView
<1>2. CASE SameCard /\ apView' = apView /\ apLoading' = apLoading
  BY <1>2 DEF ApInv, ApCardInv, CardOfView, SameCard
<1>3. CASE SameCard /\ apLoading'.phase # "none"
  BY <1>3 DEF ApInv, ApCardInv, CardOfView, SameCard
<1>4. CASE NewCard
  BY <1>4 DEF ApInv, ApCardInv, CardOfView, NewCard
<1> QED
  BY <1>1, <1>2, <1>3, <1>4

(* showApprovalCard, called with the card as it is or with another. *)
LEMMA ShowCases ==
  ASSUME ApTypeOK, NEW a \in ApApprovals, NEW card \in ApCards, NEW resp,
         ShowApprovalCard(a, apView, card, resp), apView' = apView
  PROVE  /\ apPending' \in [ApSessions -> Approval]
         /\ apCard' \in ApCards
         /\ apCleared' \in Nat
         /\ apCard' = card \/ NewCard
<1>1. /\ apPending' \in [ApSessions -> Approval] /\ apCard' \in ApCards /\ apCleared' \in Nat
      /\ \/ apCard' = card
         \/ /\ apCard'.visible /\ apCard'.current = a /\ apCard'.owner = a
            /\ apCard'.sid = ApSession[a] /\ ApSession[a] = apView
  BY ShowsCard
<1> QED
  BY <1>1 DEF NewCard

(* The steps of the timer, the user and the list. *)
LEMMA ApCardStep ==
  ASSUME ApInv, HideTimer \/ DismissApprovalCard \/ ListReconciles \/ Respond
  PROVE  ApCardInv'
<1>t. ApTypeOK /\ apCard \in ApCards /\ apResponding \in ApAnswers
  BY ApTypes DEF ApInv, ApCardInv
<1>h. Hidden(apCard, apResponding) \in ApCards /\ ~Hidden(apCard, apResponding).visible
  BY <1>t, HiddenCard
<1>1. CASE HideTimer
  <2> DEFINE idle == [apCard EXCEPT !.timer = NoApproval]
  <2>1. idle \in ApCards /\ idle.visible = apCard.visible /\ idle.sid = apCard.sid
        /\ idle.current = apCard.current /\ idle.owner = apCard.owner
    BY <1>t DEF ApCards, Approval
  <2>2. apCard' = Hidden(apCard, apResponding) \/ apCard' = idle
    BY <1>1 DEF HideTimer
  <2> HIDE DEF idle
  <2>3. UNCHANGED <<apServer, apPage, apPending, apDismissed, apAnswer, apCleared,
                    apPoll, apAsks, apLeft>>
    BY <1>1 DEF HideTimer
  <2>4. ApTypeOK'
    BY <1>t, <1>h, <2>1, <2>2, <2>3, ApTypes DEF apServer, apPage, apAnswer
  <2>5. ~apCard'.visible \/ (SameCard /\ apView' = apView /\ apLoading' = apLoading)
    BY <1>h, <2>1, <2>2, <2>3 DEF SameCard, apPage
  <2> QED
    BY <2>4, <2>5, CardCases
<1>2. CASE DismissApprovalCard
  <2>1. apDismissed' \subseteq ApApprovals
    BY <1>2, <1>t, ApTypes DEF DismissApprovalCard, ApInv, ApCardInv
  <2>2. apPending' \in [ApSessions -> Approval] /\ apLeft' \in ApBudget
    BY <1>2, <1>t, ApTypes, ApBudgetTypes DEF DismissApprovalCard, Approval
  <2>3. apCard' = Hidden(apCard, apResponding)
        /\ UNCHANGED <<apServer, apPage, apAnswer, apCleared, apPoll, apAsks>>
    BY <1>2 DEF DismissApprovalCard
  <2>4. ApTypeOK'
    BY <1>t, <1>h, <2>1, <2>2, <2>3, ApTypes DEF apServer, apPage, apAnswer
  <2> QED
    BY <1>h, <2>3, <2>4, CardCases
<1>3. CASE ListReconciles
  <2>1. apCard' = Hidden(apCard, apResponding)
        /\ UNCHANGED <<apServer, apPage, apPending, apDismissed, apAnswer, apCleared,
                       apPoll, apAsks, apLeft>>
    BY <1>3 DEF ListReconciles
  <2>2. ApTypeOK'
    BY <1>t, <1>h, <2>1, ApTypes DEF apServer, apPage, apAnswer
  <2> QED
    BY <1>h, <2>1, <2>2, CardCases
<1>4. CASE Respond
  <2>1. apCard.current \in ApApprovals
    BY <1>4 DEF Respond, ApInv, ApCardInv
  <2>2. apCard' \in ApCards /\ SameCard
    BY <1>4, <1>t DEF Respond, ApCards, SameCard
  <2>3. apResponding' \in ApAnswers /\ apCleared' = 0 /\ apDismissed' \subseteq ApApprovals
    BY <1>4, <1>t, <2>1, ApTypes DEF Respond, ApAnswers, Approval
  <2>4. apPosts' \subseteq ApReplies
    <3>1. [n |-> apLeft.acts, id |-> apCard.current, gen |-> apGen, reply |-> "none"]
            \in ApReplies
      BY <1>t, <2>1, ApTypes DEF ApReplies, ApBudget
    <3>2. apPosts' = apPosts \cup {[n |-> apLeft.acts, id |-> apCard.current, gen |-> apGen,
                                    reply |-> "none"]}
      BY <1>4 DEF Respond
    <3> QED
      BY <1>t, <3>1, <3>2, ApTypes
  <2>5. apLeft' \in ApBudget
    BY <1>4, <1>t, ApBudgetTypes DEF Respond
  <2>6. UNCHANGED <<apServer, apPage, apPending, apPoll, apAsks>>
    BY <1>4 DEF Respond
  <2>7. ApTypeOK'
    BY <1>t, <2>2, <2>3, <2>4, <2>5, <2>6, ApTypes DEF apServer, apPage
  <2> QED
    BY <2>2, <2>6, <2>7, CardCases DEF apPage
<1> QED
  BY <1>1, <1>2, <1>3, <1>4

(* The steps of the agent and its stream. *)
LEMMA ApAgentStep ==
  ASSUME ApInv,
         \/ AgentAsks \/ \E a \in ApApprovals : ApprovalEvent(a)
         \/ \E s \in ApSessions : TurnEnds(s)
  PROVE  ApCardInv'
<1>t. /\ ApTypeOK /\ apCard \in ApCards /\ apResponding \in ApAnswers
      /\ apWaiting \in [ApSessions -> Seq(ApApprovals)]
  BY ApTypes DEF ApInv, ApCardInv
<1>1. CASE AgentAsks
  <2> DEFINE a == ApScript[apAsked + 1]
  <2>1. apAsked' \in 0 .. Len(ApScript) /\ a \in ApApprovals
    BY <1>1, <1>t, ApTypes, ApAssumption DEF AgentAsks, ApAssumption
  <2>2. apWaiting' = [apWaiting EXCEPT ![ApSession[a]] = Append(@, a)]
        /\ apEvents' = apEvents \cup {a}
    BY <1>1 DEF AgentAsks
  <2>3. apWaiting' \in [ApSessions -> Seq(ApApprovals)] /\ apEvents' \subseteq ApApprovals
    <3> HIDE DEF a
    <3>1. ApSession[a] \in ApSessions
      BY <2>1, ApAssumption DEF ApAssumption
    <3>2. Append(apWaiting[ApSession[a]], a) \in Seq(ApApprovals)
      BY <1>t, <2>1, <3>1
    <3> QED
      BY <1>t, <2>1, <2>2, <3>1, <3>2, ApTypes
  <2>4. UNCHANGED <<apRunning, apSending, apPage, apPending, apCard, apDismissed, apAnswer,
                    apCleared, apPoll, apAsks, apLeft>>
    BY <1>1 DEF AgentAsks
  <2>5. ApTypeOK'
    BY <1>t, <2>1, <2>3, <2>4, ApTypes DEF apPage, apAnswer
  <2> QED
    BY <2>4, <2>5, CardCases DEF SameCard, apPage
<1>2. ASSUME NEW a \in ApApprovals, ApprovalEvent(a) PROVE ApCardInv'
  <2>1. apEvents' \subseteq ApApprovals
        /\ ShowApprovalCard(a, apView, apCard, apResponding)
        /\ UNCHANGED <<apWaiting, apAsked, apRunning, apSending, apPage, apDismissed,
                       apAnswer, apPoll, apAsks, apLeft>>
    BY <1>2, <1>t, ApTypes DEF ApprovalEvent
  <2>2. apView' = apView /\ apLoading' = apLoading
    BY <2>1 DEF apPage
  <2>3. /\ apPending' \in [ApSessions -> Approval] /\ apCard' \in ApCards /\ apCleared' \in Nat
        /\ apCard' = apCard \/ NewCard
    BY <1>t, <2>1, <2>2, ShowCases
  <2>4. ApTypeOK'
    BY <1>t, <2>1, <2>3, ApTypes DEF apPage, apAnswer
  <2> QED
    BY <2>2, <2>3, <2>4, CardCases DEF SameCard
<1>3. ASSUME NEW s \in ApSessions, TurnEnds(s) PROVE ApCardInv'
  <2>1. apRunning' \subseteq ApSessions /\ apEvents' \subseteq ApApprovals
    BY <1>3, <1>t, ApTypes DEF TurnEnds
  <2>2. apWaiting' \in [ApSessions -> Seq(ApApprovals)]
        /\ apPending' \in [ApSessions -> Approval]
    <3>1. << >> \in Seq(ApApprovals) /\ NoApproval \in Approval
      BY DEF Approval
    <3> QED
      BY <1>3, <1>t, <3>1, ApTypes DEF TurnEnds
  <2>3. apPoll' \in ApPolls
    BY <1>3, <1>t, ApTypes, ApPollTypes DEF TurnEnds
  <2>4. apCard' = apCard \/ apCard' = Hidden(apCard, apResponding)
    BY <1>3 DEF TurnEnds
  <2>5. UNCHANGED <<apAsked, apSending, apPage, apDismissed, apAnswer, apCleared,
                    apAsks, apLeft>>
    BY <1>3 DEF TurnEnds
  <2>6. apCard' = apCard \/ (apCard' \in ApCards /\ ~apCard'.visible)
    BY <1>t, <2>4, HiddenCard
  <2>7. ApTypeOK'
    BY <1>t, <2>1, <2>2, <2>3, <2>5, <2>6, ApTypes DEF apPage, apAnswer
  <2> QED
    BY <2>5, <2>6, <2>7, CardCases DEF SameCard, apPage
<1> QED
  BY <1>1, <1>2, <1>3

(* The steps of the poll and of send(). *)
LEMMA ApPollStep ==
  ASSUME ApInv, \/ PollTick \/ SendBegins \/ SendStarted
                \/ \E s \in ApSessions : SendPolls(s)
  PROVE  ApCardInv'
<1>t. /\ ApTypeOK /\ apCard \in ApCards /\ apResponding \in ApAnswers
      /\ apAsks \subseteq ApFetches /\ apPoll \in ApPolls
      /\ apSending \in [sid: ApSid, polls: BOOLEAN]
  BY ApTypes DEF ApInv, ApCardInv
<1>h. Hidden(apCard, apResponding) \in ApCards /\ ~Hidden(apCard, apResponding).visible
  BY <1>t, HiddenCard
<1>p. ASSUME NEW s \in ApSessions, StartApprovalPolling(s)
      PROVE  apPoll' \in ApPolls /\ apAsks' \subseteq ApFetches
  BY <1>p, <1>t, ApPollTypes DEF StartApprovalPolling
<1>1. CASE PollTick
  <2>1. /\ apCard' \in {apCard, Hidden(apCard, apResponding)}
        /\ apPoll' \in ApPolls /\ apAsks' \subseteq ApFetches
    <3>1. CASE apPoll.sid # apView
      BY <1>1, <1>t, <3>1, ApPollTypes DEF PollTick
    <3>2. CASE apPoll.sid = apView
      <4>1. apPoll.sid \in ApSessions
        BY <1>t, <3>2, ApTypes
      <4> QED
        BY <1>1, <1>p, <3>2, <4>1 DEF PollTick
    <3> QED
      BY <3>1, <3>2
  <2>2. UNCHANGED <<apServer, apPage, apPending, apDismissed, apAnswer, apCleared, apLeft>>
    BY <1>1 DEF PollTick
  <2>3. apCard' = apCard \/ (apCard' \in ApCards /\ ~apCard'.visible)
    BY <1>h, <2>1
  <2>4. ApTypeOK'
    BY <1>t, <2>1, <2>2, <2>3, ApTypes DEF apServer, apPage, apAnswer
  <2> QED
    BY <2>2, <2>3, <2>4, CardCases DEF SameCard, apPage
<1>2. CASE SendBegins
  <2>1. apSending' \in [sid: ApSid, polls: BOOLEAN] /\ apLeft' \in ApBudget
    BY <1>2, <1>t, ApTypes, ApBudgetTypes DEF SendBegins, ApSid
  <2>2. UNCHANGED <<apWaiting, apAsked, apRunning, apEvents, apPage, apPending, apCard,
                    apDismissed, apAnswer, apCleared, apPoll, apAsks>>
    BY <1>2 DEF SendBegins
  <2>3. ApTypeOK'
    BY <1>t, <2>1, <2>2, ApTypes DEF apPage, apAnswer
  <2> QED
    BY <2>2, <2>3, CardCases DEF SameCard, apPage
<1>3. CASE SendStarted
  <2>1. apSending' \in [sid: ApSid, polls: BOOLEAN] /\ apPoll' \in ApPolls
    BY <1>3, <1>t, ApPollTypes DEF SendStarted, ApNoSend, ApSid
  <2>2. /\ apCard' \in {apCard, Hidden(apCard, apResponding)}
        /\ apRunning' \in {apRunning, apRunning \cup {apSending.sid}}
    BY <1>3 DEF SendStarted
  <2>3. UNCHANGED <<apWaiting, apAsked, apEvents, apPage, apPending, apDismissed,
                    apAnswer, apCleared, apAsks, apLeft>>
    BY <1>3 DEF SendStarted
  <2>4. apCard' = apCard \/ (apCard' \in ApCards /\ ~apCard'.visible)
    BY <1>h, <2>2
  <2>5. apRunning' \subseteq ApSessions
    BY <1>3, <1>t, <2>2, ApTypes DEF SendStarted, ApInv
  <2>6. ApTypeOK'
    BY <1>t, <2>1, <2>3, <2>4, <2>5, ApTypes DEF apPage, apAnswer
  <2> QED
    BY <2>3, <2>4, <2>6, CardCases DEF SameCard, apPage
<1>4. ASSUME NEW s \in ApSessions, SendPolls(s) PROVE ApCardInv'
  <2>1. apSending' \in [sid: ApSid, polls: BOOLEAN]
    BY <1>4, <1>t DEF SendPolls
  <2>2. /\ apCard' \in {apCard, Hidden(apCard, apResponding)}
        /\ apPoll' \in ApPolls /\ apAsks' \subseteq ApFetches
    BY <1>4, <1>t, <1>p, ApPollTypes DEF SendPolls
  <2>3. UNCHANGED <<apWaiting, apAsked, apRunning, apEvents, apPage, apPending,
                    apDismissed, apAnswer, apCleared, apLeft>>
    BY <1>4 DEF SendPolls
  <2>4. apCard' = apCard \/ (apCard' \in ApCards /\ ~apCard'.visible)
    BY <1>h, <2>2
  <2>5. ApTypeOK'
    BY <1>t, <2>1, <2>2, <2>3, <2>4, ApTypes DEF apPage, apAnswer
  <2> QED
    BY <2>3, <2>4, <2>5, CardCases DEF SameCard, apPage
<1> QED
  BY <1>1, <1>2, <1>3, <1>4

(* The requests for the pending approval, as the server answers them. *)
LEMMA ApServeStep ==
  ASSUME ApInv, \/ \E r \in apAsks : ServeAsk(r)
                \/ \E p \in apPosts : ServePost(p)
  PROVE  ApCardInv'
<1>t. /\ ApTypeOK /\ apWaiting \in [ApSessions -> Seq(ApApprovals)]
      /\ apAsks \subseteq ApFetches /\ apPosts \subseteq ApReplies /\ apLeft \in ApBudget
  BY ApTypes DEF ApInv, ApCardInv
<1>1. ASSUME NEW r \in apAsks, ServeAsk(r) PROVE ApCardInv'
  <2> DEFINE found == IF apWaiting[r.sid] = << >> THEN NoApproval ELSE Head(apWaiting[r.sid])
  <2>1. r \in ApFetches
    BY <1>t
  <2>2. found \in Approval
    <3>1. apWaiting[r.sid] \in Seq(ApApprovals)
      BY <1>t, <2>1 DEF ApFetches
    <3> QED
      BY <3>1, HeadType DEF Approval
  <2> HIDE DEF found
  <2>3. /\ [r EXCEPT !.phase = "answered", !.found = found] \in ApFetches
        /\ [r EXCEPT !.phase = "lost"] \in ApFetches
    BY <2>1, <2>2 DEF ApFetches
  <2>4. \/ apAsks' = (apAsks \ {r}) \cup {[r EXCEPT !.phase = "answered", !.found = found]}
        \/ apAsks' = (apAsks \ {r}) \cup {[r EXCEPT !.phase = "lost"]}
    BY <1>1 DEF ServeAsk, found
  <2>5. apAsks' \subseteq ApFetches
    BY <1>t, <2>3, <2>4
  <2>6. apLeft' \in ApBudget
    BY <1>1, <1>t, ApBudgetTypes DEF ServeAsk
  <2>7. UNCHANGED <<apServer, apPage, apPending, apCard, apDismissed, apAnswer,
                    apCleared, apPoll>>
    BY <1>1 DEF ServeAsk
  <2>8. ApTypeOK'
    BY <1>t, <2>5, <2>6, <2>7, ApTypes DEF apServer, apPage, apAnswer
  <2> QED
    BY <2>7, <2>8, CardCases DEF SameCard, apPage
<1>2. ASSUME NEW p \in apPosts, ServePost(p) PROVE ApCardInv'
  <2> DEFINE s == ApSession[p.id]
             served == [apWaiting EXCEPT ![s] = RemoveFirst(@, p.id)]
             ok == IF Contains(apWaiting[s], p.id) THEN "ok" ELSE "stale"
  <2>1. p \in ApReplies /\ p.id \in ApApprovals
    BY <1>t DEF ApReplies
  <2>2. served \in [ApSessions -> Seq(ApApprovals)]
    <3>1. s \in ApSessions
      BY <2>1, ApAssumption DEF ApAssumption
    <3>2. RemoveFirst(apWaiting[s], p.id) \in Seq(ApApprovals)
      BY <1>t, <3>1, RemoveFirstType
    <3> QED
      BY <1>t, <3>1, <3>2
  <2>3. ok \in {"ok", "stale"}
    OBVIOUS
  <2>4. \/ /\ apPosts' = (apPosts \ {p}) \cup {[p EXCEPT !.reply = ok]}
           /\ apWaiting' = served /\ UNCHANGED apLeft
        \/ /\ apPosts' = (apPosts \ {p}) \cup {[p EXCEPT !.reply = "error"]}
           /\ apWaiting' \in {apWaiting, served}
           /\ apLeft.losses > 0 /\ apLeft' = [apLeft EXCEPT !.losses = @ - 1]
    BY <1>2 DEF ServePost
  <2> HIDE DEF s, served, ok
  <2>5. [p EXCEPT !.reply = ok] \in ApReplies /\ [p EXCEPT !.reply = "error"] \in ApReplies
    BY <2>1, <2>3 DEF ApReplies
  <2>6. apPosts' \subseteq ApReplies /\ apWaiting' \in [ApSessions -> Seq(ApApprovals)]
    BY <1>t, <2>2, <2>4, <2>5
  <2>7. apLeft' \in ApBudget
    BY <1>t, <2>4, ApBudgetTypes
  <2>8. UNCHANGED <<apAsked, apRunning, apSending, apEvents, apPage, apPending, apCard,
                    apDismissed, apResponding, apCleared, apPoll, apAsks>>
    BY <1>2 DEF ServePost
  <2>9. ApTypeOK'
    BY <1>t, <2>6, <2>7, <2>8, ApTypes DEF apPage
  <2> QED
    BY <2>8, <2>9, CardCases DEF SameCard, apPage
<1> QED
  BY <1>1, <1>2

(* The answers to a poll and to a refetch. *)
LEMMA ApTakeStep ==
  ASSUME ApInv, \E r \in apAsks : TakePoll(r) \/ TakeRefetch(r)
  PROVE  ApCardInv'
<1>t. /\ ApTypeOK /\ apCard \in ApCards /\ apResponding \in ApAnswers
      /\ apAsks \subseteq ApFetches /\ apPoll \in ApPolls
      /\ apPending \in [ApSessions -> Approval] /\ apDismissed \subseteq ApApprovals
      /\ apCleared \in Nat
  BY ApTypes DEF ApInv, ApCardInv
<1>h. Hidden(apCard, apResponding) \in ApCards /\ ~Hidden(apCard, apResponding).visible
  BY <1>t, HiddenCard
<1>n. NoApproval \in Approval
  BY DEF Approval
<1>1. ASSUME NEW r \in apAsks, TakePoll(r) PROVE ApCardInv'
  <2>1. r \in ApFetches /\ r.sid \in ApSessions /\ r.found \in Approval
    BY <1>t DEF ApFetches
  <2>2. apAsks' \subseteq ApFetches /\ UNCHANGED <<apServer, apPage, apAnswer, apLeft>>
    BY <1>1, <1>t DEF TakePoll
  <2>3. apView' = apView /\ apLoading' = apLoading
    BY <2>2 DEF apPage
  <2>4. apPoll' \in ApPolls
    BY <1>1, <1>t, ApPollTypes DEF TakePoll
  <2>5. CASE r.found # NoApproval /\ ShowApprovalCard(r.found, apView, apCard, apResponding)
             /\ UNCHANGED apDismissed
    <3>1. r.found \in ApApprovals
      BY <2>1, <2>5 DEF Approval
    <3>2. /\ apPending' \in [ApSessions -> Approval] /\ apCard' \in ApCards /\ apCleared' \in Nat
          /\ apCard' = apCard \/ NewCard
      BY <1>t, <2>3, <2>5, <3>1, ShowCases
    <3>3. ApTypeOK'
      BY <1>t, <2>2, <2>4, <2>5, <3>2, ApTypes DEF apServer, apPage, apAnswer
    <3> QED
      BY <2>3, <3>2, <3>3, CardCases DEF SameCard
  <2>6. CASE /\ apPending' = [apPending EXCEPT ![r.sid] = NoApproval]
             /\ apDismissed' = apDismissed \ {apPending[r.sid]}
             /\ apCard' \in IF apCard.sid = r.sid THEN HiddenLater(apCard, apResponding)
                                                  ELSE {apCard}
             /\ UNCHANGED apCleared
    <3>1. apCard' \in ApCards /\ (~apCard'.visible \/ SameCard)
      <4>1. CASE apCard' \in HiddenLater(apCard, apResponding)
        <5>1. /\ apCard' \in ApCards
              /\ \/ apCard' = Hidden(apCard, apResponding)
                 \/ apCard' = [apCard EXCEPT !.timer = apCard.current]
          BY <1>t, <4>1, LaterCard
        <5> QED
          BY <1>h, <1>t, <5>1 DEF SameCard, ApCards
      <4>2. CASE apCard' = apCard
        BY <1>t, <4>2 DEF SameCard
      <4> QED
        BY <2>6, <4>1, <4>2
    <3>2. apPending' \in [ApSessions -> Approval] /\ apDismissed' \subseteq ApApprovals
      BY <1>n, <1>t, <2>6
    <3>3. ApTypeOK'
      BY <1>t, <2>2, <2>4, <2>6, <3>1, <3>2, ApTypes DEF apServer, apPage, apAnswer
    <3> QED
      BY <2>3, <3>1, <3>3, CardCases
  <2>7. CASE UNCHANGED <<apPending, apCard, apDismissed, apCleared>>
    <3>1. ApTypeOK'
      BY <1>t, <2>2, <2>4, <2>7, ApTypes DEF apServer, apPage, apAnswer
    <3> QED
      BY <2>3, <2>7, <3>1, CardCases DEF SameCard
  <2> QED
    BY <1>1, <2>5, <2>6, <2>7 DEF TakePoll
<1>2. ASSUME NEW r \in apAsks, TakeRefetch(r) PROVE ApCardInv'
  <2>1. r \in ApFetches /\ r.sid \in ApSessions /\ r.found \in Approval
    BY <1>t DEF ApFetches
  <2>2. apAsks' \subseteq ApFetches
        /\ UNCHANGED <<apServer, apPage, apDismissed, apAnswer, apPoll, apLeft>>
    BY <1>2, <1>t DEF TakeRefetch
  <2>3. apView' = apView /\ apLoading' = apLoading
    BY <2>2 DEF apPage
  <2>4. apCleared' \in Nat
    BY <1>2, <1>t DEF TakeRefetch
  <2>5. apPending' \in [ApSessions -> Approval]
    BY <1>2, <1>t, <2>1 DEF TakeRefetch
  <2>6. \/ apCard' = apCard
        \/ /\ r.found # NoApproval /\ Shows(r.found, apView)
           /\ apCard' = Shown(r.found, apCard, apResponding)
    BY <1>2 DEF TakeRefetch
  <2>7. apCard' \in ApCards /\ (apCard' = apCard \/ NewCard)
    <3>1. CASE r.found # NoApproval /\ Shows(r.found, apView)
               /\ apCard' = Shown(r.found, apCard, apResponding)
      <4>1. r.found \in ApApprovals
        BY <2>1, <3>1 DEF Approval
      <4>2. /\ apCard' \in ApCards /\ apCard'.current = r.found /\ apCard'.owner = r.found
            /\ apCard'.sid = ApSession[r.found]
        BY <1>t, <3>1, <4>1, ShownCard
      <4> QED
        BY <2>3, <3>1, <4>1, <4>2 DEF NewCard, Shows
    <3> QED
      BY <1>t, <2>6, <3>1
  <2>8. ApTypeOK'
    BY <1>t, <2>2, <2>4, <2>5, <2>7, ApTypes DEF apServer, apPage, apAnswer
  <2> QED
    BY <2>3, <2>7, <2>8, CardCases DEF SameCard
<1> QED
  BY <1>1, <1>2

(* The replies to an answer. *)
LEMMA ApReplyStep ==
  ASSUME ApInv,
         \E p \in apPosts : TakeStrayReply(p) \/ TakeAccepted(p) \/ TakeRefused(p)
  PROVE  ApCardInv'
<1>t. /\ ApTypeOK /\ apCard \in ApCards /\ apResponding \in ApAnswers
      /\ apPosts \subseteq ApReplies /\ apAsks \subseteq ApFetches /\ apView \in ApSessions
      /\ apGen \in Nat /\ apPending \in [ApSessions -> Approval] /\ apCleared \in Nat
  BY ApTypes DEF ApInv, ApCardInv
<1>n. NoApproval \in Approval /\ NoAnswer \in ApAnswers
  BY DEF Approval, NoAnswer, ApAnswers
<1>r. ASSUME NEW p PROVE Released(p) \in ApAnswers
  BY <1>t, <1>n DEF Released
<1>f. ASSUME NEW p
      PROVE  /\ Forgotten(p) \in ApCards /\ Forgotten(p).visible = apCard.visible
             /\ Forgotten(p).sid = apCard.sid /\ Forgotten(p).current = apCard.current
             /\ apCard.visible => Forgotten(p) = apCard
  BY <1>t, <1>n DEF Forgotten, ApCards
<1>1. ASSUME NEW p \in apPosts, TakeStrayReply(p) PROVE ApCardInv'
  <2>1. /\ apPosts' \subseteq ApReplies /\ apResponding' \in ApAnswers /\ apCard' = Forgotten(p)
        /\ UNCHANGED <<apServer, apPage, apPending, apDismissed, apCleared, apPoll,
                       apAsks, apLeft>>
    BY <1>1, <1>t, <1>r DEF TakeStrayReply
  <2>2. apCard' \in ApCards /\ (~apCard'.visible \/ SameCard)
    BY <1>f, <1>t, <2>1 DEF SameCard
  <2>3. ApTypeOK'
    BY <1>t, <2>1, <2>2, ApTypes DEF apServer, apPage
  <2> QED
    BY <2>1, <2>2, <2>3, CardCases DEF apPage
<1>2. ASSUME NEW p \in apPosts, TakeAccepted(p) PROVE ApCardInv'
  <2>1. p \in ApReplies /\ p.n \in Nat
    BY <1>t DEF ApReplies
  <2>2. apPosts' \subseteq ApReplies /\ apResponding' \in ApAnswers /\ apCleared' \in Nat
    BY <1>2, <1>t, <1>r, <2>1 DEF TakeAccepted
  <2>3. apPending' \in [ApSessions -> Approval]
    BY <1>2, <1>t, <1>n DEF TakeAccepted
  <2>4. apAsks' \subseteq ApFetches
    BY <1>2, <1>t, <2>1, ApPollTypes DEF TakeAccepted
  <2>5. apCard' \in ApCards /\ ~apCard'.visible
    <3>1. Hidden(apCard, NoAnswer) \in ApCards /\ ~Hidden(apCard, NoAnswer).visible
      BY <1>t, <1>n, HiddenCard
    <3>2. apCard' = [Hidden(apCard, NoAnswer) EXCEPT !.current = NoApproval]
      BY <1>2 DEF TakeAccepted
    <3> QED
      BY <1>n, <3>1, <3>2 DEF ApCards
  <2>6. UNCHANGED <<apServer, apPage, apDismissed, apPoll, apLeft>>
    BY <1>2 DEF TakeAccepted
  <2>7. ApTypeOK'
    BY <1>t, <2>2, <2>3, <2>4, <2>5, <2>6, ApTypes DEF apServer, apPage
  <2> QED
    BY <2>5, <2>7, CardCases
<1>3. ASSUME NEW p \in apPosts, TakeRefused(p) PROVE ApCardInv'
  <2> DEFINE freed == [Forgotten(p) EXCEPT !.disabled = FALSE]
             card  == IF freed.sid \in {NoApproval, apView} THEN freed
                      ELSE Hidden(freed, Released(p))
  <2>1. /\ freed \in ApCards /\ freed.visible = apCard.visible /\ freed.sid = apCard.sid
        /\ freed.current = apCard.current
        /\ apCard.visible => freed.owner = apCard.owner
    <3>1. /\ Forgotten(p) \in ApCards /\ Forgotten(p).visible = apCard.visible
          /\ Forgotten(p).sid = apCard.sid /\ Forgotten(p).current = apCard.current
          /\ apCard.visible => Forgotten(p).owner = apCard.owner
      BY <1>f
    <3> QED
      BY <3>1 DEF ApCards
  <2>2. /\ apPosts' \subseteq ApReplies /\ apResponding' \in ApAnswers
        /\ UNCHANGED <<apServer, apPage, apDismissed, apPoll, apAsks, apLeft>>
    BY <1>3, <1>t, <1>r DEF TakeRefused
  <2>3. \/ apCard' = card /\ UNCHANGED <<apPending, apCleared>>
        \/ /\ apPending[apView] # NoApproval
           /\ ShowApprovalCard(apPending[apView], apView, card, Released(p))
    BY <1>3 DEF TakeRefused
  <2> HIDE DEF freed
  <2>4. /\ card \in ApCards
        /\ \/ ~card.visible
           \/ /\ card.visible = apCard.visible /\ card.sid = apCard.sid
              /\ card.current = apCard.current /\ card.owner = apCard.owner
    <3>1. Hidden(freed, Released(p)) \in ApCards /\ ~Hidden(freed, Released(p)).visible
      BY <1>r, <2>1, HiddenCard
    <3>2. apCard.visible \in BOOLEAN
      BY <1>t DEF ApCards
    <3> QED
      BY <2>1, <3>1, <3>2
  <2> HIDE DEF card
  <2>5. apView' = apView /\ apLoading' = apLoading
    BY <2>2 DEF apPage
  <2>6. /\ apCard' \in ApCards /\ apPending' \in [ApSessions -> Approval] /\ apCleared' \in Nat
        /\ apCard' = card \/ NewCard
    <3>1. CASE apCard' = card /\ UNCHANGED <<apPending, apCleared>>
      BY <1>t, <2>4, <3>1
    <3>2. CASE /\ apPending[apView] # NoApproval
               /\ ShowApprovalCard(apPending[apView], apView, card, Released(p))
      <4>1. apPending[apView] \in ApApprovals
        BY <1>t, <3>2 DEF Approval
      <4> QED
        BY <1>t, <2>4, <2>5, <3>2, <4>1, ShowCases
    <3> QED
      BY <2>3, <3>1, <3>2
  <2>7. ApTypeOK'
    BY <1>t, <2>2, <2>6, ApTypes DEF apServer, apPage
  <2> QED
    BY <2>4, <2>5, <2>6, <2>7, CardCases DEF SameCard
<1> QED
  BY <1>1, <1>2, <1>3

(* loadSession. *)
LEMMA ApLoadStep ==
  ASSUME ApInv, LoadStep \/ \E s \in ApSessions : LoadSession(s)
  PROVE  ApCardInv'
<1>t. /\ ApTypeOK /\ apCard \in ApCards /\ apResponding \in ApAnswers
      /\ apView \in ApSessions /\ apGen \in Nat /\ apAsks \subseteq ApFetches
      /\ apPending \in [ApSessions -> Approval] /\ apCleared \in Nat
      /\ apLoading \in [sid: ApSid, phase: {"none", "asked", "shown"}]
  BY ApTypes DEF ApInv, ApCardInv
<1>h. Hidden(apCard, apResponding) \in ApCards /\ ~Hidden(apCard, apResponding).visible
  BY <1>t, HiddenCard
<1>1. ASSUME NEW s \in ApSessions, LoadSession(s) PROVE ApCardInv'
  <2>1. /\ apLeft' \in ApBudget /\ apGen' \in Nat
        /\ apLoading' \in [sid: ApSid, phase: {"none", "asked", "shown"}]
        /\ apLoading'.phase # "none" /\ apPoll' \in ApPolls
    BY <1>1, <1>t, ApPollTypes, ApBudgetTypes DEF LoadSession, ApSid
  <2>2. apCard' = Hidden(apCard, apResponding) \/ apCard' \in HiddenLater(apCard, apResponding)
    BY <1>1 DEF LoadSession
  <2>3. apCard' \in ApCards /\ (~apCard'.visible \/ SameCard)
    <3>1. CASE apCard' = [apCard EXCEPT !.timer = apCard.current]
      BY <1>t, <3>1 DEF SameCard, ApCards
    <3> QED
      BY <1>h, <1>t, <2>2, <3>1, LaterCard
  <2>4. UNCHANGED <<apServer, apView, apPending, apDismissed, apAnswer, apCleared, apAsks>>
    BY <1>1 DEF LoadSession
  <2>5. ApTypeOK'
    BY <1>t, <2>1, <2>3, <2>4, ApTypes DEF apServer, apAnswer
  <2> QED
    BY <2>1, <2>3, <2>5, CardCases
<1>2. CASE LoadMetadata
  <2>1. apView' \in ApSessions
    BY <1>2 DEF LoadMetadata, ApInv
  <2>2. apLoading' \in [sid: ApSid, phase: {"none", "asked", "shown"}]
        /\ apLoading'.phase # "none"
    BY <1>2, <1>t DEF LoadMetadata
  <2>3. UNCHANGED <<apServer, apGen, apPending, apCard, apDismissed, apAnswer,
                    apCleared, apPoll, apAsks, apLeft>>
    BY <1>2 DEF LoadMetadata
  <2>4. ApTypeOK'
    BY <1>t, <2>1, <2>2, <2>3, ApTypes DEF apServer, apAnswer
  <2> QED
    BY <2>2, <2>3, <2>4, CardCases DEF SameCard
<1>3. CASE LoadDone
  <2> DEFINE card == IF apCard.sid \in {NoApproval, apView} THEN apCard
                     ELSE Hidden(apCard, apResponding)
  <2>1. apLoading' \in [sid: ApSid, phase: {"none", "asked", "shown"}]
    BY <1>3 DEF LoadDone, ApSid
  <2>2. apPoll' \in ApPolls /\ apAsks' \subseteq ApFetches
    BY <1>3, <1>t, ApPollTypes DEF LoadDone, StartApprovalPolling
  <2>3. UNCHANGED <<apServer, apView, apGen, apDismissed, apAnswer, apLeft>>
    BY <1>3 DEF LoadDone
  <2>4. \/ apCard' = card /\ UNCHANGED <<apPending, apCleared>>
        \/ /\ apPending[apView] # NoApproval
           /\ ShowApprovalCard(apPending[apView], apView, card, apResponding)
    BY <1>3 DEF LoadDone
  \* A visible card that stays is one of the session on the screen.
  <2>5. card \in ApCards /\ (~card.visible \/ (card = apCard /\ apCard.sid = apView))
    <3>1. apCard.visible => apCard.sid # NoApproval
      BY ApAssumption DEF ApInv, ApCardInv, CardOfView, ApAssumption
    <3> QED
      BY <1>h, <1>t, <3>1
  <2> HIDE DEF card
  <2>6. apView' = apView
    BY <2>3
  <2>7. /\ apCard' \in ApCards /\ apPending' \in [ApSessions -> Approval] /\ apCleared' \in Nat
        /\ apCard' = card \/ NewCard
    <3>1. CASE apCard' = card /\ UNCHANGED <<apPending, apCleared>>
      BY <1>t, <2>5, <3>1
    <3>2. CASE /\ apPending[apView] # NoApproval
               /\ ShowApprovalCard(apPending[apView], apView, card, apResponding)
      <4>1. apPending[apView] \in ApApprovals
        BY <1>t, <3>2 DEF Approval
      <4> QED
        BY <1>t, <2>5, <2>6, <3>2, <4>1, ShowCases
    <3> QED
      BY <2>4, <3>1, <3>2
  <2>8. ApTypeOK'
    BY <1>t, <2>1, <2>2, <2>3, <2>7, ApTypes DEF apServer, apAnswer
  <2>9. ~apCard'.visible \/ NewCard
    <3>1. CASE apCard' = apCard /\ apCard.visible /\ apCard.sid = apView
      BY <2>6, <3>1 DEF NewCard, ApInv, ApCardInv, CardOfView
    <3> QED
      BY <2>5, <2>7, <3>1
  <2> QED
    BY <2>8, <2>9, CardCases
<1> QED
  BY <1>1, <1>2, <1>3 DEF LoadStep

(* Only send() and loadSession touch what they keep of themselves. *)
LEMMA SendingKept ==
  ASSUME ApNext
  PROVE  \/ apSending' = apSending \/ SendBegins \/ SendStarted
         \/ \E s \in ApSessions : SendPolls(s)
BY DEF ApNext, HideTimer, DismissApprovalCard, PollTick, Respond, AgentAsks, ApprovalEvent,
  ListReconciles, TurnEnds, LoadSession, ServeAsks, ServeAsk, TakeAsks, TakePoll,
  TakeRefetch, ServePosts, ServePost, TakeReplies, TakeStrayReply, TakeAccepted,
  TakeRefused, LoadStep, LoadMetadata, LoadDone, apServer

LEMMA LoadingKept ==
  ASSUME ApNext
  PROVE  \/ apLoading' = apLoading \/ LoadMetadata \/ LoadDone
         \/ \E s \in ApSessions : LoadSession(s)
BY DEF ApNext, HideTimer, DismissApprovalCard, PollTick, Respond, AgentAsks, ApprovalEvent,
  ListReconciles, TurnEnds, SendBegins, SendStarted, SendPolls, ServeAsks, ServeAsk,
  TakeAsks, TakePoll, TakeRefetch, ServePosts, ServePost, TakeReplies, TakeStrayReply,
  TakeAccepted, TakeRefused, LoadStep, apPage

LEMMA ApStepInv == ApInv /\ [ApNext]_apVars => ApInv'
<1> SUFFICES ASSUME ApInv, [ApNext]_apVars PROVE ApInv'
  OBVIOUS
<1>1. CASE UNCHANGED apVars
  BY <1>1 DEF apVars, ApInv, ApCardInv, ApTypeOK, CardOfView
<1>2. CASE ApNext
  <2>1. ApCardInv'
    BY <1>2, ApCardStep, ApAgentStep, ApPollStep, ApServeStep, ApTakeStep, ApReplyStep,
       ApLoadStep
    DEF ApNext, ServeAsks, TakeAsks, ServePosts, TakeReplies
  <2>2. apSending'.polls => apSending'.sid \in ApSessions
    <3>1. ASSUME NEW s \in ApSessions, SendPolls(s) PROVE apSending'.sid \in ApSessions
      <4>1. apSending = [sid |-> s, polls |-> FALSE]
            /\ apSending' = [apSending EXCEPT !.polls = TRUE]
        BY <3>1 DEF SendPolls
      <4> QED
        BY <4>1
    <3>2. CASE SendBegins \/ SendStarted
      BY <3>2 DEF SendBegins, SendStarted, ApNoSend
    <3> QED
      BY <1>2, <3>1, <3>2, SendingKept DEF ApInv
  <2>3. apLoading'.phase # "none" => apLoading'.sid \in ApSessions
    <3>1. apLoading \in [sid: ApSid, phase: {"none", "asked", "shown"}]
      BY ApTypes DEF ApInv, ApCardInv
    <3>2. ASSUME NEW s \in ApSessions, LoadSession(s) PROVE apLoading'.sid \in ApSessions
      BY <3>2 DEF LoadSession
    <3>3. CASE LoadMetadata
      BY <3>1, <3>3 DEF LoadMetadata, ApInv
    <3>4. CASE LoadDone
      BY <3>4 DEF LoadDone
    <3> QED
      BY <1>2, <3>2, <3>3, <3>4, LoadingKept DEF ApInv
  <2> QED
    BY <2>1, <2>2, <2>3 DEF ApInv
<1> QED
  BY <1>1, <1>2

LEMMA PostsKept ==
  ASSUME ApNext
  PROVE  \/ apPosts' = apPosts \/ Respond
         \/ \E p \in apPosts :
              ServePost(p) \/ TakeStrayReply(p) \/ TakeAccepted(p) \/ TakeRefused(p)
BY DEF ApNext, HideTimer, DismissApprovalCard, PollTick, AgentAsks, ApprovalEvent,
  ListReconciles, TurnEnds, SendBegins, SendStarted, SendPolls, ServeAsks, ServeAsk,
  TakeAsks, TakePoll, TakeRefetch, ServePosts, TakeReplies, LoadSession, LoadStep,
  LoadMetadata, LoadDone, apAnswer

(* What AnswerKeepsNewerCard says of a step. *)
AnswerSparesCard ==
  \A p \in apPosts :
    /\ \A q \in apPosts' : q.n # p.n
    /\ apCard.visible /\ apCard.current # p.id
    => apCard'.visible /\ apCard'.current = apCard.current

(* An answer goes when its reply is handled: the handler that hides or      *)
(* replaces a card found its own answer to be the owner of the card, and    *)
(* the owner of a card on the screen is the approval it shows.              *)
LEMMA AnswerSparesCardStep ==
  ASSUME ApInv, [ApNext]_apVars
  PROVE  AnswerSparesCard
<1> SUFFICES ASSUME NEW p \in apPosts, \A q \in apPosts' : q.n # p.n,
                    apCard.visible, apCard.current # p.id
             PROVE  apCard'.visible /\ apCard'.current = apCard.current
  BY DEF AnswerSparesCard
<1>0. p \notin apPosts'
  OBVIOUS
<1>1. CASE apPosts' = apPosts \/ Respond
  BY <1>0, <1>1 DEF Respond
<1>2. ASSUME NEW r \in apPosts,
             ServePost(r) \/ TakeStrayReply(r) \/ TakeAccepted(r) \/ TakeRefused(r)
      PROVE  apCard'.visible /\ apCard'.current = apCard.current
  <2>1. r = p
    BY <1>0, <1>2 DEF ServePost, TakeStrayReply, TakeAccepted, TakeRefused
  <2>2. CASE ServePost(p)
    <3>1. p \in ApReplies
      BY ApTypes DEF ApInv, ApCardInv
    <3>2. \E reply : [p EXCEPT !.reply = reply] \in apPosts'
      BY <2>2 DEF ServePost
    <3>3. PICK reply : [p EXCEPT !.reply = reply] \in apPosts'
      BY <3>2
    <3>4. [p EXCEPT !.reply = reply].n = p.n
      BY <3>1 DEF ApReplies
    <3> QED
      BY <3>3, <3>4
  <2>3. CASE TakeStrayReply(p)
    BY <2>3 DEF TakeStrayReply, Forgotten
  <2>4. CASE TakeAccepted(p) \/ TakeRefused(p)
    <3>1. apCard.owner = p.id
      BY <2>4 DEF TakeAccepted, TakeRefused, OwnerIsCurrent
    <3> QED
      BY <3>1 DEF ApInv, ApCardInv, CardOfView
  <2> QED
    BY <1>2, <2>1, <2>2, <2>3, <2>4
<1>3. CASE UNCHANGED apVars
  BY <1>0, <1>3 DEF apVars
<1> QED
  BY <1>1, <1>2, <1>3, PostsKept

-----------------------------------------------------------------------------
(* The clarification card *)

ClCards   == [visible: BOOLEAN, sid: ClSid, current: Question,
              disabled: BOOLEAN, draft: Question, timer: Question]
ClReplies == [n: Nat, id: ClQuestions, sid: ClSessions,
              reply: {"none", "ok", "expired", "error"}]
ClPolls   == [sid: ClSid, inFlight: BOOLEAN]
ClFetches == [sid: ClSessions, found: Question, phase: {"asked", "answered", "gone", "lost"}]
ClLoads   == [sid: ClSid, phase: {"none", "asked", "shown"}, live: BOOLEAN]
ClBudget  == [acts: Nat, losses: Nat]

(* A card on the screen shows a question, and is of the session shown. *)
ClCardInv ==
  ClTypeOK /\ QuestionOfView /\ (clCard.visible => clCard.current \in ClQuestions)

ClInv ==
  /\ ClCardInv
  /\ clSending.polls => clSending.sid \in ClSessions
  /\ clLoading.phase # "none" => clLoading.sid \in ClSessions

LEMMA ClTypes ==
  /\ ClTypeOK <=>
      /\ clWaiting \in [ClSessions -> Seq(ClQuestions)]
      /\ clAsked \in 0 .. Len(ClScript) /\ clEvents \subseteq ClQuestions
      /\ clRunning \subseteq ClSessions /\ clSending \in [sid: ClSid, polls: BOOLEAN]
      /\ clView \in ClSessions /\ clLoading \in ClLoads
      /\ clPending \in [ClSessions -> Question]
      /\ clCard \in ClCards /\ clComposer \subseteq ClQuestions
      /\ clPosts \subseteq ClReplies /\ clPoll \in ClPolls
      /\ clAsks \subseteq ClFetches /\ clLeft \in ClBudget
  /\ ClTypeOK' <=>
      /\ clWaiting' \in [ClSessions -> Seq(ClQuestions)]
      /\ clAsked' \in 0 .. Len(ClScript) /\ clEvents' \subseteq ClQuestions
      /\ clRunning' \subseteq ClSessions /\ clSending' \in [sid: ClSid, polls: BOOLEAN]
      /\ clView' \in ClSessions /\ clLoading' \in ClLoads
      /\ clPending' \in [ClSessions -> Question]
      /\ clCard' \in ClCards /\ clComposer' \subseteq ClQuestions
      /\ clPosts' \subseteq ClReplies /\ clPoll' \in ClPolls
      /\ clAsks' \subseteq ClFetches /\ clLeft' \in ClBudget
BY DEF ClTypeOK, ClCards, ClReplies, ClPolls, ClFetches, ClLoads, ClBudget

LEMMA ClPollTypes ==
  /\ ClNoPoll \in ClPolls /\ (clPoll \in ClPolls => ClPolled \in ClPolls)
  /\ \A s \in ClSessions : [sid |-> s, inFlight |-> TRUE] \in ClPolls
  /\ \A s \in ClSessions : [sid |-> s, phase |-> "asked", found |-> NoQuestion] \in ClFetches
BY DEF ClNoPoll, ClPolls, ClPolled, ClSid, ClFetches, Question

LEMMA ClBudgetTypes ==
  ASSUME ClTypeOK
  PROVE  /\ clLeft.acts > 0 => [clLeft EXCEPT !.acts = @ - 1] \in ClBudget
         /\ clLeft.losses > 0 => [clLeft EXCEPT !.losses = @ - 1] \in ClBudget
<1>1. clLeft \in [acts: Nat, losses: Nat]
  BY DEF ClTypeOK
<1> QED
  BY <1>1 DEF ClBudget

LEMMA NoCardType == ClNoCard \in ClCards /\ ~ClNoCard.visible
BY DEF ClNoCard, ClCards, ClSid, Question

(* hideClarifyCard leaves no card, and a draft of a question at most. *)
LEMMA HidesCard ==
  ASSUME clComposer \subseteq ClQuestions, NEW card \in ClCards, NEW reason,
         HideClarifyCard(card, reason)
  PROVE  clCard' \in ClCards /\ ~clCard'.visible /\ clComposer' \subseteq ClQuestions
<1>1. {card.draft} \ {NoQuestion} \subseteq ClQuestions
  BY DEF ClCards, Question
<1> QED
  BY <1>1, NoCardType DEF HideClarifyCard, Rescued

SameQuestion ==
  /\ clCard'.visible = clCard.visible /\ clCard'.sid = clCard.sid
  /\ clCard'.current = clCard.current
NewQuestion ==
  /\ clCard'.current \in ClQuestions
  /\ clCard'.sid = ClSession[clCard'.current] /\ clCard'.sid = clView'

LEMMA QuestionCases ==
  ASSUME ClInv, ClTypeOK',
         \/ ~clCard'.visible
         \/ SameQuestion /\ clView' = clView /\ clLoading' = clLoading
         \/ SameQuestion /\ clLoading'.phase # "none"
         \/ NewQuestion
  PROVE  ClCardInv'
<1>1. CASE ~clCard'.visible
  BY <1>1 DEF ClCardInv, QuestionOfView
<1>2. CASE SameQuestion /\ clView' = clView /\ clLoading' = clLoading
  BY <1>2 DEF ClInv, ClCardInv, QuestionOfView, SameQuestion
<1>3. CASE SameQuestion /\ clLoading'.phase # "none"
  BY <1>3 DEF ClInv, ClCardInv, QuestionOfView, SameQuestion
<1>4. CASE NewQuestion
  BY <1>4 DEF ClCardInv, QuestionOfView, NewQuestion
<1> QED
  BY <1>1, <1>2, <1>3, <1>4

(* showClarifyCard, called with the card as it is or with another. *)
LEMMA ShowQuestionCases ==
  ASSUME ClTypeOK, NEW q \in ClQuestions, NEW card \in ClCards,
         ShowClarifyCard(q, clView, card), clView' = clView
  PROVE  /\ clPending' \in [ClSessions -> Question]
         /\ clCard' \in ClCards
         /\ clCard' = card \/ NewQuestion
<1>1. clPending' \in [ClSessions -> Question]
  BY DEF ShowClarifyCard, ClTypeOK, Question
<1>2. CASE ClSession[q] # clView
  BY <1>1, <1>2 DEF ShowClarifyCard
<1>3. CASE ClSession[q] = clView
  <2> DEFINE draft == IF QuestionOn(card, q) THEN card.draft ELSE NoQuestion
             timer == IF QuestionOn(card, q) THEN card.timer ELSE NoQuestion
  <2>1. draft \in Question /\ timer \in Question /\ clView \in ClSid /\ q \in Question
    BY DEF ClCards, Question, ClSid, ClTypeOK
  <2>2. clCard' = [visible |-> TRUE, sid |-> clView, current |-> q,
                   disabled |-> FALSE, draft |-> draft, timer |-> timer]
    BY <1>3 DEF ShowClarifyCard
  <2> HIDE DEF draft, timer
  <2>3. clCard' \in ClCards
    BY <2>1, <2>2 DEF ClCards
  <2>4. NewQuestion
    BY <1>3, <2>2 DEF NewQuestion
  <2> QED
    BY <1>1, <2>3, <2>4
<1> QED
  BY <1>2, <1>3

LEMMA ClInitInv == ClInit => ClInv
<1> SUFFICES ASSUME ClInit PROVE ClInv
  OBVIOUS
<1>1. clWaiting \in [ClSessions -> Seq(ClQuestions)] /\ clAsked \in 0 .. Len(ClScript)
  BY ClAssumption DEF ClInit, ClAssumption
<1>2. /\ clRunning \subseteq ClSessions /\ clSending \in [sid: ClSid, polls: BOOLEAN]
      /\ clEvents \subseteq ClQuestions /\ clView \in ClSessions
  BY ClAssumption DEF ClInit, ClAssumption, ClNoSend, ClSid
<1>3. clLoading \in ClLoads /\ clPending \in [ClSessions -> Question]
  BY DEF ClInit, ClNoLoad, ClLoads, ClSid, Question
<1>4. clCard \in ClCards /\ ~clCard.visible
  BY NoCardType DEF ClInit
<1>5. clComposer \subseteq ClQuestions /\ clPosts \subseteq ClReplies
  BY DEF ClInit
<1>6. clPoll \in ClPolls /\ clAsks \subseteq ClFetches /\ clLeft \in ClBudget
  BY ClAssumption DEF ClInit, ClAssumption, ClPolls, ClSid, ClBudget
<1>7. ClTypeOK
  BY <1>1, <1>2, <1>3, <1>4, <1>5, <1>6, ClTypes
<1> QED
  BY <1>4, <1>7 DEF ClInv, ClCardInv, QuestionOfView, ClInit, ClNoSend, ClNoLoad

(* The steps of the timer and the user. *)
LEMMA ClCardStep ==
  ASSUME ClInv, ClHideTimer \/ TypeDraft \/ RespondClarify
  PROVE  ClCardInv'
<1>t. ClTypeOK /\ clCard \in ClCards /\ clComposer \subseteq ClQuestions
  BY ClTypes DEF ClInv, ClCardInv
<1>1. CASE ClHideTimer
  <2>1. clCard' \in ClCards /\ ~clCard'.visible /\ clComposer' \subseteq ClQuestions
    BY <1>1, <1>t, HidesCard DEF ClHideTimer
  <2>2. UNCHANGED <<clServer, clPage, clPending, clPosts, clPoll, clAsks, clLeft>>
    BY <1>1 DEF ClHideTimer
  <2>3. ClTypeOK'
    BY <1>t, <2>1, <2>2, ClTypes DEF clServer, clPage
  <2> QED
    BY <2>1, <2>3, QuestionCases
<1>2. CASE TypeDraft
  <2>1. clCard' \in ClCards /\ SameQuestion
    BY <1>2, <1>t DEF TypeDraft, SameQuestion, ClCards
  <2>2. clLeft' \in ClBudget
    BY <1>2, <1>t, ClBudgetTypes DEF TypeDraft
  <2>3. UNCHANGED <<clServer, clPage, clPending, clComposer, clPosts, clPoll, clAsks>>
    BY <1>2 DEF TypeDraft
  <2>4. ClTypeOK'
    BY <1>t, <2>1, <2>2, <2>3, ClTypes DEF clServer, clPage
  <2> QED
    BY <2>1, <2>3, <2>4, QuestionCases DEF clPage
<1>3. CASE RespondClarify
  <2> DEFINE post == [n |-> clLeft.acts, id |-> clCard.current, sid |-> clCard.sid,
                      reply |-> "none"]
  <2>1. clCard' \in ClCards /\ SameQuestion
    BY <1>3, <1>t DEF RespondClarify, SameQuestion, ClCards
  <2>2. post \in ClReplies
    <3>1. clCard.current \in ClQuestions /\ clCard.sid = ClSession[clCard.current]
      BY <1>3 DEF RespondClarify, ClInv, ClCardInv, QuestionOfView
    <3>2. clCard.sid \in ClSessions
      BY <3>1, ClAssumption DEF ClAssumption
    <3> QED
      BY <1>t, <3>1, <3>2, ClTypes DEF ClReplies, ClBudget
  <2>3. clPosts' = clPosts \cup {post}
    BY <1>3 DEF RespondClarify
  <2> HIDE DEF post
  <2>4. clPosts' \subseteq ClReplies
    BY <1>t, <2>2, <2>3, ClTypes
  <2>5. clLeft' \in ClBudget
    BY <1>3, <1>t, ClBudgetTypes DEF RespondClarify
  <2>6. UNCHANGED <<clServer, clPage, clPending, clComposer, clPoll, clAsks>>
    BY <1>3 DEF RespondClarify
  <2>7. ClTypeOK'
    BY <1>t, <2>1, <2>4, <2>5, <2>6, ClTypes DEF clServer, clPage
  <2> QED
    BY <2>1, <2>6, <2>7, QuestionCases DEF clPage
<1> QED
  BY <1>1, <1>2, <1>3

(* The steps of the agent and its stream. *)
LEMMA ClAgentStep ==
  ASSUME ClInv,
         \/ AgentAsksQuestion \/ \E q \in ClQuestions : ClarifyEvent(q)
         \/ \E s \in ClSessions : QuestionTimesOut(s) \/ ClTurnEnds(s)
  PROVE  ClCardInv'
<1>t. /\ ClTypeOK /\ clCard \in ClCards /\ clComposer \subseteq ClQuestions
      /\ clWaiting \in [ClSessions -> Seq(ClQuestions)]
  BY ClTypes DEF ClInv, ClCardInv
<1>1. CASE AgentAsksQuestion
  <2> DEFINE q == ClScript[clAsked + 1]
  <2>1. clAsked' \in 0 .. Len(ClScript) /\ q \in ClQuestions
    BY <1>1, <1>t, ClTypes, ClAssumption DEF AgentAsksQuestion, ClAssumption
  <2>2. clWaiting' = [clWaiting EXCEPT ![ClSession[q]] = Append(@, q)]
        /\ clEvents' = clEvents \cup {q}
    BY <1>1 DEF AgentAsksQuestion
  <2>3. clWaiting' \in [ClSessions -> Seq(ClQuestions)] /\ clEvents' \subseteq ClQuestions
    <3> HIDE DEF q
    <3>1. ClSession[q] \in ClSessions
      BY <2>1, ClAssumption DEF ClAssumption
    <3>2. Append(clWaiting[ClSession[q]], q) \in Seq(ClQuestions)
      BY <1>t, <2>1, <3>1
    <3> QED
      BY <1>t, <2>1, <2>2, <3>1, <3>2, ClTypes
  <2>4. UNCHANGED <<clRunning, clSending, clPage, clPending, clCard, clComposer,
                    clPosts, clPoll, clAsks, clLeft>>
    BY <1>1 DEF AgentAsksQuestion
  <2>5. ClTypeOK'
    BY <1>t, <2>1, <2>3, <2>4, ClTypes DEF clPage
  <2> QED
    BY <2>4, <2>5, QuestionCases DEF SameQuestion, clPage
<1>2. ASSUME NEW q \in ClQuestions, ClarifyEvent(q) PROVE ClCardInv'
  <2>1. /\ clEvents' \subseteq ClQuestions /\ ShowClarifyCard(q, clView, clCard)
        /\ UNCHANGED <<clWaiting, clAsked, clRunning, clSending, clPage, clComposer,
                       clPosts, clPoll, clAsks, clLeft>>
    BY <1>2, <1>t, ClTypes DEF ClarifyEvent
  <2>2. clView' = clView /\ clLoading' = clLoading
    BY <2>1 DEF clPage
  <2>3. /\ clPending' \in [ClSessions -> Question] /\ clCard' \in ClCards
        /\ clCard' = clCard \/ NewQuestion
    BY <1>t, <2>1, <2>2, ShowQuestionCases
  <2>4. ClTypeOK'
    BY <1>t, <2>1, <2>3, ClTypes DEF clPage
  <2> QED
    BY <2>2, <2>3, <2>4, QuestionCases DEF SameQuestion
<1>3. ASSUME NEW s \in ClSessions, QuestionTimesOut(s) PROVE ClCardInv'
  <2>1. Tail(clWaiting[s]) \in Seq(ClQuestions)
    BY <1>3, <1>t DEF QuestionTimesOut
  <2>2. clWaiting' \in [ClSessions -> Seq(ClQuestions)]
    BY <1>3, <1>t, <2>1 DEF QuestionTimesOut
  <2>3. UNCHANGED <<clAsked, clRunning, clSending, clEvents, clPage, clPending, clCard,
                    clComposer, clPosts, clPoll, clAsks, clLeft>>
    BY <1>3 DEF QuestionTimesOut
  <2>4. ClTypeOK'
    BY <1>t, <2>2, <2>3, ClTypes DEF clPage
  <2> QED
    BY <2>3, <2>4, QuestionCases DEF SameQuestion, clPage
<1>4. ASSUME NEW s \in ClSessions, ClTurnEnds(s) PROVE ClCardInv'
  <2>1. clRunning' \subseteq ClSessions /\ clEvents' \subseteq ClQuestions
    BY <1>4, <1>t, ClTypes DEF ClTurnEnds
  <2>2. clWaiting' \in [ClSessions -> Seq(ClQuestions)]
        /\ clPending' \in [ClSessions -> Question]
    <3>1. << >> \in Seq(ClQuestions) /\ NoQuestion \in Question
      BY DEF Question
    <3> QED
      BY <1>4, <1>t, <3>1, ClTypes DEF ClTurnEnds
  <2>3. clPoll' \in ClPolls
    BY <1>4, <1>t, ClTypes, ClPollTypes DEF ClTurnEnds
  <2>4. HideClarifyCard(clCard, "terminal") \/ UNCHANGED <<clCard, clComposer>>
    BY <1>4 DEF ClTurnEnds
  <2>5. UNCHANGED <<clAsked, clSending, clPage, clPosts, clAsks, clLeft>>
    BY <1>4 DEF ClTurnEnds
  <2>6. clCard' \in ClCards /\ clComposer' \subseteq ClQuestions
        /\ (clCard' = clCard \/ ~clCard'.visible)
    BY <1>t, <2>4, HidesCard
  <2>7. ClTypeOK'
    BY <1>t, <2>1, <2>2, <2>3, <2>5, <2>6, ClTypes DEF clPage
  <2> QED
    BY <2>5, <2>6, <2>7, QuestionCases DEF SameQuestion, clPage
<1> QED
  BY <1>1, <1>2, <1>3, <1>4

(* The steps of the poll and of send(). *)
LEMMA ClPollStep ==
  ASSUME ClInv, \/ ClPollTick \/ ClSendBegins \/ ClSendStarted
                \/ \E s \in ClSessions : ClSendPolls(s)
  PROVE  ClCardInv'
<1>t. /\ ClTypeOK /\ clCard \in ClCards /\ clComposer \subseteq ClQuestions
      /\ clAsks \subseteq ClFetches /\ clPoll \in ClPolls
      /\ clSending \in [sid: ClSid, polls: BOOLEAN]
  BY ClTypes DEF ClInv, ClCardInv
<1>p. ASSUME NEW s \in ClSessions, StartClarifyPolling(s)
      PROVE  clPoll' \in ClPolls /\ clAsks' \subseteq ClFetches
  BY <1>p, <1>t, ClPollTypes DEF StartClarifyPolling
<1>h. ASSUME NEW reason, HideClarifyCard(clCard, reason) \/ UNCHANGED <<clCard, clComposer>>
      PROVE  /\ clCard' \in ClCards /\ clComposer' \subseteq ClQuestions
             /\ clCard' = clCard \/ ~clCard'.visible
  BY <1>h, <1>t, HidesCard
<1>1. CASE ClPollTick
  <2>1. /\ HideClarifyCard(clCard, "session") \/ UNCHANGED <<clCard, clComposer>>
        /\ clPoll' \in ClPolls /\ clAsks' \subseteq ClFetches
    <3>1. CASE clPoll.sid # clView
      BY <1>1, <1>t, <3>1, ClPollTypes DEF ClPollTick
    <3>2. CASE clPoll.sid = clView
      <4>1. clPoll.sid \in ClSessions
        BY <1>t, <3>2, ClTypes
      <4> QED
        BY <1>1, <1>p, <3>2, <4>1 DEF ClPollTick
    <3> QED
      BY <3>1, <3>2
  <2>2. UNCHANGED <<clServer, clPage, clPending, clPosts, clLeft>>
    BY <1>1 DEF ClPollTick
  <2>3. /\ clCard' \in ClCards /\ clComposer' \subseteq ClQuestions
        /\ clCard' = clCard \/ ~clCard'.visible
    BY <1>h, <2>1
  <2>4. ClTypeOK'
    BY <1>t, <2>1, <2>2, <2>3, ClTypes DEF clServer, clPage
  <2> QED
    BY <2>2, <2>3, <2>4, QuestionCases DEF SameQuestion, clPage
<1>2. CASE ClSendBegins
  <2>1. clSending' \in [sid: ClSid, polls: BOOLEAN] /\ clLeft' \in ClBudget
    BY <1>2, <1>t, ClTypes, ClBudgetTypes DEF ClSendBegins, ClSid
  <2>2. UNCHANGED <<clWaiting, clAsked, clRunning, clEvents, clPage, clPending, clCard,
                    clComposer, clPosts, clPoll, clAsks>>
    BY <1>2 DEF ClSendBegins
  <2>3. ClTypeOK'
    BY <1>t, <2>1, <2>2, ClTypes DEF clPage
  <2> QED
    BY <2>2, <2>3, QuestionCases DEF SameQuestion, clPage
<1>3. CASE ClSendStarted
  <2>1. clSending' \in [sid: ClSid, polls: BOOLEAN] /\ clPoll' \in ClPolls
    BY <1>3, <1>t, ClPollTypes DEF ClSendStarted, ClNoSend, ClSid
  <2>2. /\ HideClarifyCard(clCard, "terminal") \/ UNCHANGED <<clCard, clComposer>>
        /\ clRunning' \in {clRunning, clRunning \cup {clSending.sid}}
    BY <1>3 DEF ClSendStarted
  <2>3. UNCHANGED <<clWaiting, clAsked, clEvents, clPage, clPending, clPosts, clAsks, clLeft>>
    BY <1>3 DEF ClSendStarted
  <2>4. /\ clCard' \in ClCards /\ clComposer' \subseteq ClQuestions
        /\ clCard' = clCard \/ ~clCard'.visible
    BY <1>h, <2>2
  <2>5. clRunning' \subseteq ClSessions
    BY <1>3, <1>t, <2>2, ClTypes DEF ClSendStarted, ClInv
  <2>6. ClTypeOK'
    BY <1>t, <2>1, <2>3, <2>4, <2>5, ClTypes DEF clPage
  <2> QED
    BY <2>3, <2>4, <2>6, QuestionCases DEF SameQuestion, clPage
<1>4. ASSUME NEW s \in ClSessions, ClSendPolls(s) PROVE ClCardInv'
  <2>1. clSending' \in [sid: ClSid, polls: BOOLEAN]
    BY <1>4, <1>t DEF ClSendPolls
  <2>2. /\ HideClarifyCard(clCard, "session") \/ UNCHANGED <<clCard, clComposer>>
        /\ clPoll' \in ClPolls /\ clAsks' \subseteq ClFetches
    BY <1>4, <1>t, <1>p, ClPollTypes DEF ClSendPolls
  <2>3. UNCHANGED <<clWaiting, clAsked, clRunning, clEvents, clPage, clPending, clPosts,
                    clLeft>>
    BY <1>4 DEF ClSendPolls
  <2>4. /\ clCard' \in ClCards /\ clComposer' \subseteq ClQuestions
        /\ clCard' = clCard \/ ~clCard'.visible
    BY <1>h, <2>2
  <2>5. ClTypeOK'
    BY <1>t, <2>1, <2>2, <2>3, <2>4, ClTypes DEF clPage
  <2> QED
    BY <2>3, <2>4, <2>5, QuestionCases DEF SameQuestion, clPage
<1> QED
  BY <1>1, <1>2, <1>3, <1>4

(* The requests for the pending question and the answers, at the server. *)
LEMMA ClServeStep ==
  ASSUME ClInv, \/ \E r \in clAsks : ServeClarifyAsk(r)
                \/ \E p \in clPosts : ServeClarifyPost(p)
  PROVE  ClCardInv'
<1>t. /\ ClTypeOK /\ clWaiting \in [ClSessions -> Seq(ClQuestions)]
      /\ clAsks \subseteq ClFetches /\ clPosts \subseteq ClReplies /\ clLeft \in ClBudget
  BY ClTypes DEF ClInv, ClCardInv
<1>1. ASSUME NEW r \in clAsks, ServeClarifyAsk(r) PROVE ClCardInv'
  <2> DEFINE found == IF clWaiting[r.sid] = << >> THEN NoQuestion ELSE Head(clWaiting[r.sid])
  <2>1. r \in ClFetches
    BY <1>t
  <2>2. found \in Question
    <3>1. clWaiting[r.sid] \in Seq(ClQuestions)
      BY <1>t, <2>1 DEF ClFetches
    <3> QED
      BY <3>1, HeadType DEF Question
  <2> HIDE DEF found
  <2>3. /\ [r EXCEPT !.phase = "answered", !.found = found] \in ClFetches
        /\ \A phase \in {"lost", "gone"} : [r EXCEPT !.phase = phase] \in ClFetches
    BY <2>1, <2>2 DEF ClFetches
  <2>4. \/ clAsks' = (clAsks \ {r}) \cup {[r EXCEPT !.phase = "answered", !.found = found]}
        \/ \E phase \in {"lost", "gone"} :
             clAsks' = (clAsks \ {r}) \cup {[r EXCEPT !.phase = phase]}
    BY <1>1 DEF ServeClarifyAsk, found
  <2>5. clAsks' \subseteq ClFetches
    BY <1>t, <2>3, <2>4
  <2>6. clLeft' \in ClBudget
    BY <1>1, <1>t, ClBudgetTypes DEF ServeClarifyAsk
  <2>7. UNCHANGED <<clServer, clPage, clPending, clCard, clComposer, clPosts, clPoll>>
    BY <1>1 DEF ServeClarifyAsk
  <2>8. ClTypeOK'
    BY <1>t, <2>5, <2>6, <2>7, ClTypes DEF clServer, clPage
  <2> QED
    BY <2>7, <2>8, QuestionCases DEF SameQuestion, clPage
<1>2. ASSUME NEW p \in clPosts, ServeClarifyPost(p) PROVE ClCardInv'
  <2> DEFINE served == [clWaiting EXCEPT ![p.sid] = RemoveFirst(@, p.id)]
             ok == IF Contains(clWaiting[p.sid], p.id) THEN "ok" ELSE "expired"
  <2>1. p \in ClReplies /\ p.sid \in ClSessions
    BY <1>t DEF ClReplies
  <2>2. served \in [ClSessions -> Seq(ClQuestions)]
    <3>1. RemoveFirst(clWaiting[p.sid], p.id) \in Seq(ClQuestions)
      BY <1>t, <2>1, RemoveFirstType
    <3> QED
      BY <1>t, <2>1, <3>1
  <2>3. ok \in {"ok", "expired"}
    OBVIOUS
  <2>4. \/ /\ clPosts' = (clPosts \ {p}) \cup {[p EXCEPT !.reply = ok]}
           /\ clWaiting' = served /\ UNCHANGED clLeft
        \/ /\ clPosts' = (clPosts \ {p}) \cup {[p EXCEPT !.reply = "error"]}
           /\ clWaiting' \in {clWaiting, served}
           /\ clLeft.losses > 0 /\ clLeft' = [clLeft EXCEPT !.losses = @ - 1]
    BY <1>2 DEF ServeClarifyPost
  <2> HIDE DEF served, ok
  <2>5. [p EXCEPT !.reply = ok] \in ClReplies /\ [p EXCEPT !.reply = "error"] \in ClReplies
    BY <2>1, <2>3 DEF ClReplies
  <2>6. clPosts' \subseteq ClReplies /\ clWaiting' \in [ClSessions -> Seq(ClQuestions)]
    BY <1>t, <2>2, <2>4, <2>5
  <2>7. clLeft' \in ClBudget
    BY <1>t, <2>4, ClBudgetTypes
  <2>8. UNCHANGED <<clAsked, clRunning, clSending, clEvents, clPage, clPending, clCard,
                    clComposer, clPoll, clAsks>>
    BY <1>2 DEF ServeClarifyPost
  <2>9. ClTypeOK'
    BY <1>t, <2>6, <2>7, <2>8, ClTypes DEF clPage
  <2> QED
    BY <2>8, <2>9, QuestionCases DEF SameQuestion, clPage
<1> QED
  BY <1>1, <1>2

(* The answers to a poll. *)
LEMMA ClTakeStep ==
  ASSUME ClInv, NEW r \in clAsks, TakeClarifyAsk(r)
  PROVE  ClCardInv'
<1>t. /\ ClTypeOK /\ clCard \in ClCards /\ clComposer \subseteq ClQuestions
      /\ clAsks \subseteq ClFetches /\ clPoll \in ClPolls
      /\ clPending \in [ClSessions -> Question]
  BY ClTypes DEF ClInv, ClCardInv
<1>1. r \in ClFetches /\ r.sid \in ClSessions /\ r.found \in Question
  BY <1>t DEF ClFetches
<1>2. clAsks' \subseteq ClFetches /\ UNCHANGED <<clServer, clPage, clPosts, clLeft>>
  BY <1>t DEF TakeClarifyAsk
<1>3. clView' = clView /\ clLoading' = clLoading
  BY <1>2 DEF clPage
<1>4. clPoll' \in ClPolls
  BY <1>t, ClPollTypes DEF TakeClarifyAsk
<1>5. CASE r.found # NoQuestion /\ ShowClarifyCard(r.found, clView, clCard)
           /\ UNCHANGED clComposer
  <2>1. r.found \in ClQuestions
    BY <1>1, <1>5 DEF Question
  <2>2. /\ clPending' \in [ClSessions -> Question] /\ clCard' \in ClCards
        /\ clCard' = clCard \/ NewQuestion
    BY <1>t, <1>3, <1>5, <2>1, ShowQuestionCases
  <2>3. ClTypeOK'
    BY <1>t, <1>2, <1>4, <1>5, <2>2, ClTypes DEF clServer, clPage
  <2> QED
    BY <1>3, <2>2, <2>3, QuestionCases DEF SameQuestion
<1>6. ASSUME NEW reason, clPending' \in {clPending, [clPending EXCEPT ![r.sid] = NoQuestion]},
             HideClarifyCard(clCard, reason) \/ UNCHANGED <<clCard, clComposer>>
      PROVE  ClCardInv'
  <2>1. /\ clCard' \in ClCards /\ clComposer' \subseteq ClQuestions
        /\ clCard' = clCard \/ ~clCard'.visible
    BY <1>6, <1>t, HidesCard
  <2>2. clPending' \in [ClSessions -> Question]
    BY <1>6, <1>t DEF Question
  <2>3. ClTypeOK'
    BY <1>t, <1>2, <1>4, <2>1, <2>2, ClTypes DEF clServer, clPage
  <2> QED
    BY <1>3, <2>1, <2>3, QuestionCases DEF SameQuestion
<1>7. \/ r.found # NoQuestion /\ ShowClarifyCard(r.found, clView, clCard)
         /\ UNCHANGED clComposer
      \/ \E reason : /\ clPending' \in {clPending, [clPending EXCEPT ![r.sid] = NoQuestion]}
                     /\ HideClarifyCard(clCard, reason) \/ UNCHANGED <<clCard, clComposer>>
  BY DEF TakeClarifyAsk, Dropped
<1> QED
  BY <1>5, <1>6, <1>7

(* The replies to an answer. *)
LEMMA ClReplyStep ==
  ASSUME ClInv, \E p \in clPosts : TakeClarifyReply(p) \/ TakeClarifyError(p)
  PROVE  ClCardInv'
<1>t. /\ ClTypeOK /\ clCard \in ClCards /\ clComposer \subseteq ClQuestions
      /\ clPosts \subseteq ClReplies /\ clPending \in [ClSessions -> Question]
  BY ClTypes DEF ClInv, ClCardInv
<1>1. ASSUME NEW p \in clPosts, TakeClarifyReply(p) PROVE ClCardInv'
  <2> DEFINE card == [clCard EXCEPT !.disabled = p.reply = "ok"]
             freed == [clCard EXCEPT !.disabled = FALSE]
  <2>1. p \in ClReplies /\ p.sid \in ClSessions
    BY <1>t DEF ClReplies
  <2>2. card \in ClCards
    <3>1. (p.reply = "ok") \in BOOLEAN
      OBVIOUS
    <3> QED
      BY <1>t, <3>1 DEF ClCards
  <2>3. /\ freed \in ClCards /\ freed.visible = clCard.visible
        /\ freed.sid = clCard.sid /\ freed.current = clCard.current
    BY <1>t DEF ClCards
  <2>4. /\ clPosts' = clPosts \ {p}
        /\ UNCHANGED <<clServer, clPage, clPoll, clAsks, clLeft>>
    BY <1>1 DEF TakeClarifyReply
  <2>5. \/ /\ clPending' = [clPending EXCEPT ![p.sid] = NoQuestion]
           /\ \E reason : HideClarifyCard(card, reason)
        \/ clCard' \in {clCard, freed} /\ UNCHANGED <<clPending, clComposer>>
    BY <1>1 DEF TakeClarifyReply, Dropped
  <2> HIDE DEF card, freed
  <2>6. clPending' \in [ClSessions -> Question]
    BY <1>t, <2>1, <2>5 DEF Question
  <2>7. /\ clCard' \in ClCards /\ clComposer' \subseteq ClQuestions
        /\ ~clCard'.visible \/ SameQuestion
    BY <1>t, <2>2, <2>3, <2>5, HidesCard DEF SameQuestion
  <2>8. ClTypeOK'
    BY <1>t, <2>4, <2>6, <2>7, ClTypes DEF clServer, clPage
  <2> QED
    BY <2>4, <2>7, <2>8, QuestionCases DEF clPage
<1>2. ASSUME NEW p \in clPosts, TakeClarifyError(p) PROVE ClCardInv'
  <2>1. p \in ClReplies /\ p.id \in Question
    BY <1>t DEF ClReplies, Question
  <2>2. clCard' \in ClCards /\ SameQuestion
    <3> DEFINE draft == IF clCard.visible THEN p.id ELSE clCard.draft
               freed == [clCard EXCEPT !.disabled = FALSE]
    <3>1. /\ freed \in ClCards /\ freed.visible = clCard.visible
          /\ freed.sid = clCard.sid /\ freed.current = clCard.current
          /\ freed.draft = clCard.draft
      BY <1>t DEF ClCards
    <3>2. draft \in Question
      BY <1>t, <2>1 DEF ClCards
    <3>3. clCard' = [freed EXCEPT !.draft = draft]
      BY <1>2, <3>1 DEF TakeClarifyError
    <3> HIDE DEF draft, freed
    <3> QED
      BY <3>1, <3>2, <3>3 DEF ClCards, SameQuestion
  <2>3. /\ clPosts' = clPosts \ {p}
        /\ UNCHANGED <<clServer, clPage, clPending, clComposer, clPoll, clAsks, clLeft>>
    BY <1>2 DEF TakeClarifyError
  <2>4. ClTypeOK'
    BY <1>t, <2>2, <2>3, ClTypes DEF clServer, clPage
  <2> QED
    BY <2>2, <2>3, <2>4, QuestionCases DEF clPage
<1> QED
  BY <1>1, <1>2

(* loadSession. *)
LEMMA ClLoadingStep ==
  ASSUME ClInv, ClLoadStep \/ \E s \in ClSessions : ClLoadSession(s)
  PROVE  ClCardInv'
<1>t. /\ ClTypeOK /\ clCard \in ClCards /\ clComposer \subseteq ClQuestions
      /\ clView \in ClSessions /\ clAsks \subseteq ClFetches /\ clPoll \in ClPolls
      /\ clPending \in [ClSessions -> Question] /\ clLoading \in ClLoads
  BY ClTypes DEF ClInv, ClCardInv
<1>1. ASSUME NEW s \in ClSessions, ClLoadSession(s) PROVE ClCardInv'
  <2>1. /\ clLeft' \in ClBudget /\ clPoll' \in ClPolls
        /\ clLoading' \in ClLoads /\ clLoading'.phase # "none"
    BY <1>1, <1>t, ClPollTypes, ClBudgetTypes DEF ClLoadSession, ClNoLoad, ClLoads, ClSid
  <2>2. /\ clCard' \in ClCards /\ clComposer' \subseteq ClQuestions
        /\ ~clCard'.visible \/ SameQuestion
    <3>1. CASE HideClarifyCard(clCard, "dismissed")
      BY <1>t, <3>1, HidesCard
    <3>2. CASE HideTimerSet /\ UNCHANGED clComposer
      BY <1>t, <3>2 DEF HideTimerSet, SameQuestion, ClCards
    <3> QED
      BY <1>1, <3>1, <3>2 DEF ClLoadSession
  <2>3. UNCHANGED <<clServer, clView, clPending, clPosts, clAsks>>
    BY <1>1 DEF ClLoadSession
  <2>4. ClTypeOK'
    BY <1>t, <2>1, <2>2, <2>3, ClTypes DEF clServer
  <2> QED
    BY <2>1, <2>2, <2>4, QuestionCases
<1>2. CASE ClLoadMetadata
  <2>1. clView' \in ClSessions
    BY <1>2 DEF ClLoadMetadata, ClInv
  <2>2. clLoading' \in ClLoads /\ clLoading'.phase # "none"
    <3>1. (clLoading.sid \in clRunning) \in BOOLEAN
      OBVIOUS
    <3> QED
      BY <1>2, <1>t, <3>1 DEF ClLoadMetadata, ClLoads
  <2>3. UNCHANGED <<clServer, clPending, clCard, clComposer, clPosts, clPoll, clAsks, clLeft>>
    BY <1>2 DEF ClLoadMetadata
  <2>4. ClTypeOK'
    BY <1>t, <2>1, <2>2, <2>3, ClTypes DEF clServer
  <2> QED
    BY <2>2, <2>3, <2>4, QuestionCases DEF SameQuestion
<1>3. CASE ClLoadDone
  <2> DEFINE card == IF clCard.sid \in {NoQuestion, clView} THEN clCard ELSE ClNoCard
  <2>1. clLoading' \in ClLoads
    BY <1>3 DEF ClLoadDone, ClNoLoad, ClLoads, ClSid
  <2>2. clPoll' \in ClPolls /\ clAsks' \subseteq ClFetches
    BY <1>3, <1>t, ClPollTypes DEF ClLoadDone, StartClarifyPolling
  <2>3. UNCHANGED <<clServer, clView, clComposer, clPosts, clLeft>>
    BY <1>3 DEF ClLoadDone
  <2>4. \/ clCard' = card /\ UNCHANGED clPending
        \/ /\ clPending[clView] # NoQuestion
           /\ ShowClarifyCard(clPending[clView], clView, card)
    BY <1>3 DEF ClLoadDone
  \* A visible card that stays is one of the session on the screen.
  <2>5. card \in ClCards /\ (~card.visible \/ (card = clCard /\ clCard.sid = clView))
    <3>1. clCard.visible => clCard.sid # NoQuestion
      BY ClAssumption DEF ClInv, ClCardInv, QuestionOfView, ClAssumption
    <3> QED
      BY <1>t, <3>1, NoCardType
  <2> HIDE DEF card
  <2>6. clView' = clView
    BY <2>3
  <2>7. /\ clCard' \in ClCards /\ clPending' \in [ClSessions -> Question]
        /\ clCard' = card \/ NewQuestion
    <3>1. CASE clCard' = card /\ UNCHANGED clPending
      BY <1>t, <2>5, <3>1
    <3>2. CASE /\ clPending[clView] # NoQuestion
               /\ ShowClarifyCard(clPending[clView], clView, card)
      <4>1. clPending[clView] \in ClQuestions
        BY <1>t, <3>2 DEF Question
      <4> QED
        BY <1>t, <2>5, <2>6, <3>2, <4>1, ShowQuestionCases
    <3> QED
      BY <2>4, <3>1, <3>2
  <2>8. ClTypeOK'
    BY <1>t, <2>1, <2>2, <2>3, <2>7, ClTypes DEF clServer
  <2>9. ~clCard'.visible \/ NewQuestion
    <3>1. CASE clCard' = clCard /\ clCard.visible /\ clCard.sid = clView
      BY <2>6, <3>1 DEF NewQuestion, ClInv, ClCardInv, QuestionOfView
    <3> QED
      BY <2>5, <2>7, <3>1
  <2> QED
    BY <2>8, <2>9, QuestionCases
<1> QED
  BY <1>1, <1>2, <1>3 DEF ClLoadStep

LEMMA ClSendingKept ==
  ASSUME ClNext
  PROVE  \/ clSending' = clSending \/ ClSendBegins \/ ClSendStarted
         \/ \E s \in ClSessions : ClSendPolls(s)
BY DEF ClNext, ClHideTimer, TypeDraft, ClPollTick, RespondClarify, AgentAsksQuestion,
  ClarifyEvent, QuestionTimesOut, ClTurnEnds, ClLoadSession, ServeClarifyAsks,
  ServeClarifyAsk, TakeClarifyAsks, TakeClarifyAsk, ServeClarifyPosts, ServeClarifyPost,
  TakeClarifyReplies, TakeClarifyReply, TakeClarifyError, ClLoadStep, ClLoadMetadata,
  ClLoadDone, clServer

LEMMA ClLoadingKept ==
  ASSUME ClNext
  PROVE  \/ clLoading' = clLoading \/ ClLoadMetadata \/ ClLoadDone
         \/ \E s \in ClSessions : ClLoadSession(s)
BY DEF ClNext, ClHideTimer, TypeDraft, ClPollTick, RespondClarify, AgentAsksQuestion,
  ClarifyEvent, QuestionTimesOut, ClTurnEnds, ClSendBegins, ClSendStarted, ClSendPolls,
  ServeClarifyAsks, ServeClarifyAsk, TakeClarifyAsks, TakeClarifyAsk, ServeClarifyPosts,
  ServeClarifyPost, TakeClarifyReplies, TakeClarifyReply, TakeClarifyError, ClLoadStep,
  clPage

LEMMA ClPostsKept ==
  ASSUME ClNext
  PROVE  \/ clPosts' = clPosts \/ RespondClarify
         \/ \E p \in clPosts :
              ServeClarifyPost(p) \/ TakeClarifyReply(p) \/ TakeClarifyError(p)
BY DEF ClNext, ClHideTimer, TypeDraft, ClPollTick, AgentAsksQuestion, ClarifyEvent,
  QuestionTimesOut, ClTurnEnds, ClSendBegins, ClSendStarted, ClSendPolls,
  ServeClarifyAsks, ServeClarifyAsk, TakeClarifyAsks, TakeClarifyAsk, ServeClarifyPosts,
  TakeClarifyReplies, ClLoadSession, ClLoadStep, ClLoadMetadata, ClLoadDone

LEMMA ClStepInv == ClInv /\ [ClNext]_clVars => ClInv'
<1> SUFFICES ASSUME ClInv, [ClNext]_clVars PROVE ClInv'
  OBVIOUS
<1>1. CASE UNCHANGED clVars
  BY <1>1 DEF clVars, ClInv, ClCardInv, ClTypeOK, QuestionOfView
<1>2. CASE ClNext
  <2>1. ClCardInv'
    BY <1>2, ClCardStep, ClAgentStep, ClPollStep, ClServeStep, ClTakeStep, ClReplyStep,
       ClLoadingStep
    DEF ClNext, ServeClarifyAsks, TakeClarifyAsks, ServeClarifyPosts, TakeClarifyReplies
  <2>2. clSending'.polls => clSending'.sid \in ClSessions
    <3>1. ASSUME NEW s \in ClSessions, ClSendPolls(s) PROVE clSending'.sid \in ClSessions
      <4>1. clSending = [sid |-> s, polls |-> FALSE]
            /\ clSending' = [clSending EXCEPT !.polls = TRUE]
        BY <3>1 DEF ClSendPolls
      <4> QED
        BY <4>1
    <3>2. CASE ClSendBegins \/ ClSendStarted
      BY <3>2 DEF ClSendBegins, ClSendStarted, ClNoSend
    <3> QED
      BY <1>2, <3>1, <3>2, ClSendingKept DEF ClInv
  <2>3. clLoading'.phase # "none" => clLoading'.sid \in ClSessions
    <3>1. clLoading \in ClLoads
      BY ClTypes DEF ClInv, ClCardInv
    <3>2. ASSUME NEW s \in ClSessions, ClLoadSession(s) PROVE clLoading'.sid \in ClSessions
      BY <3>2 DEF ClLoadSession, ClNoLoad
    <3>3. CASE ClLoadMetadata
      BY <3>1, <3>3 DEF ClLoadMetadata, ClInv, ClLoads
    <3>4. CASE ClLoadDone
      BY <3>4 DEF ClLoadDone, ClNoLoad
    <3> QED
      BY <1>2, <3>2, <3>3, <3>4, ClLoadingKept DEF ClInv
  <2> QED
    BY <2>1, <2>2, <2>3 DEF ClInv
<1> QED
  BY <1>1, <1>2

(* What AnswerKeepsNewerQuestion says of a step. *)
AnswerSparesQuestion ==
  \A p \in clPosts :
    /\ \A q \in clPosts' : q.n # p.n
    /\ clCard.visible /\ clCard.current # p.id
    => clCard'.visible /\ clCard'.current = clCard.current

LEMMA AnswerSparesQuestionStep ==
  ASSUME ClInv, [ClNext]_clVars
  PROVE  AnswerSparesQuestion
<1> SUFFICES ASSUME NEW p \in clPosts, \A q \in clPosts' : q.n # p.n,
                    clCard.visible, clCard.current # p.id
             PROVE  clCard'.visible /\ clCard'.current = clCard.current
  BY DEF AnswerSparesQuestion
<1>0. p \notin clPosts' /\ clCard \in ClCards
  BY ClTypes DEF ClInv, ClCardInv
<1>1. CASE clPosts' = clPosts \/ RespondClarify
  BY <1>0, <1>1 DEF RespondClarify
<1>2. ASSUME NEW r \in clPosts,
             ServeClarifyPost(r) \/ TakeClarifyReply(r) \/ TakeClarifyError(r)
      PROVE  clCard'.visible /\ clCard'.current = clCard.current
  <2>1. r = p
    BY <1>0, <1>2 DEF ServeClarifyPost, TakeClarifyReply, TakeClarifyError
  <2>2. CASE ServeClarifyPost(p)
    <3>1. p \in ClReplies
      BY ClTypes DEF ClInv, ClCardInv
    <3>2. \E reply : [p EXCEPT !.reply = reply] \in clPosts'
      BY <2>2 DEF ServeClarifyPost
    <3>3. PICK reply : [p EXCEPT !.reply = reply] \in clPosts'
      BY <3>2
    <3>4. [p EXCEPT !.reply = reply].n = p.n
      BY <3>1 DEF ClReplies
    <3> QED
      BY <3>3, <3>4
  <2>3. CASE TakeClarifyReply(p)
    BY <1>0, <2>3 DEF TakeClarifyReply, ClCards
  <2>4. CASE TakeClarifyError(p)
    BY <1>0, <2>4 DEF TakeClarifyError, ClCards
  <2> QED
    BY <1>2, <2>1, <2>2, <2>3, <2>4
<1>3. CASE UNCHANGED clVars
  BY <1>0, <1>3 DEF clVars
<1> QED
  BY <1>1, <1>2, <1>3, ClPostsKept

(* Two answers in flight have different numbers: each takes the number of   *)
(* acts that are left.                                                      *)
ApNumbered ==
  \A p \in apPosts : p.n > apLeft.acts /\ \A q \in apPosts : q.n = p.n => q = p

LEMMA ApActsFall ==
  ASSUME apLeft \in ApBudget, ApNext
  PROVE  apLeft' \in ApBudget => apLeft'.acts <= apLeft.acts
<1>1. \/ apLeft' = apLeft \/ apLeft' = [apLeft EXCEPT !.acts = @ - 1] \/ apLeft' = [apLeft EXCEPT !.losses = @ - 1]
  BY DEF ApNext, HideTimer, DismissApprovalCard, PollTick, Respond, AgentAsks, ApprovalEvent,
  ListReconciles, TurnEnds, SendBegins, SendStarted, SendPolls, ServeAsks, ServeAsk,
  TakeAsks, TakePoll, TakeRefetch, ServePosts, ServePost, TakeReplies, TakeStrayReply,
  TakeAccepted, TakeRefused, LoadSession, LoadStep, LoadMetadata, LoadDone
<1> QED
  BY <1>1 DEF ApBudget

LEMMA ApNumberedStep ==
  ASSUME ApInv, ApInv', ApNumbered, [ApNext]_apVars
  PROVE  ApNumbered'
<1>t. apLeft \in ApBudget /\ apLeft' \in ApBudget /\ apPosts \subseteq ApReplies
  BY ApTypes DEF ApInv, ApCardInv
<1>1. CASE UNCHANGED apVars
  BY <1>1 DEF apVars, ApNumbered
<1>2. CASE ApNext
  <2>1. apLeft'.acts <= apLeft.acts
    BY <1>2, <1>t, ApActsFall
  <2>2. \A p \in apPosts : p.n \in Nat /\ p.n > apLeft'.acts
    BY <1>t, <2>1 DEF ApNumbered, ApReplies, ApBudget
  <2>3. CASE apPosts' \subseteq apPosts
    BY <2>2, <2>3 DEF ApNumbered
  <2>4. CASE Respond
    <3>1. PICK new : /\ apPosts' = apPosts \cup {new} /\ new.n = apLeft.acts
                     /\ apLeft.acts > 0 /\ apLeft' = [apLeft EXCEPT !.acts = @ - 1]
      BY <2>4 DEF Respond
    <3>2. new.n > apLeft'.acts
      BY <1>t, <3>1 DEF ApBudget
    <3>3. \A p \in apPosts : p.n # new.n
      BY <1>t, <3>1 DEF ApNumbered, ApReplies, ApBudget
    <3> QED
      BY <2>2, <3>1, <3>2, <3>3 DEF ApNumbered
  <2>5. ASSUME NEW p \in apPosts, ServePost(p) PROVE ApNumbered'
    <3>1. \E reply : apPosts' = (apPosts \ {p}) \cup {[p EXCEPT !.reply = reply]}
      BY <2>5 DEF ServePost
    <3>2. PICK reply : apPosts' = (apPosts \ {p}) \cup {[p EXCEPT !.reply = reply]}
      BY <3>1
    <3>3. [p EXCEPT !.reply = reply].n = p.n
      BY <1>t DEF ApReplies
    <3>4. \A q \in apPosts \ {p} : q.n # p.n
      BY DEF ApNumbered
    <3> QED
      BY <2>2, <3>2, <3>3, <3>4 DEF ApNumbered
  <2>6. ASSUME NEW p \in apPosts, TakeStrayReply(p) \/ TakeAccepted(p) \/ TakeRefused(p)
        PROVE  apPosts' \subseteq apPosts
    BY <2>6 DEF TakeStrayReply, TakeAccepted, TakeRefused
  <2> QED
    BY <1>2, <2>3, <2>4, <2>5, <2>6, PostsKept
<1> QED
  BY <1>1, <1>2

(* Two answers in flight have different numbers: each takes the number of   *)
(* acts that are left.                                                      *)
ClNumbered ==
  \A p \in clPosts : p.n > clLeft.acts /\ \A q \in clPosts : q.n = p.n => q = p

LEMMA ClActsFall ==
  ASSUME clLeft \in ClBudget, ClNext
  PROVE  clLeft' \in ClBudget => clLeft'.acts <= clLeft.acts
<1>1. \/ clLeft' = clLeft \/ clLeft' = [clLeft EXCEPT !.acts = @ - 1] \/ clLeft' = [clLeft EXCEPT !.losses = @ - 1]
  BY DEF ClNext, ClHideTimer, TypeDraft, ClPollTick, RespondClarify, AgentAsksQuestion,
  ClarifyEvent, QuestionTimesOut, ClTurnEnds, ClSendBegins, ClSendStarted, ClSendPolls,
  ServeClarifyAsks, ServeClarifyAsk, TakeClarifyAsks, TakeClarifyAsk, ServeClarifyPosts,
  ServeClarifyPost, TakeClarifyReplies, TakeClarifyReply, TakeClarifyError,
  ClLoadSession, ClLoadStep, ClLoadMetadata, ClLoadDone
<1> QED
  BY <1>1 DEF ClBudget

LEMMA ClNumberedStep ==
  ASSUME ClInv, ClInv', ClNumbered, [ClNext]_clVars
  PROVE  ClNumbered'
<1>t. clLeft \in ClBudget /\ clLeft' \in ClBudget /\ clPosts \subseteq ClReplies
  BY ClTypes DEF ClInv, ClCardInv
<1>1. CASE UNCHANGED clVars
  BY <1>1 DEF clVars, ClNumbered
<1>2. CASE ClNext
  <2>1. clLeft'.acts <= clLeft.acts
    BY <1>2, <1>t, ClActsFall
  <2>2. \A p \in clPosts : p.n \in Nat /\ p.n > clLeft'.acts
    BY <1>t, <2>1 DEF ClNumbered, ClReplies, ClBudget
  <2>3. CASE clPosts' \subseteq clPosts
    BY <2>2, <2>3 DEF ClNumbered
  <2>4. CASE RespondClarify
    <3>1. PICK new : /\ clPosts' = clPosts \cup {new} /\ new.n = clLeft.acts
                     /\ clLeft.acts > 0 /\ clLeft' = [clLeft EXCEPT !.acts = @ - 1]
      BY <2>4 DEF RespondClarify
    <3>2. new.n > clLeft'.acts
      BY <1>t, <3>1 DEF ClBudget
    <3>3. \A p \in clPosts : p.n # new.n
      BY <1>t, <3>1 DEF ClNumbered, ClReplies, ClBudget
    <3> QED
      BY <2>2, <3>1, <3>2, <3>3 DEF ClNumbered
  <2>5. ASSUME NEW p \in clPosts, ServeClarifyPost(p) PROVE ClNumbered'
    <3>1. \E reply : clPosts' = (clPosts \ {p}) \cup {[p EXCEPT !.reply = reply]}
      BY <2>5 DEF ServeClarifyPost
    <3>2. PICK reply : clPosts' = (clPosts \ {p}) \cup {[p EXCEPT !.reply = reply]}
      BY <3>1
    <3>3. [p EXCEPT !.reply = reply].n = p.n
      BY <1>t DEF ClReplies
    <3>4. \A q \in clPosts \ {p} : q.n # p.n
      BY DEF ClNumbered
    <3> QED
      BY <2>2, <3>2, <3>3, <3>4 DEF ClNumbered
  <2>6. ASSUME NEW p \in clPosts, TakeClarifyReply(p) \/ TakeClarifyError(p)
        PROVE  clPosts' \subseteq clPosts
    BY <2>6 DEF TakeClarifyReply, TakeClarifyError
  <2> QED
    BY <1>2, <2>3, <2>4, <2>5, <2>6, ClPostsKept
<1> QED
  BY <1>1, <1>2

-----------------------------------------------------------------------------
(* The page: a step of one part leaves the other alone. *)

LEMMA PartSteps == [Next]_vars => [ApNext]_apVars /\ [ClNext]_clVars
BY DEF Next, ApPart, ClPart, vars, apVars, clVars

(* The invariant the theorems rest on. *)
LEMMA PromptsInvariant == Spec => [](ApInv /\ ClInv)
<1>1. Init => ApInv /\ ClInv
  BY ApInitInv, ClInitInv DEF Init
<1>2. ApInv /\ ClInv /\ [Next]_vars => (ApInv /\ ClInv)'
  BY ApStepInv, ClStepInv, PartSteps
<1> QED
  BY <1>1, <1>2, PTL DEF Spec

(* No two answers in flight are mistaken for one another, so that what       *)
(* LateAnswersSpareCards says of an answer, told by its number, is said of   *)
(* every one (respondApproval, respondClarify).                              *)
THEOREM AnswersAreNumbered == Spec => [](ApNumbered /\ ClNumbered)
<1>1. Init => ApNumbered /\ ClNumbered
  BY DEF Init, ApInit, ClInit, ApNumbered, ClNumbered
<1>2. (ApInv /\ ClInv) /\ (ApInv /\ ClInv)' /\ (ApNumbered /\ ClNumbered) /\ [Next]_vars
        => (ApNumbered /\ ClNumbered)'
  BY PartSteps, ApNumberedStep, ClNumberedStep
<1> QED
  BY <1>1, <1>2, PromptsInvariant, PTL DEF Spec

(* Every variable of the two cards, of their polls, answers and queues      *)
(* keeps its type (messages.js 7336-7895, 8411-9059).                       *)
THEOREM PromptTypes == Spec => [](ApTypeOK /\ ClTypeOK)
<1>1. ApInv /\ ClInv => ApTypeOK /\ ClTypeOK
  BY DEF ApInv, ApCardInv, ClInv, ClCardInv
<1> QED
  BY <1>1, PromptsInvariant, PTL

(* A card on the screen is of the session on the screen, unless another is  *)
(* being loaded, and names the prompt its buttons answer (messages.js       *)
(* 7471-7477, 7615-7640, 8452-8458): however polls, replies, events of      *)
(* other sessions and session changes overlap.                              *)
THEOREM CardsAreOfView == Spec => []CardsOfView
<1>1. ApInv /\ ClInv => CardsOfView
  BY DEF ApInv, ApCardInv, ClInv, ClCardInv, CardsOfView
<1> QED
  BY <1>1, PromptsInvariant, PTL

(* The reply to an answer, accepted, refused or lost, neither hides nor     *)
(* replaces the card of another approval or question (messages.js           *)
(* 7777-7806, 8856-8863, 8885-8926).                                        *)
THEOREM LateAnswersSpareCards == Spec => AnswersKeepNewer
<1>1. ApInv /\ ClInv /\ [Next]_vars => [AnswerSparesCard]_apVars /\ [AnswerSparesQuestion]_clVars
  BY PartSteps, AnswerSparesCardStep, AnswerSparesQuestionStep
<1> QED
  BY <1>1, PromptsInvariant, PTL
  DEF Spec, AnswersKeepNewer, AnswerKeepsNewerCard, AnswerKeepsNewerQuestion,
      AnswerSparesCard, AnswerSparesQuestion
=============================================================================
