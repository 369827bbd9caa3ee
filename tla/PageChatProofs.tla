---------------------------- MODULE PageChatProofs ----------------------------
(***************************************************************************)
(* Proofs about the composer and the follower of a live turn, for any      *)
(* sessions, messages, turns, retries and failures: the types, that a      *)
(* message handed over is never dropped, and that the page leaks no        *)
(* EventSource.                                                            *)
(***************************************************************************)
EXTENDS MCPageChat, SequenceTheorems, WellFoundedInduction, TLAPS

(* The sets the variables of ChatPage range over. *)
CpDraft  == CpMessages \cup {Nothing}
CpTimers == [sid: CpSessions, msg: CpMessages]
CpPages ==
  [view: CpSessions, busy: BOOLEAN, stream: CpTurns, confirm: BOOLEAN,
   inflight: [CpSessions -> {"none", "held", "reattach"}],
   live: [CpSessions -> CpTurns], queue: [CpSessions -> Seq(CpMessages)],
   fresh: SUBSET CpMessages, stored: SUBSET CpSessions,
   timers: SUBSET CpTimers, composer: CpDraft]
CpSends ==
  [phase: {"idle", "uploading", "posting", "started", "conflict", "failed",
           "reconnecting", "steering", "steered", "refused", "stopping"},
   sid: CpSid, msg: CpDraft, turn: CpTurns]
CpLoads ==
  [sid: CpSid, phase: {"none", "saving", "asked", "answered", "shown", "showing live", "broken"},
   found: CpTurns, draft: CpDraft]
CpStopRequests ==
  [sid: CpSessions, turn: CpTurns, by: {"user", "send"}, reply: {"none", "yes", "no"}]
CpBudget == [acts: Nat, errors: Nat]

(* A queue or a drain's timer has the message. *)
Holds(P, m) ==
  \/ \E s \in CpSessions : \E i \in 1 .. Len(P.queue[s]) : P.queue[s][i] = m
  \/ \E d \in P.timers : d.msg = m
Keeps(P, Q) == \A m \in CpMessages : Holds(P, m) => Holds(Q, m)

(* What send() has in its hands, phase by phase: nothing when idle or while *)
(* it waits for an interrupt; a message the server has taken, once it has   *)
(* answered; a message that is queued, while send() waits for loadSession.  *)
CpSendInv ==
  /\ cpSend.phase = "idle" => cpSend = NoSend
  /\ cpSend.phase = "stopping" => cpSend.msg = Nothing
  /\ cpSend.phase \notin {"idle", "stopping"} =>
       cpSend.sid \in CpSessions /\ cpSend.msg \in CpMessages
  /\ cpSend.phase \in {"started", "steered"} => cpTaken[cpSend.msg] # << >>
  /\ cpSend.phase = "reconnecting" => Holds(cpPage, cpSend.msg)

(* At most one cancel is send()'s own, and it waits for that one. *)
CpStopInv ==
  /\ \A p \in cpStops : p.by = "send" => cpSend.phase = "stopping"
  /\ \A p, q \in cpStops : p.by = "send" /\ q.by = "send" => p = q

CpLoadInv == cpLoad.phase # "none" => cpLoad.sid \in CpSessions

CpInv == CpTypeOK /\ CpSendInv /\ CpStopInv /\ CpLoadInv

(* What a step may do to a message handed over (HandedOverIsKept). *)
CpKept ==
  \A m \in CpMessages : m \in HandedOver /\ m \notin HandedOver' =>
    \/ cpPage'.composer = m \/ \E s \in CpSessions : cpDrafts'[s] = m
    \/ cpSend.phase = "failed" /\ cpPage.composer # Nothing

-----------------------------------------------------------------------------
(* The composer: types *)

LEMMA LeastPosition ==
  ASSUME NEW I, I \subseteq Nat, I # {}
  PROVE  Min(I) \in I
<1>1. PICK x \in I : \A y \in I : ~(<<y, x>> \in OpToRel(<, Nat))
  BY NatLessThanWellFounded, WFMin, Zenon
<1>2. \A y \in I : ~(y < x)
  BY <1>1 DEF OpToRel
<1>3. \A y \in I : x <= y
  BY <1>2
<1> QED
  BY <1>3 DEF Min

LEMMA CpTypes ==
  /\ CpTypeOK <=>
      /\ cpRunning \in [CpSessions -> CpTurns] /\ cpTaken \in [CpMessages -> Seq(CpSessions)]
      /\ cpDrafts \in [CpSessions -> CpDraft] /\ cpPage \in CpPages /\ cpSend \in CpSends
      /\ cpLoad \in CpLoads /\ cpStops \subseteq CpStopRequests
      /\ cpList = << >> \/ cpList \in [CpSessions -> CpTurns]
      /\ cpTyped \in 0 .. Len(CpScript) /\ cpHome \in [CpMessages -> CpSid]
      /\ cpLeft \in CpBudget
  /\ CpTypeOK' <=>
      /\ cpRunning' \in [CpSessions -> CpTurns] /\ cpTaken' \in [CpMessages -> Seq(CpSessions)]
      /\ cpDrafts' \in [CpSessions -> CpDraft] /\ cpPage' \in CpPages /\ cpSend' \in CpSends
      /\ cpLoad' \in CpLoads /\ cpStops' \subseteq CpStopRequests
      /\ cpList' = << >> \/ cpList' \in [CpSessions -> CpTurns]
      /\ cpTyped' \in 0 .. Len(CpScript) /\ cpHome' \in [CpMessages -> CpSid]
      /\ cpLeft' \in CpBudget
BY DEF CpTypeOK, CpDraft, CpTimers, CpPages, CpSends, CpLoads, CpStopRequests, CpBudget

LEMMA CpNames ==
  /\ Nothing \in CpTurns /\ Nothing \in CpSid /\ Nothing \in CpDraft
  /\ Foreign \in CpTurns /\ CpMessages \subseteq CpTurns /\ CpMessages \subseteq CpDraft
  /\ CpSessions \subseteq CpSid /\ Nothing \notin CpMessages
  /\ NoSend \in CpSends /\ NoLoad \in CpLoads /\ NoSend.msg = Nothing
  /\ NoSend.phase = "idle" /\ NoLoad.phase = "none"
BY CpAssumption DEF CpAssumption, CpTurns, CpSid, CpDraft, NoSend, NoLoad, CpSends, CpLoads

LEMMA CpBudgetTypes ==
  ASSUME CpTypeOK
  PROVE  /\ cpLeft.acts > 0 => [cpLeft EXCEPT !.acts = @ - 1] \in CpBudget
         /\ cpLeft.errors > 0 => [cpLeft EXCEPT !.errors = @ - 1] \in CpBudget
<1>1. cpLeft \in [acts: Nat, errors: Nat]
  BY DEF CpTypeOK
<1> QED
  BY <1>1 DEF CpBudget

(* Pages that differ in neither queues nor timers hold the same messages. *)
LEMMA SameQueues ==
  ASSUME NEW P, NEW Q, Q.queue = P.queue, Q.timers = P.timers
  PROVE  Keeps(P, Q)
BY DEF Keeps, Holds

LEMMA KeepsChain ==
  ASSUME NEW P, NEW Q, NEW R, Keeps(P, Q), Keeps(Q, R)
  PROVE  Keeps(P, R)
BY DEF Keeps

LEMMA QueueMessageKeeps ==
  ASSUME NEW P \in CpPages, NEW s \in CpSessions, NEW m \in CpMessages
  PROVE  LET Q == QueueMessage(P, s, m) IN
         /\ Q \in CpPages /\ Keeps(P, Q) /\ Holds(Q, m)
         /\ Q.view = P.view /\ Q.composer = P.composer /\ Q.timers = P.timers
<1> DEFINE q == [P.queue EXCEPT ![s] = Append(@, m)]
           Q == QueueMessage(P, s, m)
<1>0. P.queue \in [CpSessions -> Seq(CpMessages)]
  BY DEF CpPages
<1>1. P.queue[s] \in Seq(CpMessages)
  BY <1>0
<1>2. /\ Append(P.queue[s], m) \in Seq(CpMessages)
      /\ Len(Append(P.queue[s], m)) = Len(P.queue[s]) + 1
      /\ \A i \in 1 .. Len(P.queue[s]) : Append(P.queue[s], m)[i] = P.queue[s][i]
      /\ Append(P.queue[s], m)[Len(P.queue[s]) + 1] = m
  BY <1>1
<1>3. q \in [CpSessions -> Seq(CpMessages)]
  BY <1>0, <1>2
<1>4. /\ q[s] = Append(P.queue[s], m)
      /\ \A t \in CpSessions : t # s => q[t] = P.queue[t]
  BY <1>0
<1>5. /\ Q.queue = q /\ Q.fresh = P.fresh \cup {m} /\ Q.stored = P.stored \cup {s}
      /\ Q.view = P.view /\ Q.composer = P.composer /\ Q.timers = P.timers
  BY DEF QueueMessage, CpPages
<1>6. Q \in CpPages
  BY <1>3 DEF QueueMessage, CpPages
<1>7. Len(P.queue[s]) \in Nat
  BY <1>1
<1> HIDE DEF q, Q
<1>8. Holds(Q, m)
  BY <1>2, <1>4, <1>5, <1>7 DEF Holds
<1>9. ASSUME NEW k, Holds(P, k) PROVE Holds(Q, k)
  <2>1. CASE \E d \in P.timers : d.msg = k
    BY <2>1, <1>5 DEF Holds
  <2>2. ASSUME NEW t \in CpSessions, NEW i \in 1 .. Len(P.queue[t]), P.queue[t][i] = k
        PROVE  Holds(Q, k)
    <3>1. CASE t = s
      <4>1. i \in 1 .. Len(q[s]) /\ q[s][i] = k
        BY <3>1, <2>2, <1>2, <1>4, <1>7
      <4> QED
        BY <4>1, <1>5 DEF Holds
    <3>2. CASE t # s
      BY <3>2, <2>2, <1>4, <1>5 DEF Holds
    <3> QED
      BY <3>1, <3>2
  <2> QED
    BY <1>9, <2>1, <2>2 DEF Holds
<1>10. Keeps(P, Q)
  BY <1>9 DEF Keeps
<1> QED
  BY <1>5, <1>6, <1>8, <1>10 DEF Q

LEMMA SetIdleKeeps ==
  ASSUME NEW P \in CpPages, NEW s \in CpSessions
  PROVE  LET Q == SetIdle(P, s) IN
         Q \in CpPages /\ Keeps(P, Q) /\ Q.view = P.view /\ Q.composer = P.composer
<1> DEFINE Q == SetIdle(P, s)
<1>0. P.queue \in [CpSessions -> Seq(CpMessages)] /\ P.timers \subseteq CpTimers
      /\ P.stored \subseteq CpSessions
  BY DEF CpPages
<1>1. P.queue[s] \in Seq(CpMessages)
  BY <1>0
<1>2. CASE s # P.view \/ P.queue[s] = << >>
  <2>1. Q = [P EXCEPT !.busy = FALSE]
    BY <1>2 DEF SetIdle
  <2>2. Q \in CpPages /\ Q.queue = P.queue /\ Q.timers = P.timers /\ Q.view = P.view
        /\ Q.composer = P.composer
    BY <2>1 DEF CpPages
  <2> QED
    BY <2>2, SameQueues
<1>3. CASE ~(s # P.view \/ P.queue[s] = << >>)
  <2> DEFINE d == [sid |-> s, msg |-> Head(P.queue[s])]
             q == [P.queue EXCEPT ![s] = Tail(@)]
             st == IF Len(P.queue[s]) = 1 THEN P.stored \ {s} ELSE P.stored \cup {s}
  <2>1. /\ Tail(P.queue[s]) \in Seq(CpMessages) /\ Head(P.queue[s]) \in CpMessages
        /\ Head(P.queue[s]) = P.queue[s][1] /\ Len(P.queue[s]) \in Nat \ {0}
        /\ Len(Tail(P.queue[s])) = Len(P.queue[s]) - 1
        /\ \A i \in 1 .. Len(P.queue[s]) - 1 : Tail(P.queue[s])[i] = P.queue[s][i + 1]
    BY <1>1, <1>3
  <2>2. q \in [CpSessions -> Seq(CpMessages)] /\ q[s] = Tail(P.queue[s])
        /\ \A t \in CpSessions : t # s => q[t] = P.queue[t]
    BY <1>0, <2>1
  <2>3. d \in CpTimers /\ st \subseteq CpSessions
    BY <1>0, <2>1 DEF CpTimers
  <2>4. Q = [P EXCEPT !.busy = FALSE, !.queue = q, !.stored = st, !.timers = @ \cup {d}]
    BY <1>3 DEF SetIdle
  <2>d. d.msg = Head(P.queue[s])
    OBVIOUS
  <2> HIDE DEF d, q, st
  <2>5. Q \in CpPages
    <3>1. P.timers \cup {d} \in SUBSET CpTimers /\ q \in [CpSessions -> Seq(CpMessages)]
          /\ st \in SUBSET CpSessions
      BY <1>0, <2>2, <2>3
    <3> QED
      BY <3>1, <2>4 DEF CpPages
  <2>6. Q.queue = q /\ Q.timers = P.timers \cup {d} /\ Q.view = P.view
        /\ Q.composer = P.composer
    BY <2>4 DEF CpPages
  <2> HIDE DEF Q
  <2>7. ASSUME NEW k, Holds(P, k) PROVE Holds(Q, k)
    <3>1. CASE \E e \in P.timers : e.msg = k
      BY <3>1, <2>6 DEF Holds
    <3>2. ASSUME NEW t \in CpSessions, NEW i \in 1 .. Len(P.queue[t]), P.queue[t][i] = k
          PROVE  Holds(Q, k)
      <4>1. CASE t # s
        BY <4>1, <3>2, <2>2, <2>6 DEF Holds
      <4>2. CASE t = s /\ i = 1
        BY <4>2, <3>2, <2>1, <2>d, <2>6 DEF Holds
      <4>3. CASE t = s /\ i # 1
        <5>1. i - 1 \in 1 .. Len(q[s]) /\ q[s][i - 1] = k
          <6>1. i \in Nat /\ i - 1 \in 1 .. Len(P.queue[s]) - 1 /\ (i - 1) + 1 = i
            BY <4>3, <2>1
          <6> QED
            BY <6>1, <4>3, <3>2, <2>1, <2>2
        <5> QED
          BY <5>1, <2>6 DEF Holds
      <4> QED
        BY <4>1, <4>2, <4>3
    <3> QED
      BY <2>7, <3>1, <3>2 DEF Holds
  <2> QED
    BY <2>5, <2>6, <2>7 DEF Keeps, Q
<1> QED
  BY <1>2, <1>3

LEMMA PageFields ==
  ASSUME NEW P \in CpPages
  PROVE  /\ P.view \in CpSessions /\ P.stream \in CpTurns /\ P.composer \in CpDraft
         /\ P.busy \in BOOLEAN /\ P.confirm \in BOOLEAN
         /\ P.inflight \in [CpSessions -> {"none", "held", "reattach"}]
         /\ P.live \in [CpSessions -> CpTurns]
         /\ P.queue \in [CpSessions -> Seq(CpMessages)]
         /\ P.fresh \subseteq CpMessages /\ P.stored \subseteq CpSessions
         /\ P.timers \subseteq CpTimers
BY DEF CpPages

(* The helpers that touch neither queues nor timers nor the composer. *)
Aside(P, Q) ==
  /\ Q \in CpPages /\ Q.queue = P.queue /\ Q.timers = P.timers
  /\ Q.view = P.view /\ Q.composer = P.composer

LEMMA CloseLiveAside ==
  ASSUME NEW P \in CpPages, NEW S
  PROVE  Aside(P, CloseLive(P, S))
<1> DEFINE shut == {s \in S : P.live[s] # Nothing}
           live == [s \in CpSessions |-> IF s \in shut THEN Nothing ELSE P.live[s]]
           infl == [s \in CpSessions |->
                      IF s \in shut /\ P.inflight[s] # "none" THEN "reattach" ELSE P.inflight[s]]
<1>1. live \in [CpSessions -> CpTurns]
  BY CpNames, PageFields
<1>2. infl \in [CpSessions -> {"none", "held", "reattach"}]
  BY PageFields
<1>3. CloseLive(P, S) = [P EXCEPT !.live = live, !.inflight = infl]
  BY DEF CloseLive
<1> HIDE DEF live, infl
<1> QED
  BY <1>1, <1>2, <1>3 DEF Aside, CpPages

LEMMA ForgottenAside ==
  ASSUME NEW P \in CpPages, NEW s
  PROVE  Aside(P, Forgotten(P, s)) /\ Forgotten(P, s).stream = P.stream
BY DEF Aside, Forgotten, CpPages

LEMMA AttachLiveAside ==
  ASSUME NEW P \in CpPages, NEW s \in CpSessions, NEW turn \in CpTurns
  PROVE  Aside(P, AttachLive(P, s, turn))
<1> DEFINE keep == [P EXCEPT !.inflight[s] = IF @ = "none" THEN "held" ELSE @]
           S == IF P.live[s] = turn THEN CpSessions \ {s} ELSE CpSessions
           Q == CloseLive(keep, S)
<1>1. Aside(P, keep)
  <2>1. (IF P.inflight[s] = "none" THEN "held" ELSE P.inflight[s]) \in {"none", "held", "reattach"}
    BY PageFields
  <2> QED
    BY <2>1 DEF Aside, CpPages
<1>2. Aside(keep, Q)
  <2> HIDE DEF keep, S
  <2> QED
    BY <1>1, CloseLiveAside DEF Aside
<1>3. AttachLive(P, s, turn) = IF P.live[s] = turn /\ turn # Nothing THEN P
                               ELSE [Q EXCEPT !.live[s] = turn]
  BY DEF AttachLive
<1> HIDE DEF keep, S, Q
<1>4. Aside(Q, [Q EXCEPT !.live[s] = turn])
  BY <1>2 DEF Aside, CpPages
<1> QED
  BY <1>1, <1>2, <1>3, <1>4 DEF Aside

LEMMA StaleBusyKeeps ==
  ASSUME NEW P \in CpPages
  PROVE  LET Q == StaleBusyCleared(P) IN
         Q \in CpPages /\ Keeps(P, Q) /\ Q.view = P.view /\ Q.composer = P.composer
<1> DEFINE F == Forgotten(P, P.view)
<1>1. F \in CpPages /\ Keeps(P, F) /\ F.view = P.view /\ F.composer = P.composer
  BY ForgottenAside, SameQueues DEF Aside
<1> HIDE DEF F
<1>2. P.view \in CpSessions
  BY PageFields
<1>3. LET Q == SetIdle(F, P.view) IN
      Q \in CpPages /\ Keeps(F, Q) /\ Q.view = F.view /\ Q.composer = F.composer
  BY <1>1, <1>2, SetIdleKeeps
<1>4. Keeps(P, SetIdle(F, P.view))
  BY <1>1, <1>3, KeepsChain
<1>5. Keeps(P, P)
  BY DEF Keeps
<1> QED
  BY <1>1, <1>3, <1>4, <1>5 DEF StaleBusyCleared, F

LEMMA QueueRestoredKeeps ==
  ASSUME NEW P \in CpPages, NEW s \in CpSessions
  PROVE  LET Q == QueueRestored(P, s) IN
         Q \in CpPages /\ Keeps(P, Q) /\ Q.view = P.view /\ Q.stream = P.stream
<1> DEFINE late == {i \in 1 .. Len(P.queue[s]) : P.queue[s][i] \in P.fresh}
           c == IF P.composer = Nothing /\ late # {} THEN P.queue[s][Min(late)] ELSE P.composer
           Q == [P EXCEPT !.stored = @ \ {s}, !.composer = c]
<1>1. P.queue[s] \in Seq(CpMessages)
  BY PageFields
<1>2. late # {} => Min(late) \in late
  <2>1. late \subseteq Nat
    OBVIOUS
  <2> HIDE DEF late
  <2> QED
    BY <2>1, LeastPosition
<1>3. late # {} => P.queue[s][Min(late)] \in CpMessages
  <2>1. \A i \in late : P.queue[s][i] \in CpMessages
    BY <1>1
  <2> HIDE DEF late
  <2> QED
    BY <1>2, <2>1
<1>4. c \in CpDraft
  <2> HIDE DEF late
  <2> QED
    BY <1>3, PageFields, CpNames
<1>5. QueueRestored(P, s) = IF s \notin P.stored THEN P ELSE Q
  BY DEF QueueRestored
<1>6. Q \in CpPages /\ Q.queue = P.queue /\ Q.timers = P.timers /\ Q.view = P.view
      /\ Q.stream = P.stream
  <2> HIDE DEF c
  <2> QED
    BY <1>4 DEF CpPages
<1> HIDE DEF Q
<1>7. Keeps(P, Q) /\ Keeps(P, P)
  BY <1>6, SameQueues
<1> QED
  BY <1>5, <1>6, <1>7

-----------------------------------------------------------------------------
(* The composer: what each step does to the messages *)

LEMMA InHand ==
  ASSUME NEW m \in CpMessages
  PROVE  /\ CpTypeOK => (m \in HandedOver <=>
              Holds(cpPage, m) \/ cpSend.msg = m \/ cpTaken[m] # << >>)
         /\ CpTypeOK' => (m \in HandedOver' <=>
              Holds(cpPage', m) \/ cpSend'.msg = m \/ cpTaken'[m] # << >>)
<1>1. ASSUME CpTypeOK
      PROVE  m \in HandedOver <=> Holds(cpPage, m) \/ cpSend.msg = m \/ cpTaken[m] # << >>
  <2>1. \A s \in CpSessions : ToSet(cpPage.queue[s])
                                = {cpPage.queue[s][i] : i \in 1 .. Len(cpPage.queue[s])}
    <3>1. cpPage.queue \in [CpSessions -> Seq(CpMessages)]
      BY <1>1, CpTypes, PageFields
    <3> QED
      BY <3>1 DEF ToSet
  <2> DEFINE U == UNION {ToSet(cpPage.queue[s]) : s \in CpSessions}
             D == {d.msg : d \in cpPage.timers}
  <2>2. m \in U <=>
        \E s \in CpSessions : \E i \in 1 .. Len(cpPage.queue[s]) : cpPage.queue[s][i] = m
    BY <2>1
  <2>3. m \in D <=> \E d \in cpPage.timers : d.msg = m
    OBVIOUS
  <2>4. HandedOver = U \cup D \cup {cpSend.msg} \cup {k \in CpMessages : cpTaken[k] # << >>}
    BY DEF HandedOver
  <2> HIDE DEF U, D
  <2> QED
    BY <2>2, <2>3, <2>4 DEF Holds
<1>2. ASSUME CpTypeOK'
      PROVE  m \in HandedOver' <=> Holds(cpPage', m) \/ cpSend'.msg = m \/ cpTaken'[m] # << >>
  <2>1. \A s \in CpSessions : ToSet(cpPage'.queue[s])
                                = {cpPage'.queue[s][i] : i \in 1 .. Len(cpPage'.queue[s])}
    <3>1. cpPage'.queue \in [CpSessions -> Seq(CpMessages)]
      BY <1>2, CpTypes, PageFields
    <3> QED
      BY <3>1 DEF ToSet
  <2> DEFINE U == UNION {ToSet(cpPage'.queue[s]) : s \in CpSessions}
             D == {d.msg : d \in cpPage'.timers}
  <2>2. m \in U <=>
        \E s \in CpSessions : \E i \in 1 .. Len(cpPage'.queue[s]) : cpPage'.queue[s][i] = m
    BY <2>1
  <2>3. m \in D <=> \E d \in cpPage'.timers : d.msg = m
    OBVIOUS
  <2>4. HandedOver' = U \cup D \cup {cpSend'.msg} \cup {k \in CpMessages : cpTaken'[k] # << >>}
    BY DEF HandedOver
  <2> HIDE DEF U, D
  <2> QED
    BY <2>2, <2>3, <2>4 DEF Holds
<1> QED
  BY <1>1, <1>2

(* A step keeps what is queued, in the hands of send() and taken: what      *)
(* leaves one of these is in another, or back in the composer or a draft.   *)
LEMMA KeptCases ==
  ASSUME CpTypeOK, CpTypeOK',
         \A m \in CpMessages : Holds(cpPage, m) => Holds(cpPage', m) \/ cpSend'.msg = m,
         \A m \in CpMessages : cpTaken[m] # << >> => cpTaken'[m] # << >>,
         \/ cpSend.msg = Nothing
         \/ cpSend'.msg = cpSend.msg
         \/ Holds(cpPage', cpSend.msg)
         \/ cpTaken'[cpSend.msg] # << >>
         \/ cpPage'.composer = cpSend.msg
         \/ \E s \in CpSessions : cpDrafts'[s] = cpSend.msg
         \/ cpSend.phase = "failed" /\ cpPage.composer # Nothing
  PROVE  CpKept
<1> SUFFICES ASSUME NEW m \in CpMessages, m \in HandedOver, m \notin HandedOver'
             PROVE  \/ cpPage'.composer = m \/ \E s \in CpSessions : cpDrafts'[s] = m
                    \/ cpSend.phase = "failed" /\ cpPage.composer # Nothing
  BY DEF CpKept
<1>1. ~Holds(cpPage', m) /\ cpSend'.msg # m /\ ~(cpTaken'[m] # << >>)
  BY InHand
<1>2. cpSend.msg = m
  BY <1>1, InHand
<1>3. m # Nothing
  BY CpNames
<1> QED
  BY <1>1, <1>2, <1>3

TakenKept == \A m \in CpMessages : cpTaken[m] # << >> => cpTaken'[m] # << >>

(* A step that leaves send() and the cancels alone. *)
LEMMA CpFrame ==
  ASSUME CpInv, CpTypeOK', UNCHANGED <<cpSend, cpStops>>, Keeps(cpPage, cpPage'), TakenKept,
         cpLoad'.phase # "none" => cpLoad'.sid \in CpSessions
  PROVE  CpInv' /\ CpKept
<1>1. CpSendInv'
  BY DEF CpInv, CpSendInv, Keeps, TakenKept
<1>2. CpStopInv' /\ CpLoadInv'
  BY DEF CpInv, CpStopInv, CpLoadInv
<1>3. CpKept
  BY KeptCases DEF CpInv, Keeps, TakenKept
<1> QED
  BY <1>1, <1>2, <1>3 DEF CpInv

(* A step of send() that is not about a cancel: it neither begins nor ends  *)
(* the wait for one.                                                        *)
LEMMA CpSendFrame ==
  ASSUME CpInv, CpTypeOK', UNCHANGED <<cpStops>>, Keeps(cpPage, cpPage'), TakenKept,
         cpSend.phase # "stopping", CpSendInv',
         cpLoad'.phase # "none" => cpLoad'.sid \in CpSessions,
         \/ cpSend.msg = Nothing
         \/ cpSend'.msg = cpSend.msg
         \/ Holds(cpPage', cpSend.msg)
         \/ cpTaken'[cpSend.msg] # << >>
         \/ cpPage'.composer = cpSend.msg
         \/ \E s \in CpSessions : cpDrafts'[s] = cpSend.msg
         \/ cpSend.phase = "failed" /\ cpPage.composer # Nothing
  PROVE  CpInv' /\ CpKept
<1>1. CpStopInv' /\ CpLoadInv'
  BY DEF CpInv, CpStopInv, CpLoadInv
<1>2. \A m \in CpMessages : Holds(cpPage, m) => Holds(cpPage', m) \/ cpSend'.msg = m
  BY DEF Keeps
<1>3. CpTypeOK
  BY DEF CpInv
<1>4. CpKept
  BY <1>2, <1>3, KeptCases DEF TakenKept
<1> QED
  BY <1>1, <1>4 DEF CpInv

LEMMA TargetType ==
  ASSUME CpInv
  PROVE  SendTarget \in CpSessions
<1>1. cpPage.view \in CpSessions
  BY CpTypes, PageFields DEF CpInv
<1> QED
  BY <1>1 DEF CpInv, CpSendInv, SendTarget

(* send(), from the button or a timer, with the page P and the message m:   *)
(* the message is queued or in the hands of send().                         *)
LEMMA SendTextKeeps ==
  ASSUME CpInv, NEW P \in CpPages, NEW m \in CpMessages, NEW mode, SendText(P, m, mode),
         \A k \in CpMessages : Holds(cpPage, k) => Holds(P, k) \/ k = m
  PROVE  /\ cpPage' \in CpPages /\ cpDrafts' \in [CpSessions -> CpDraft]
         /\ cpSend' \in CpSends /\ cpStops' \subseteq CpStopRequests
         /\ \A k \in CpMessages : Holds(cpPage, k) => Holds(cpPage', k) \/ cpSend'.msg = k
         /\ \/ cpSend' = cpSend /\ cpStops' = cpStops
               /\ \A k \in CpMessages : Holds(cpPage, k) => Holds(cpPage', k)
            \/ /\ cpSend.phase = "idle" /\ cpStops' = cpStops
               /\ cpSend'.phase \in {"uploading", "steering"}
               /\ cpSend'.sid \in CpSessions /\ cpSend'.msg \in CpMessages
            \/ /\ cpSend.phase = "idle" /\ cpSend' = [NoSend EXCEPT !.phase = "stopping"]
               /\ \E p \in CpStopRequests : cpStops' = cpStops \cup {p}
<1> DEFINE Q == IF cpSend.phase = "idle" THEN StaleBusyCleared(P) ELSE P
<1>1. Q \in CpPages /\ Q.view = P.view /\ Keeps(P, Q)
  BY StaleBusyKeeps DEF Keeps
<1>2. SendInProgress(Q, m) \/ SendQueues(Q, m, mode) \/ SendInterrupts(Q, m, mode)
      \/ SendSteers(Q, m, mode) \/ SendUploads(Q, m)
  BY DEF SendText
<1> HIDE DEF Q
<1>3. /\ cpDrafts \in [CpSessions -> CpDraft] /\ cpSend \in CpSends
      /\ cpStops \subseteq CpStopRequests
  BY CpTypes DEF CpInv
<1>4. Q.view \in CpSessions /\ Q.stream \in CpTurns
  BY <1>1, PageFields
<1>5. \A k \in CpMessages : Holds(cpPage, k) => Holds(Q, k) \/ k = m
  BY <1>1 DEF Keeps
<1>q. ASSUME NEW s \in CpSessions, cpPage' = [QueueMessage(Q, s, m) EXCEPT !.composer = Nothing]
      PROVE  /\ cpPage' \in CpPages
             /\ \A k \in CpMessages : Holds(cpPage, k) => Holds(cpPage', k)
  <2> DEFINE R == QueueMessage(Q, s, m)
  <2>1. R \in CpPages /\ Keeps(Q, R) /\ Holds(R, m)
    BY <1>1, QueueMessageKeeps
  <2>2. cpPage' = [R EXCEPT !.composer = Nothing]
    BY <1>q
  <2> HIDE DEF R
  <2>3. cpPage' \in CpPages /\ cpPage'.queue = R.queue /\ cpPage'.timers = R.timers
    BY <2>1, <2>2, CpNames DEF CpPages
  <2>4. Keeps(R, cpPage') /\ Holds(cpPage', m)
    BY <2>1, <2>3 DEF Keeps, Holds
  <2> QED
    BY <1>5, <2>1, <2>3, <2>4 DEF Keeps
<1>d. [cpDrafts EXCEPT ![Q.view] = Nothing] \in [CpSessions -> CpDraft]
  BY <1>3, CpNames
<1>6. CASE SendInProgress(Q, m)
  <2>1. cpPage' \in CpPages /\ \A k \in CpMessages : Holds(cpPage, k) => Holds(cpPage', k)
    BY <1>6, <1>q, TargetType DEF SendInProgress
  <2>2. cpDrafts' \in [CpSessions -> CpDraft]
    BY <1>3, <1>6, CpNames DEF SendInProgress
  <2> QED
    BY <1>3, <1>6, <2>1, <2>2 DEF SendInProgress
<1>7. CASE SendQueues(Q, m, mode)
  <2>1. cpPage' \in CpPages /\ \A k \in CpMessages : Holds(cpPage, k) => Holds(cpPage', k)
    BY <1>7, <1>q, <1>4 DEF SendQueues
  <2> QED
    BY <1>3, <1>7, <1>d, <2>1 DEF SendQueues
<1>8. CASE SendInterrupts(Q, m, mode)
  <2>1. cpPage' \in CpPages /\ \A k \in CpMessages : Holds(cpPage, k) => Holds(cpPage', k)
    BY <1>8, <1>q, <1>4 DEF SendInterrupts
  <2> DEFINE p == [sid |-> Q.view, turn |-> Q.stream, by |-> "send", reply |-> "none"]
  <2>2. p \in CpStopRequests
    BY <1>4 DEF CpStopRequests
  <2>3. cpStops' = cpStops \cup {p} /\ cpSend.phase = "idle"
        /\ cpSend' = [NoSend EXCEPT !.phase = "stopping"]
        /\ cpDrafts' = [cpDrafts EXCEPT ![Q.view] = Nothing]
    BY <1>8 DEF SendInterrupts
  <2>4. cpSend' \in CpSends
    BY <2>3, CpNames DEF CpSends
  <2> HIDE DEF p
  <2> QED
    BY <1>3, <1>d, <2>1, <2>2, <2>3, <2>4
<1>9. CASE SendSteers(Q, m, mode)
  <2>1. cpPage' = [Q EXCEPT !.composer = Nothing]
        /\ cpSend' = [phase |-> "steering", sid |-> Q.view, msg |-> m, turn |-> Q.stream]
        /\ cpSend.phase = "idle" /\ UNCHANGED <<cpDrafts, cpStops>>
    BY <1>9 DEF SendSteers
  <2>2. cpPage' \in CpPages /\ cpPage'.queue = Q.queue /\ cpPage'.timers = Q.timers
    BY <1>1, <2>1, CpNames DEF CpPages
  <2>3. cpSend' \in CpSends /\ cpSend'.msg = m /\ cpSend'.phase = "steering"
        /\ cpSend'.sid \in CpSessions
    BY <1>4, <2>1, CpNames DEF CpSends
  <2>4. Keeps(Q, cpPage')
    BY <2>2, SameQueues
  <2> QED
    BY <1>3, <1>5, <2>1, <2>2, <2>3, <2>4 DEF Keeps
<1>10. CASE SendUploads(Q, m)
  <2>1. cpPage' = [Q EXCEPT !.composer = Nothing]
        /\ cpSend' = [NoSend EXCEPT !.phase = "uploading", !.sid = Q.view, !.msg = m]
        /\ cpSend.phase = "idle" /\ UNCHANGED cpStops
        /\ cpDrafts' = [cpDrafts EXCEPT ![Q.view] = Nothing]
    BY <1>10 DEF SendUploads
  <2>2. cpPage' \in CpPages /\ cpPage'.queue = Q.queue /\ cpPage'.timers = Q.timers
    BY <1>1, <2>1, CpNames DEF CpPages
  <2>3. cpSend' \in CpSends /\ cpSend'.msg = m /\ cpSend'.phase = "uploading"
        /\ cpSend'.sid \in CpSessions
    BY <1>4, <2>1, CpNames DEF CpSends, NoSend
  <2>4. Keeps(Q, cpPage')
    BY <2>2, SameQueues
  <2> QED
    BY <1>3, <1>d, <1>5, <2>1, <2>2, <2>3, <2>4 DEF Keeps
<1> QED
  BY <1>2, <1>6, <1>7, <1>8, <1>9, <1>10

LEMMA CpInitInv == CpInit => CpInv
<1> SUFFICES ASSUME CpInit PROVE CpInv
  OBVIOUS
<1>1. cpPage \in CpPages
  <2>1. /\ CpFirst \in CpSessions /\ [s \in CpSessions |-> Nothing] \in [CpSessions -> CpTurns]
        /\ [s \in CpSessions |-> "none"] \in [CpSessions -> {"none", "held", "reattach"}]
        /\ [s \in CpSessions |-> << >>] \in [CpSessions -> Seq(CpMessages)]
    BY CpAssumption, CpNames DEF CpAssumption
  <2> QED
    BY <2>1, CpNames DEF CpInit, CpPages
<1>2. /\ cpRunning \in [CpSessions -> CpTurns] /\ cpTaken \in [CpMessages -> Seq(CpSessions)]
      /\ cpDrafts \in [CpSessions -> CpDraft] /\ cpHome \in [CpMessages -> CpSid]
  BY CpNames DEF CpInit
<1>3. cpTyped \in 0 .. Len(CpScript)
  <2>1. Len(CpScript) \in Nat
    BY CpAssumption DEF CpAssumption
  <2> QED
    BY <2>1 DEF CpInit
<1>4. cpLeft \in CpBudget /\ cpStops = {} /\ cpSend = NoSend /\ cpLoad = NoLoad
      /\ cpList = << >>
  BY CpAssumption DEF CpInit, CpAssumption, CpBudget
<1>5. CpTypeOK
  BY <1>1, <1>2, <1>3, <1>4, CpNames, CpTypes
<1> QED
  BY <1>4, <1>5, CpNames DEF CpInv, CpSendInv, CpStopInv, CpLoadInv

(* After a send: its own state, and the cancel of an interrupt. *)
LEMMA CpSent ==
  ASSUME CpInv, CpTypeOK', UNCHANGED <<cpTaken, cpLoad>>,
         \A k \in CpMessages : Holds(cpPage, k) => Holds(cpPage', k) \/ cpSend'.msg = k,
         \/ cpSend' = cpSend /\ cpStops' = cpStops
            /\ \A k \in CpMessages : Holds(cpPage, k) => Holds(cpPage', k)
         \/ /\ cpSend.phase = "idle" /\ cpStops' = cpStops
            /\ cpSend'.phase \in {"uploading", "steering"}
            /\ cpSend'.sid \in CpSessions /\ cpSend'.msg \in CpMessages
         \/ /\ cpSend.phase = "idle" /\ cpSend' = [NoSend EXCEPT !.phase = "stopping"]
            /\ \E p \in CpStopRequests : cpStops' = cpStops \cup {p}
  PROVE  CpInv' /\ CpKept
<1>1. CASE cpSend' = cpSend /\ cpStops' = cpStops
           /\ \A k \in CpMessages : Holds(cpPage, k) => Holds(cpPage', k)
  <2>1. Keeps(cpPage, cpPage') /\ TakenKept
    BY <1>1 DEF Keeps, TakenKept
  <2>2. cpLoad'.phase # "none" => cpLoad'.sid \in CpSessions
    BY DEF CpInv, CpLoadInv
  <2> QED
    BY <1>1, <2>1, <2>2, CpFrame
<1>2. ASSUME cpSend.phase = "idle"
      PROVE  CpKept /\ CpLoadInv' /\ \A p \in cpStops : p.by # "send"
  <2>1. cpSend.msg = Nothing
    BY <1>2, CpNames DEF CpInv, CpSendInv
  <2>2. CpKept
    BY <2>1, KeptCases DEF CpInv
  <2> QED
    BY <1>2, <2>2 DEF CpInv, CpLoadInv, CpStopInv
<1>3. CASE /\ cpSend.phase = "idle" /\ cpStops' = cpStops
           /\ cpSend'.phase \in {"uploading", "steering"}
           /\ cpSend'.sid \in CpSessions /\ cpSend'.msg \in CpMessages
  <2>1. CpSendInv' /\ CpStopInv'
    BY <1>2, <1>3 DEF CpSendInv, CpStopInv
  <2> QED
    BY <1>2, <1>3, <2>1 DEF CpInv
<1>4. CASE /\ cpSend.phase = "idle" /\ cpSend' = [NoSend EXCEPT !.phase = "stopping"]
           /\ \E p \in CpStopRequests : cpStops' = cpStops \cup {p}
  <2>1. cpSend'.phase = "stopping" /\ cpSend'.msg = Nothing
    BY <1>4 DEF NoSend
  <2>2. CpSendInv' /\ CpStopInv'
    BY <1>2, <1>4, <2>1 DEF CpSendInv, CpStopInv
  <2> QED
    BY <1>2, <1>4, <2>2 DEF CpInv
<1> QED
  BY <1>1, <1>3, <1>4

(* The user writes and sends; a timer puts a message back, or sends it. *)
LEMMA CpUserStep ==
  ASSUME CpInv, TypeMessage \/ \E mode \in CpModes : PressSend(mode)
  PROVE  CpInv' /\ CpKept
<1>t. CpTypeOK /\ cpPage \in CpPages /\ cpDrafts \in [CpSessions -> CpDraft]
  BY CpTypes DEF CpInv
<1>l. cpLoad.phase # "none" => cpLoad.sid \in CpSessions
  BY DEF CpInv, CpLoadInv
<1>1. CASE TypeMessage
  <2>1. cpTyped' \in 0 .. Len(CpScript) /\ CpScript[cpTyped'] \in CpMessages
    <3>1. CpScript \in Seq(CpMessages) /\ cpTyped \in 0 .. Len(CpScript)
      BY <1>t, CpTypes, CpAssumption DEF CpAssumption
    <3>2. cpTyped' = cpTyped + 1 /\ cpTyped < Len(CpScript) /\ Len(CpScript) \in Nat
      BY <1>1, <3>1 DEF TypeMessage
    <3>3. cpTyped' \in 1 .. Len(CpScript)
      BY <3>1, <3>2
    <3> QED
      BY <3>1, <3>3
  <2>2. cpPage' \in CpPages /\ cpPage'.queue = cpPage.queue /\ cpPage'.timers = cpPage.timers
    BY <1>1, <1>t, <2>1 DEF TypeMessage, CpPages, CpDraft
  <2>3. cpDrafts' \in [CpSessions -> CpDraft]
    BY <1>1, <1>t, <2>1 DEF TypeMessage, CpDraft
  <2>4. UNCHANGED <<cpRunning, cpTaken, cpSend, cpLoad, cpStops, cpList, cpHome, cpLeft>>
    BY <1>1 DEF TypeMessage, cpServer
  <2>5. CpTypeOK'
    BY <1>t, <2>1, <2>2, <2>3, <2>4, CpTypes
  <2>6. Keeps(cpPage, cpPage') /\ TakenKept
    BY <2>2, <2>4, SameQueues DEF TakenKept
  <2> QED
    BY <1>l, <2>4, <2>5, <2>6, CpFrame
<1>2. ASSUME NEW mode \in CpModes, PressSend(mode) PROVE CpInv' /\ CpKept
  <2> DEFINE m == cpPage.composer
  <2>1. m \in CpMessages /\ SendText(cpPage, m, mode)
    BY <1>2, <1>t, PageFields DEF PressSend, CpDraft
  <2>2. \A k \in CpMessages : Holds(cpPage, k) => Holds(cpPage, k) \/ k = m
    OBVIOUS
  <2>3. UNCHANGED <<cpRunning, cpTaken, cpLoad, cpList, cpTyped, cpLeft>>
    BY <1>2 DEF PressSend, cpServer
  <2>4. cpHome' \in [CpMessages -> CpSid]
    <3>1. SendTarget \in CpSid /\ cpHome \in [CpMessages -> CpSid]
      BY <1>t, TargetType, CpNames, CpTypes
    <3> QED
      BY <1>2, <3>1 DEF PressSend
  <2> HIDE DEF m
  <2>5. /\ cpPage' \in CpPages /\ cpDrafts' \in [CpSessions -> CpDraft]
        /\ cpSend' \in CpSends /\ cpStops' \subseteq CpStopRequests
    BY <1>t, <2>1, <2>2, SendTextKeeps
  <2>6. CpTypeOK'
    BY <1>t, <2>3, <2>4, <2>5, CpTypes
  <2> QED
    BY <1>t, <2>1, <2>2, <2>3, <2>6, SendTextKeeps, CpSent
<1> QED
  BY <1>1, <1>2

LEMMA CpDrainStep ==
  ASSUME CpInv, NEW d \in cpPage.timers,
         DrainBack(d) \/ \E mode \in CpModes : DrainSends(d, mode)
  PROVE  CpInv' /\ CpKept
<1>t. CpTypeOK /\ cpPage \in CpPages /\ cpDrafts \in [CpSessions -> CpDraft]
  BY CpTypes DEF CpInv
<1>l. cpLoad.phase # "none" => cpLoad.sid \in CpSessions
  BY DEF CpInv, CpLoadInv
<1>d. d.sid \in CpSessions /\ d.msg \in CpMessages
  BY <1>t, PageFields DEF CpTimers
<1> DEFINE P == [cpPage EXCEPT !.timers = @ \ {d}]
           S == [cpPage EXCEPT !.timers = @ \ {d}, !.composer = d.msg]
<1>1. /\ P \in CpPages /\ P.queue = cpPage.queue /\ P.timers = cpPage.timers \ {d}
      /\ S \in CpPages /\ S.queue = cpPage.queue /\ S.timers = cpPage.timers \ {d}
  BY <1>t, <1>d DEF CpPages, CpDraft
<1> HIDE DEF P, S
<1>2. ASSUME NEW k, Holds(cpPage, k) PROVE (Holds(P, k) /\ Holds(S, k)) \/ k = d.msg
  BY <1>1, <1>2 DEF Holds
<1>3. CASE DrainBack(d)
  <2>1. cpPage' = QueueMessage(P, d.sid, d.msg)
        /\ UNCHANGED <<cpServer, cpDrafts, cpSend, cpLoad, cpStops, cpList, cpUser>>
    BY <1>3 DEF DrainBack, P
  <2>2. cpPage' \in CpPages /\ Keeps(P, cpPage') /\ Holds(cpPage', d.msg)
    BY <1>1, <1>d, <2>1, QueueMessageKeeps
  <2>3. Keeps(cpPage, cpPage') /\ TakenKept
    BY <1>2, <2>1, <2>2 DEF Keeps, TakenKept, cpServer
  <2>4. CpTypeOK'
    BY <1>t, <2>1, <2>2, CpTypes DEF cpServer, cpUser
  <2> QED
    BY <1>l, <2>1, <2>3, <2>4, CpFrame
<1>4. ASSUME NEW mode \in CpModes, DrainSends(d, mode) PROVE CpInv' /\ CpKept
  <2>1. SendText(S, d.msg, mode)
        /\ UNCHANGED <<cpRunning, cpTaken, cpLoad, cpList, cpTyped, cpHome, cpLeft>>
    BY <1>4 DEF DrainSends, S, cpServer, cpUser
  <2>2. \A k \in CpMessages : Holds(cpPage, k) => Holds(S, k) \/ k = d.msg
    BY <1>2
  <2>3. /\ cpPage' \in CpPages /\ cpDrafts' \in [CpSessions -> CpDraft]
        /\ cpSend' \in CpSends /\ cpStops' \subseteq CpStopRequests
    BY <1>1, <1>d, <2>1, <2>2, SendTextKeeps
  <2>4. CpTypeOK'
    BY <1>t, <2>1, <2>3, CpTypes
  <2> QED
    BY <1>1, <1>d, <2>1, <2>2, <2>4, SendTextKeeps, CpSent
<1> QED
  BY <1>3, <1>4

(* A start: the upload, the server's answer, and what becomes of it. *)
LEMMA CpStartStep ==
  ASSUME CpInv, Uploaded \/ StartAnswered \/ Started
  PROVE  CpInv' /\ CpKept
<1>t. /\ CpTypeOK /\ cpPage \in CpPages /\ cpSend \in CpSends
      /\ cpTaken \in [CpMessages -> Seq(CpSessions)] /\ cpRunning \in [CpSessions -> CpTurns]
  BY CpTypes DEF CpInv
<1>l. cpLoad.phase # "none" => cpLoad.sid \in CpSessions
  BY DEF CpInv, CpLoadInv
<1>s. cpSend.phase \notin {"idle", "stopping"} =>
        cpSend.sid \in CpSessions /\ cpSend.msg \in CpMessages
  BY DEF CpInv, CpSendInv
<1>1. CASE Uploaded
  <2>1. /\ cpSend.phase = "uploading" /\ cpSend' = [cpSend EXCEPT !.phase = "posting"]
        /\ UNCHANGED <<cpServer, cpDrafts, cpLoad, cpStops, cpList, cpUser>>
    BY <1>1 DEF Uploaded
  <2>2. cpSend' \in CpSends /\ cpSend'.phase = "posting" /\ cpSend'.msg = cpSend.msg
        /\ cpSend'.sid = cpSend.sid
    BY <1>t, <2>1 DEF CpSends
  <2>3. cpPage' \in CpPages /\ cpPage'.queue = cpPage.queue /\ cpPage'.timers = cpPage.timers
    BY <1>1, <1>t, CpNames DEF Uploaded, CpPages
  <2>4. CpTypeOK'
    BY <1>t, <2>1, <2>2, <2>3, CpTypes DEF cpServer, cpUser
  <2>5. CpSendInv' /\ Keeps(cpPage, cpPage') /\ TakenKept
    BY <1>s, <2>1, <2>2, <2>3, SameQueues DEF CpSendInv, TakenKept, cpServer
  <2> QED
    BY <1>l, <2>1, <2>2, <2>4, <2>5, CpSendFrame
<1>2. CASE StartAnswered
  <2>1. /\ cpSend.phase = "posting"
        /\ UNCHANGED <<cpDrafts, cpPage, cpLoad, cpStops, cpList, cpTyped, cpHome>>
        /\ cpSend.sid \in CpSessions /\ cpSend.msg \in CpMessages
    BY <1>2, <1>s DEF StartAnswered
  <2>2. \/ /\ cpRunning' = [cpRunning EXCEPT ![cpSend.sid] = cpSend.msg]
           /\ cpTaken' = [cpTaken EXCEPT ![cpSend.msg] = Append(@, cpSend.sid)]
           /\ cpSend' = [cpSend EXCEPT !.phase = "started"] /\ UNCHANGED cpLeft
        \/ /\ \/ cpSend' = [cpSend EXCEPT !.phase = "conflict"]
              \/ cpSend' = [cpSend EXCEPT !.phase = "failed"]
           /\ UNCHANGED cpServer /\ cpLeft' \in CpBudget
    BY <1>2, <1>t, CpBudgetTypes, CpTypes DEF StartAnswered
  <2>3. cpSend' \in CpSends /\ cpSend'.phase \in {"started", "conflict", "failed"}
        /\ cpSend'.msg = cpSend.msg /\ cpSend'.sid = cpSend.sid
    BY <1>t, <2>2 DEF CpSends
  <2>4. Append(cpTaken[cpSend.msg], cpSend.sid) \in Seq(CpSessions)
        /\ Append(cpTaken[cpSend.msg], cpSend.sid) # << >>
    <3>1. cpTaken[cpSend.msg] \in Seq(CpSessions) /\ cpSend.sid \in CpSessions
      BY <1>t, <2>1
    <3> QED
      BY <3>1
  <2>5. cpRunning' \in [CpSessions -> CpTurns] /\ cpTaken' \in [CpMessages -> Seq(CpSessions)]
        /\ TakenKept
    BY <1>t, <2>1, <2>2, <2>4, CpNames DEF TakenKept, cpServer
  <2>6. cpSend'.phase = "started" => cpTaken'[cpSend'.msg] # << >>
    <3>1. cpSend'.phase = "started" => cpTaken' = [cpTaken EXCEPT ![cpSend.msg] = Append(@, cpSend.sid)]
      BY <1>t, <2>2 DEF CpSends
    <3> QED
      BY <1>t, <2>1, <2>3, <2>4, <3>1
  <2>7. CpTypeOK'
    BY <1>t, <2>1, <2>2, <2>3, <2>5, CpTypes
  <2>8. CpSendInv' /\ Keeps(cpPage, cpPage')
    BY <2>1, <2>3, <2>6 DEF CpSendInv, Keeps
  <2> QED
    BY <1>l, <2>1, <2>3, <2>5, <2>7, <2>8, CpSendFrame
<1>3. CASE Started
  <2>1. /\ cpSend.phase = "started" /\ cpSend' = NoSend
        /\ UNCHANGED <<cpServer, cpDrafts, cpLoad, cpStops, cpList, cpUser>>
    BY <1>3 DEF Started
  <2> DEFINE P == [cpPage EXCEPT !.stream = cpSend.msg, !.confirm = TRUE,
                     !.inflight[cpSend.sid] = IF @ = "none" THEN "held" ELSE @]
  <2>2. Aside(cpPage, P)
    <3>1. cpSend.msg \in CpTurns
      BY <1>s, <2>1, CpNames
    <3>2. \A x \in {"none", "held", "reattach"} :
            (IF x = "none" THEN "held" ELSE x) \in {"none", "held", "reattach"}
      OBVIOUS
    <3>3. [cpPage.inflight EXCEPT ![cpSend.sid] = IF @ = "none" THEN "held" ELSE @]
            \in [CpSessions -> {"none", "held", "reattach"}]
      BY <1>t, <3>2, PageFields
    <3>4. P = [cpPage EXCEPT !.stream = cpSend.msg, !.confirm = TRUE, !.inflight =
                 [cpPage.inflight EXCEPT ![cpSend.sid] = IF @ = "none" THEN "held" ELSE @]]
      BY <1>t DEF CpPages
    <3> QED
      BY <1>t, <3>1, <3>3, <3>4 DEF Aside, CpPages
  <2>3. cpPage' = AttachLive(P, cpSend.sid, cpSend.msg)
    BY <1>3 DEF Started
  <2> HIDE DEF P
  <2>4. Aside(P, cpPage')
    BY <1>s, <2>1, <2>2, <2>3, AttachLiveAside, CpNames DEF Aside
  <2>5. CpTypeOK'
    BY <1>t, <2>1, <2>4, CpNames, CpTypes DEF Aside, cpServer, cpUser
  <2>6. Keeps(cpPage, cpPage') /\ TakenKept
    BY <2>1, <2>2, <2>4, SameQueues DEF Aside, TakenKept, cpServer
  <2>7. CpSendInv' /\ cpTaken'[cpSend.msg] # << >>
    BY <2>1, CpNames DEF CpInv, CpSendInv, cpServer
  <2> QED
    BY <1>l, <2>1, <2>5, <2>6, <2>7, CpSendFrame
<1> QED
  BY <1>1, <1>2, <1>3

(* A start that is refused or fails: the message is queued, or comes back. *)
LEMMA CpRefusedStep ==
  ASSUME CpInv, StartConflicts \/ Reconnected \/ StartFails
  PROVE  CpInv' /\ CpKept
<1>t. /\ CpTypeOK /\ cpPage \in CpPages /\ cpSend \in CpSends
      /\ cpDrafts \in [CpSessions -> CpDraft] /\ cpPage.view \in CpSessions
  BY CpTypes, PageFields DEF CpInv
<1>l. cpLoad.phase # "none" => cpLoad.sid \in CpSessions
  BY DEF CpInv, CpLoadInv
<1>s. cpSend.phase \notin {"idle", "stopping"} =>
        cpSend.sid \in CpSessions /\ cpSend.msg \in CpMessages
  BY DEF CpInv, CpSendInv
<1>1. CASE StartConflicts
  <2>1. /\ cpSend.phase = "conflict" /\ LoadBegins(cpPage, cpSend.sid)
        /\ cpSend' = IF LoadsNothing(cpSend.sid) THEN NoSend
                     ELSE [cpSend EXCEPT !.phase = "reconnecting"]
        /\ UNCHANGED <<cpServer, cpStops, cpList, cpUser>>
        /\ cpSend.sid \in CpSessions /\ cpSend.msg \in CpMessages
    BY <1>1, <1>s DEF StartConflicts
  <2> DEFINE F == Forgotten(cpPage, cpSend.sid)
  <2>2. cpPage' = QueueMessage(F, cpSend.sid, cpSend.msg)
    BY <1>1 DEF StartConflicts
  <2>3. Aside(cpPage, F)
    BY <1>t, ForgottenAside
  <2> HIDE DEF F
  <2>4. cpPage' \in CpPages /\ Keeps(F, cpPage') /\ Holds(cpPage', cpSend.msg)
    BY <2>1, <2>2, <2>3, QueueMessageKeeps DEF Aside
  <2>5. Keeps(cpPage, cpPage') /\ TakenKept
    BY <2>1, <2>3, <2>4, SameQueues, KeepsChain DEF Aside, TakenKept, cpServer
  <2>6. cpLoad' \in CpLoads /\ (cpLoad'.phase # "none" => cpLoad'.sid \in CpSessions)
    <3>1. cpLoad' = cpLoad \/ cpLoad' = [NoLoad EXCEPT !.sid = cpSend.sid, !.phase = "asked"]
          \/ cpLoad' = [NoLoad EXCEPT !.sid = cpSend.sid, !.phase = "saving"]
      BY <2>1 DEF LoadBegins
    <3>2. cpLoad \in CpLoads
      BY <1>t, CpTypes
    <3> QED
      BY <1>l, <2>1, <3>1, <3>2, CpNames DEF CpLoads
  <2>7. cpDrafts' \in [CpSessions -> CpDraft]
    BY <1>t, <2>1, PageFields DEF LoadBegins
  <2>8. cpSend' \in CpSends /\ CpSendInv'
    <3>1. CASE cpSend' = NoSend
      BY <3>1, CpNames DEF CpSendInv
    <3>2. CASE cpSend' = [cpSend EXCEPT !.phase = "reconnecting"]
      <4>1. cpSend' \in CpSends /\ cpSend'.phase = "reconnecting" /\ cpSend'.msg = cpSend.msg
            /\ cpSend'.sid = cpSend.sid
        BY <1>t, <3>2 DEF CpSends
      <4> QED
        BY <2>1, <2>4, <4>1 DEF CpSendInv
    <3> QED
      BY <2>1, <3>1, <3>2
  <2>9. CpTypeOK'
    BY <1>t, <2>1, <2>4, <2>6, <2>7, <2>8, CpTypes DEF cpServer, cpUser
  <2> QED
    BY <2>1, <2>4, <2>5, <2>6, <2>8, <2>9, CpSendFrame
<1>2. CASE Reconnected
  <2>1. /\ cpSend.phase = "reconnecting" /\ cpSend' = NoSend
        /\ UNCHANGED <<cpServer, cpDrafts, cpPage, cpLoad, cpStops, cpList, cpUser>>
    BY <1>2 DEF Reconnected
  <2>2. Holds(cpPage', cpSend.msg) /\ Keeps(cpPage, cpPage') /\ TakenKept
    BY <2>1 DEF CpInv, CpSendInv, Keeps, TakenKept, cpServer
  <2>3. CpTypeOK' /\ CpSendInv'
    BY <1>t, <2>1, CpNames, CpTypes DEF CpSendInv, cpServer, cpUser
  <2> QED
    BY <1>l, <2>1, <2>2, <2>3, CpSendFrame
<1>3. CASE StartFails
  <2> DEFINE s == cpSend.sid
             F == Forgotten(cpPage, s)
             I == SetIdle(F, s)
  <2>1. /\ cpSend.phase = "failed" /\ cpSend' = NoSend
        /\ UNCHANGED <<cpServer, cpLoad, cpStops, cpList, cpUser>>
        /\ cpPage' = DraftBack(I, s, cpSend.msg)
        /\ cpDrafts' = [cpDrafts EXCEPT ![s] =
                          IF cpPage.view = s THEN cpPage'.composer ELSE cpSend.msg]
        /\ s \in CpSessions /\ cpSend.msg \in CpMessages
    BY <1>3, <1>s DEF StartFails
  <2>2. Aside(cpPage, F)
    BY <1>t, ForgottenAside
  <2> HIDE DEF F
  <2>3. I \in CpPages /\ Keeps(F, I) /\ I.view = cpPage.view /\ I.composer = cpPage.composer
    BY <2>1, <2>2, SetIdleKeeps DEF Aside
  <2> HIDE DEF I
  <2>4. /\ cpPage' \in CpPages /\ cpPage'.queue = I.queue /\ cpPage'.timers = I.timers
        /\ cpPage.view = s /\ cpPage.composer = Nothing => cpPage'.composer = cpSend.msg
    <3>1. CASE I.view = s /\ I.composer = Nothing
      <4>1. cpPage' = [I EXCEPT !.composer = cpSend.msg] /\ cpSend.msg \in CpDraft
        BY <2>1, <3>1, CpNames DEF DraftBack
      <4> QED
        BY <2>3, <4>1 DEF CpPages
    <3>2. CASE ~(I.view = s /\ I.composer = Nothing)
      BY <2>1, <2>3, <3>2 DEF DraftBack
    <3> QED
      BY <3>1, <3>2
  <2>5. Keeps(cpPage, cpPage') /\ TakenKept
    BY <2>1, <2>2, <2>3, <2>4, SameQueues, KeepsChain DEF Aside, TakenKept, cpServer
  <2>6. cpDrafts' \in [CpSessions -> CpDraft] /\ (cpPage.view # s => cpDrafts'[s] = cpSend.msg)
    <3>1. cpPage'.composer \in CpDraft /\ cpSend.msg \in CpDraft
      BY <2>1, <2>4, PageFields, CpNames
    <3> QED
      BY <1>t, <2>1, <3>1
  <2>7. CpTypeOK' /\ CpSendInv'
    BY <1>t, <2>1, <2>4, <2>6, CpNames, CpTypes DEF CpSendInv, cpServer, cpUser
  <2>8. \/ cpPage'.composer = cpSend.msg \/ cpDrafts'[s] = cpSend.msg
        \/ cpSend.phase = "failed" /\ cpPage.composer # Nothing
    BY <2>1, <2>4, <2>6
  <2>9. cpSend.phase # "stopping"
    BY <2>1
  <2>l. cpLoad'.phase # "none" => cpLoad'.sid \in CpSessions
    BY <1>l, <2>1
  <2> HIDE DEF s
  <2>10. \/ cpPage'.composer = cpSend.msg \/ \E x \in CpSessions : cpDrafts'[x] = cpSend.msg
         \/ cpSend.phase = "failed" /\ cpPage.composer # Nothing
    BY <2>1, <2>8
  <2> QED
    BY <2>l, <2>1, <2>5, <2>7, <2>9, <2>10, CpSendFrame
<1> QED
  BY <1>1, <1>2, <1>3

(* A steer. *)
LEMMA CpSteerStep ==
  ASSUME CpInv, SteerAnswered \/ Steered \/ SteerRefused
  PROVE  CpInv' /\ CpKept
<1>t. /\ CpTypeOK /\ cpPage \in CpPages /\ cpSend \in CpSends
      /\ cpDrafts \in [CpSessions -> CpDraft] /\ cpTaken \in [CpMessages -> Seq(CpSessions)]
  BY CpTypes DEF CpInv
<1>l. cpLoad.phase # "none" => cpLoad.sid \in CpSessions
  BY DEF CpInv, CpLoadInv
<1>s. cpSend.phase \notin {"idle", "stopping"} =>
        cpSend.sid \in CpSessions /\ cpSend.msg \in CpMessages
  BY DEF CpInv, CpSendInv
<1>1. CASE SteerAnswered
  <2>1. /\ cpSend.phase = "steering"
        /\ UNCHANGED <<cpRunning, cpDrafts, cpPage, cpLoad, cpStops, cpList, cpUser>>
        /\ cpSend.sid \in CpSessions /\ cpSend.msg \in CpMessages
    BY <1>1, <1>s DEF SteerAnswered
  <2>2. \/ /\ cpTaken' = [cpTaken EXCEPT ![cpSend.msg] = Append(@, cpSend.sid)]
           /\ cpSend' = [cpSend EXCEPT !.phase = "steered"]
        \/ cpSend' = [cpSend EXCEPT !.phase = "refused"] /\ UNCHANGED cpTaken
    BY <1>1 DEF SteerAnswered
  <2>3. cpSend' \in CpSends /\ cpSend'.phase \in {"steered", "refused"}
        /\ cpSend'.msg = cpSend.msg /\ cpSend'.sid = cpSend.sid
    BY <1>t, <2>2 DEF CpSends
  <2>4. Append(cpTaken[cpSend.msg], cpSend.sid) \in Seq(CpSessions)
        /\ Append(cpTaken[cpSend.msg], cpSend.sid) # << >>
    <3>1. cpTaken[cpSend.msg] \in Seq(CpSessions) /\ cpSend.sid \in CpSessions
      BY <1>t, <2>1
    <3> QED
      BY <3>1
  <2>5. cpTaken' \in [CpMessages -> Seq(CpSessions)] /\ TakenKept
    BY <1>t, <2>1, <2>2, <2>4 DEF TakenKept
  <2>6. cpSend'.phase = "steered" => cpTaken'[cpSend'.msg] # << >>
    <3>1. cpSend'.phase = "steered" => cpTaken' = [cpTaken EXCEPT ![cpSend.msg] = Append(@, cpSend.sid)]
      BY <1>t, <2>2 DEF CpSends
    <3> QED
      BY <1>t, <2>1, <2>3, <2>4, <3>1
  <2>7. CpTypeOK'
    BY <1>t, <2>1, <2>3, <2>5, CpTypes DEF cpUser
  <2>8. CpSendInv' /\ Keeps(cpPage, cpPage')
    BY <2>1, <2>3, <2>6 DEF CpSendInv, Keeps
  <2> QED
    BY <1>l, <2>1, <2>3, <2>5, <2>7, <2>8, CpSendFrame
<1>2. CASE Steered
  <2>1. /\ cpSend.phase = "steered" /\ cpSend' = NoSend
        /\ cpDrafts' = [cpDrafts EXCEPT ![cpSend.sid] = Nothing]
        /\ UNCHANGED <<cpServer, cpPage, cpLoad, cpStops, cpList, cpUser>>
    BY <1>2 DEF Steered
  <2>2. cpTaken'[cpSend.msg] # << >> /\ Keeps(cpPage, cpPage') /\ TakenKept
    BY <2>1 DEF CpInv, CpSendInv, Keeps, TakenKept, cpServer
  <2>3. cpDrafts' \in [CpSessions -> CpDraft]
    BY <1>t, <2>1, CpNames
  <2>4. CpTypeOK' /\ CpSendInv'
    BY <1>t, <2>1, <2>3, CpNames, CpTypes DEF CpSendInv, cpServer, cpUser
  <2> QED
    BY <1>l, <2>1, <2>2, <2>4, CpSendFrame
<1>3. CASE SteerRefused
  <2>1. /\ cpSend.phase = "refused" /\ cpSend' = NoSend
        /\ UNCHANGED <<cpServer, cpLoad, cpStops, cpList, cpUser>>
        /\ cpSend.sid \in CpSessions /\ cpSend.msg \in CpMessages
    BY <1>3, <1>s DEF SteerRefused
  <2> DEFINE F == Forgotten(cpPage, cpSend.sid)
  <2>2. \/ /\ cpPage' = [F EXCEPT !.composer = cpSend.msg, !.busy = FALSE,
                           !.stream = Nothing, !.confirm = FALSE]
           /\ UNCHANGED cpDrafts
        \/ cpDrafts' = [cpDrafts EXCEPT ![cpSend.sid] = cpSend.msg] /\ UNCHANGED cpPage
    BY <1>3 DEF SteerRefused
  <2>3. Aside(cpPage, F)
    BY <1>t, ForgottenAside
  <2> HIDE DEF F
  <2>4. /\ cpPage' \in CpPages /\ cpPage'.queue = cpPage.queue
        /\ cpPage'.timers = cpPage.timers /\ cpDrafts' \in [CpSessions -> CpDraft]
        /\ cpPage'.composer = cpSend.msg \/ cpDrafts'[cpSend.sid] = cpSend.msg
    <3>1. CASE /\ cpPage' = [F EXCEPT !.composer = cpSend.msg, !.busy = FALSE,
                               !.stream = Nothing, !.confirm = FALSE]
               /\ UNCHANGED cpDrafts
      BY <1>t, <2>1, <2>3, <3>1, CpNames DEF Aside, CpPages
    <3>2. CASE cpDrafts' = [cpDrafts EXCEPT ![cpSend.sid] = cpSend.msg] /\ UNCHANGED cpPage
      BY <1>t, <2>1, <3>2, CpNames
    <3> QED
      BY <2>2, <3>1, <3>2
  <2>5. Keeps(cpPage, cpPage') /\ TakenKept
    BY <2>1, <2>4, SameQueues DEF TakenKept, cpServer
  <2>6. CpTypeOK' /\ CpSendInv'
    BY <1>t, <2>1, <2>4, CpNames, CpTypes DEF CpSendInv, cpServer, cpUser
  <2>7. cpPage'.composer = cpSend.msg \/ \E x \in CpSessions : cpDrafts'[x] = cpSend.msg
    BY <2>1, <2>4
  <2> QED
    BY <1>l, <2>1, <2>5, <2>6, <2>7, CpSendFrame
<1> QED
  BY <1>1, <1>2, <1>3

(* Stop, and the cancel of an interrupt. *)
LEMMA CpStopStep ==
  ASSUME CpInv, PressStop \/ \E p \in cpStops : StopAnswered(p) \/ StopReturns(p)
  PROVE  CpInv' /\ CpKept
<1>t. /\ CpTypeOK /\ cpPage \in CpPages /\ cpSend \in CpSends /\ cpStops \subseteq CpStopRequests
      /\ cpRunning \in [CpSessions -> CpTurns] /\ cpPage.view \in CpSessions
      /\ cpPage.stream \in CpTurns
  BY CpTypes, PageFields DEF CpInv
<1>l. CpLoadInv
  BY DEF CpInv
<1>1. CASE PressStop
  <2> DEFINE q == [sid |-> cpPage.view, turn |-> cpPage.stream, by |-> "user", reply |-> "none"]
  <2>1. /\ cpStops' = cpStops \cup {q} /\ cpLeft' \in CpBudget
        /\ UNCHANGED <<cpServer, cpDrafts, cpPage, cpSend, cpLoad, cpList, cpTyped, cpHome>>
    BY <1>1, <1>t, CpBudgetTypes DEF PressStop
  <2>2. q \in CpStopRequests /\ q.by # "send"
    BY <1>t DEF CpStopRequests
  <2> HIDE DEF q
  <2>3. CpTypeOK'
    BY <1>t, <2>1, <2>2, CpTypes DEF cpServer
  <2>4. CpSendInv' /\ CpStopInv' /\ CpLoadInv'
    BY <2>1, <2>2 DEF CpInv, CpSendInv, CpStopInv, CpLoadInv, cpServer
  <2>5. CpKept
    BY <1>t, <2>1, <2>3, KeptCases DEF cpServer
  <2> QED
    BY <2>3, <2>4, <2>5 DEF CpInv
<1>2. ASSUME NEW p \in cpStops, StopAnswered(p) PROVE CpInv' /\ CpKept
  <2> DEFINE hit == {s \in CpSessions : cpRunning[s] = p.turn}
             gone == UNION {ToSet(cpPage.queue[s]) : s \in hit}
             q == [p EXCEPT !.reply = IF hit = {} THEN "no" ELSE "yes"]
  <2>1. /\ cpRunning' = [s \in CpSessions |-> IF s \in hit THEN Nothing ELSE cpRunning[s]]
        /\ cpPage' = [cpPage EXCEPT !.fresh = @ \ gone]
        /\ cpStops' = (cpStops \ {p}) \cup {q}
        /\ UNCHANGED <<cpTaken, cpDrafts, cpSend, cpLoad, cpList, cpUser>>
    BY <1>2 DEF StopAnswered
  <2>2. q \in CpStopRequests /\ q.by = p.by
    BY <1>2, <1>t DEF CpStopRequests
  <2>3. cpRunning' \in [CpSessions -> CpTurns]
    <3> HIDE DEF hit
    <3> QED
      BY <1>t, <2>1, CpNames
  <2> HIDE DEF gone, q
  <2>4. cpPage' \in CpPages /\ cpPage'.queue = cpPage.queue /\ cpPage'.timers = cpPage.timers
    BY <1>t, <2>1 DEF CpPages
  <2>5. CpTypeOK'
    BY <1>t, <2>1, <2>2, <2>3, <2>4, CpTypes DEF cpUser
  <2>6. Keeps(cpPage, cpPage') /\ TakenKept
    BY <2>1, <2>4, SameQueues DEF TakenKept
  <2>7. CpSendInv' /\ CpStopInv' /\ CpLoadInv'
    BY <1>2, <2>1, <2>2, <2>6 DEF CpInv, CpSendInv, CpStopInv, CpLoadInv, Keeps
  <2>8. CpKept
    BY <1>t, <2>1, <2>5, <2>6, KeptCases DEF Keeps, TakenKept
  <2> QED
    BY <2>5, <2>7, <2>8 DEF CpInv
<1>3. ASSUME NEW p \in cpStops, StopReturns(p) PROVE CpInv' /\ CpKept
  <2> DEFINE I == [cpPage EXCEPT !.stream = Nothing]
  <2>1. /\ cpStops' = cpStops \ {p}
        /\ cpSend' = IF p.by = "send" THEN NoSend ELSE cpSend
        /\ UNCHANGED <<cpServer, cpDrafts, cpLoad, cpList, cpUser>>
        /\ \/ cpPage' = cpPage \/ cpPage' = CloseLive(cpPage, {p.sid})
           \/ cpPage' = SetIdle(I, cpPage.view)
    BY <1>3 DEF StopReturns
  <2>2. Aside(cpPage, I)
    BY <1>t, CpNames DEF Aside, CpPages
  <2> HIDE DEF I
  <2>3. cpPage' \in CpPages /\ Keeps(cpPage, cpPage')
    <3>1. CASE cpPage' = cpPage
      BY <3>1, <1>t DEF Keeps
    <3>2. CASE cpPage' = CloseLive(cpPage, {p.sid})
      <4>1. Aside(cpPage, cpPage')
        BY <3>2, <1>t, CloseLiveAside
      <4> QED
        BY <4>1, SameQueues DEF Aside
    <3>3. CASE cpPage' = SetIdle(I, cpPage.view)
      <4>1. cpPage' \in CpPages /\ Keeps(I, cpPage')
        BY <3>3, <1>t, <2>2, SetIdleKeeps DEF Aside
      <4> QED
        BY <4>1, <2>2, SameQueues, KeepsChain DEF Aside
    <3> QED
      BY <2>1, <3>1, <3>2, <3>3
  <2>4. CpTypeOK' /\ TakenKept
    BY <1>t, <2>1, <2>3, CpNames, CpTypes DEF cpServer, cpUser, TakenKept
  <2>5. CpLoadInv'
    BY <1>l, <2>1 DEF CpLoadInv
  <2>6. CASE p.by = "send"
    <3>1. cpSend.msg = Nothing /\ cpSend' = NoSend /\ \A r \in cpStops' : r.by # "send"
      BY <1>3, <2>1, <2>6 DEF CpInv, CpSendInv, CpStopInv
    <3>2. CpSendInv' /\ CpStopInv'
      BY <3>1, CpNames DEF CpSendInv, CpStopInv
    <3>3. CpKept
      BY <1>t, <2>3, <2>4, <3>1, KeptCases DEF Keeps, TakenKept
    <3> QED
      BY <2>4, <2>5, <3>2, <3>3 DEF CpInv
  <2>7. CASE p.by # "send"
    <3>1. cpSend' = cpSend
      BY <2>1, <2>7
    <3>2. CpSendInv' /\ CpStopInv'
      BY <2>1, <2>3, <2>4, <3>1 DEF CpInv, CpSendInv, CpStopInv, Keeps, TakenKept
    <3>3. CpKept
      BY <1>t, <2>3, <2>4, <3>1, KeptCases DEF Keeps, TakenKept
    <3> QED
      BY <2>4, <2>5, <3>2, <3>3 DEF CpInv
  <2> QED
    BY <2>6, <2>7
<1> QED
  BY <1>1, <1>2, <1>3

(* The end of a turn, at the server and on the page. *)
LEMMA CpEndStep ==
  ASSUME CpInv, NEW s \in CpSessions, TurnEnds(s) \/ TurnEndShown(s) \/ OtherStarts(s)
  PROVE  CpInv' /\ CpKept
<1>t. /\ CpTypeOK /\ cpPage \in CpPages /\ cpRunning \in [CpSessions -> CpTurns]
      /\ cpPage.view \in CpSessions
  BY CpTypes, PageFields DEF CpInv
<1>l. cpLoad.phase # "none" => cpLoad.sid \in CpSessions
  BY DEF CpInv, CpLoadInv
<1>1. CASE TurnEnds(s)
  <2> DEFINE gone == ToSet(cpPage.queue[s])
  <2>1. /\ cpRunning' = [cpRunning EXCEPT ![s] = Nothing]
        /\ cpPage' = [cpPage EXCEPT !.fresh = @ \ gone]
        /\ UNCHANGED <<cpTaken, cpDrafts, cpSend, cpLoad, cpStops, cpList, cpUser>>
    BY <1>1 DEF TurnEnds
  <2> HIDE DEF gone
  <2>2. cpPage' \in CpPages /\ cpPage'.queue = cpPage.queue /\ cpPage'.timers = cpPage.timers
    BY <1>t, <2>1 DEF CpPages
  <2>3. CpTypeOK'
    BY <1>t, <2>1, <2>2, CpNames, CpTypes DEF cpUser
  <2>4. Keeps(cpPage, cpPage') /\ TakenKept
    BY <2>1, <2>2, SameQueues DEF TakenKept
  <2> QED
    BY <1>l, <2>1, <2>3, <2>4, CpFrame
<1>2. CASE TurnEndShown(s)
  <2> DEFINE F == Forgotten(cpPage, s)
             P == [F EXCEPT !.live[s] = Nothing]
             R == [P EXCEPT !.stream = Nothing, !.confirm = FALSE]
  <2>1. /\ UNCHANGED <<cpServer, cpDrafts, cpSend, cpLoad, cpStops, cpList, cpUser>>
        /\ \/ cpPage' = CloseLive(cpPage, {s}) \/ cpPage' = SetIdle(R, s)
           \/ cpPage' = SetIdle(P, P.view) \/ cpPage' = P
    BY <1>2 DEF TurnEndShown
  <2>2. Aside(cpPage, F)
    BY <1>t, ForgottenAside
  <2> HIDE DEF F
  <2>3. Aside(cpPage, P)
    <3>1. F.live \in [CpSessions -> CpTurns] /\ F \in CpPages
      BY <2>2, PageFields DEF Aside
    <3> DEFINE lv == [F.live EXCEPT ![s] = Nothing]
    <3>2. lv \in [CpSessions -> CpTurns] /\ P = [F EXCEPT !.live = lv]
      BY <3>1, CpNames
    <3> HIDE DEF lv
    <3> QED
      BY <2>2, <3>1, <3>2 DEF Aside, CpPages
  <2> HIDE DEF P
  <2>4. Aside(cpPage, R)
    BY <2>3, CpNames DEF Aside, CpPages
  <2> HIDE DEF R
  <2>5. cpPage' \in CpPages /\ Keeps(cpPage, cpPage')
    <3>1. CASE cpPage' = CloseLive(cpPage, {s}) \/ cpPage' = P
      <4>1. Aside(cpPage, cpPage')
        BY <3>1, <1>t, <2>3, CloseLiveAside
      <4> QED
        BY <4>1, SameQueues DEF Aside
    <3>2. CASE cpPage' = SetIdle(R, s)
      <4>1. cpPage' \in CpPages /\ Keeps(R, cpPage')
        BY <3>2, <2>4, SetIdleKeeps DEF Aside
      <4> QED
        BY <4>1, <2>4, SameQueues, KeepsChain DEF Aside
    <3>3. CASE cpPage' = SetIdle(P, P.view)
      <4>1. cpPage' \in CpPages /\ Keeps(P, cpPage')
        BY <3>3, <1>t, <2>3, SetIdleKeeps DEF Aside
      <4> QED
        BY <4>1, <2>3, SameQueues, KeepsChain DEF Aside
    <3> QED
      BY <2>1, <3>1, <3>2, <3>3
  <2>6. CpTypeOK' /\ TakenKept
    BY <1>t, <2>1, <2>5, CpTypes DEF cpServer, cpUser, TakenKept
  <2> QED
    BY <1>l, <2>1, <2>5, <2>6, CpFrame
<1>3. CASE OtherStarts(s)
  <2>1. /\ cpRunning' = [cpRunning EXCEPT ![s] = Foreign] /\ cpLeft' \in CpBudget
        /\ UNCHANGED <<cpTaken, cpDrafts, cpPage, cpSend, cpLoad, cpStops, cpList,
                       cpTyped, cpHome>>
    BY <1>3, <1>t, CpBudgetTypes DEF OtherStarts
  <2>2. CpTypeOK' /\ TakenKept /\ Keeps(cpPage, cpPage')
    BY <1>t, <2>1, CpNames, CpTypes DEF TakenKept, Keeps
  <2> QED
    BY <1>l, <2>1, <2>2, CpFrame
<1> QED
  BY <1>1, <1>2, <1>3

(* loadSession. *)
LEMMA CpLoadStep ==
  ASSUME CpInv,
         \/ \E s \in CpSessions : OpenSession(s)
         \/ DraftSaved \/ MetadataAnswered \/ MetadataShown
  PROVE  CpInv' /\ CpKept
<1>t. /\ CpTypeOK /\ cpPage \in CpPages /\ cpRunning \in [CpSessions -> CpTurns]
      /\ cpLoad \in CpLoads /\ cpDrafts \in [CpSessions -> CpDraft]
      /\ cpPage.view \in CpSessions /\ cpPage.composer \in CpDraft
  BY CpTypes, PageFields DEF CpInv
<1>l. cpLoad.phase # "none" => cpLoad.sid \in CpSessions
  BY DEF CpInv, CpLoadInv
<1>1. ASSUME NEW s \in CpSessions, OpenSession(s) PROVE CpInv' /\ CpKept
  <2>1. /\ LoadBegins(cpPage, s) /\ ~LoadsNothing(s) /\ cpLeft' \in CpBudget
        /\ UNCHANGED <<cpServer, cpPage, cpSend, cpStops, cpList, cpTyped, cpHome>>
    BY <1>1, <1>t, CpBudgetTypes DEF OpenSession
  <2>2. cpLoad' \in CpLoads /\ (cpLoad'.phase # "none" => cpLoad'.sid \in CpSessions)
    <3>1. cpLoad' = [NoLoad EXCEPT !.sid = s, !.phase = "asked"]
          \/ cpLoad' = [NoLoad EXCEPT !.sid = s, !.phase = "saving"]
      BY <2>1 DEF LoadBegins
    <3> QED
      BY <3>1, CpNames DEF CpLoads, NoLoad
  <2>3. cpDrafts' \in [CpSessions -> CpDraft]
    BY <1>t, <2>1 DEF LoadBegins
  <2>4. CpTypeOK' /\ TakenKept /\ Keeps(cpPage, cpPage')
    BY <1>t, <2>1, <2>2, <2>3, CpTypes DEF TakenKept, Keeps, cpServer
  <2> QED
    BY <2>1, <2>2, <2>4, CpFrame
<1>2. CASE DraftSaved
  <2> DEFINE held == [cpPage EXCEPT !.inflight[cpPage.view] = "held"]
             kept == IF cpPage.inflight[cpPage.view] = "none"
                        /\ (cpPage.busy \/ cpPage.stream # Nothing) THEN held ELSE cpPage
             S == CpSessions \ {cpLoad.sid}
  <2>1. /\ cpLoad.phase = "saving" /\ cpLoad' = [cpLoad EXCEPT !.phase = "asked"]
        /\ cpPage' = CloseLive(kept, S)
        /\ UNCHANGED <<cpServer, cpDrafts, cpSend, cpStops, cpList, cpUser>>
    BY <1>2 DEF DraftSaved
  <2>2. Aside(cpPage, held) /\ Aside(cpPage, cpPage)
    BY <1>t DEF Aside, CpPages
  <2> HIDE DEF held, S
  <2>3. Aside(kept, cpPage') /\ Aside(cpPage, kept)
    BY <2>1, <2>2, CloseLiveAside DEF Aside
  <2> HIDE DEF kept
  <2>4. cpPage' \in CpPages /\ cpPage'.queue = cpPage.queue /\ cpPage'.timers = cpPage.timers
    BY <2>3 DEF Aside
  <2>5. cpLoad' \in CpLoads /\ cpLoad'.sid = cpLoad.sid
    BY <1>t, <2>1 DEF CpLoads
  <2>6. CpTypeOK' /\ TakenKept /\ Keeps(cpPage, cpPage')
    BY <1>t, <2>1, <2>4, <2>5, CpTypes, SameQueues DEF TakenKept, cpServer, cpUser
  <2> QED
    BY <1>l, <2>1, <2>5, <2>6, CpFrame
<1>3. CASE MetadataAnswered
  <2>1. /\ cpLoad.phase = "asked"
        /\ cpLoad' = [cpLoad EXCEPT !.phase = "answered", !.found = cpRunning[cpLoad.sid],
                        !.draft = IF CpServerTells THEN cpDrafts[cpLoad.sid] ELSE Nothing]
        /\ UNCHANGED <<cpServer, cpDrafts, cpPage, cpSend, cpStops, cpList, cpUser>>
    BY <1>3 DEF MetadataAnswered
  <2>2. (IF CpServerTells THEN cpDrafts[cpLoad.sid] ELSE Nothing) \in CpDraft
        /\ cpRunning[cpLoad.sid] \in CpTurns
    BY <1>t, <1>l, <2>1, CpNames
  <2>3. cpLoad' \in CpLoads /\ cpLoad'.sid = cpLoad.sid
    BY <1>t, <2>1, <2>2 DEF CpLoads
  <2>4. CpTypeOK' /\ TakenKept /\ Keeps(cpPage, cpPage')
    BY <1>t, <2>1, <2>3, CpTypes DEF TakenKept, Keeps, cpServer, cpUser
  <2> QED
    BY <1>l, <2>1, <2>3, <2>4, CpFrame
<1>4. CASE MetadataShown
  <2> DEFINE F == Forgotten(cpPage, cpLoad.sid)
  <2>1. /\ cpLoad.phase = "answered"
        /\ \/ cpLoad' = [cpLoad EXCEPT !.phase = "showing live"]
           \/ cpLoad' = [cpLoad EXCEPT !.phase = "shown"]
        /\ \/ cpPage' = [cpPage EXCEPT !.view = cpLoad.sid, !.confirm = TRUE]
           \/ cpPage' = [F EXCEPT !.view = cpLoad.sid, !.confirm = FALSE, !.busy = FALSE,
                           !.stream = Nothing]
        /\ UNCHANGED <<cpServer, cpDrafts, cpSend, cpStops, cpList, cpUser>>
    BY <1>4 DEF MetadataShown
  <2>2. Aside(cpPage, F) /\ cpLoad.sid \in CpSessions
    BY <1>t, <1>l, <2>1, ForgottenAside
  <2> HIDE DEF F
  <2>3. cpPage' \in CpPages /\ cpPage'.queue = cpPage.queue /\ cpPage'.timers = cpPage.timers
    <3>1. CASE cpPage' = [cpPage EXCEPT !.view = cpLoad.sid, !.confirm = TRUE]
      BY <1>t, <2>2, <3>1 DEF CpPages
    <3>2. CASE cpPage' = [F EXCEPT !.view = cpLoad.sid, !.confirm = FALSE, !.busy = FALSE,
                            !.stream = Nothing]
      <4>1. F \in CpPages /\ F.queue = cpPage.queue /\ F.timers = cpPage.timers
            /\ Nothing \in CpTurns
        BY <2>2, CpNames DEF Aside
      <4> QED
        BY <2>2, <3>2, <4>1 DEF CpPages
    <3> QED
      BY <2>1, <3>1, <3>2
  <2>4. cpLoad' \in CpLoads /\ cpLoad'.sid = cpLoad.sid
    BY <1>t, <2>1 DEF CpLoads
  <2>5. CpTypeOK' /\ TakenKept /\ Keeps(cpPage, cpPage')
    BY <1>t, <2>1, <2>3, <2>4, CpTypes, SameQueues DEF TakenKept, cpServer, cpUser
  <2> QED
    BY <1>l, <2>1, <2>4, <2>5, CpFrame
<1> QED
  BY <1>1, <1>2, <1>3, <1>4

LEMMA CpLoadedStep ==
  ASSUME CpInv, MessagesLoaded \/ LiveTurnLoaded
  PROVE  CpInv' /\ CpKept
<1>t. CpTypeOK /\ cpPage \in CpPages /\ cpLoad \in CpLoads
  BY CpTypes DEF CpInv
<1>l. cpLoad.phase # "none" => cpLoad.sid \in CpSessions
  BY DEF CpInv, CpLoadInv
<1>f. cpLoad.found \in CpTurns /\ cpLoad.draft \in CpDraft
  BY <1>t DEF CpLoads
<1>e. ASSUME NEW P \in CpPages, Keeps(cpPage, P), LoadEnds(P),
             UNCHANGED <<cpServer, cpDrafts, cpSend, cpStops, cpList, cpUser>>
      PROVE  CpInv' /\ CpKept
  <2>1. cpPage' = [P EXCEPT !.composer = IF CpServerTells THEN cpLoad.draft ELSE @]
        /\ cpLoad' = NoLoad
    BY <1>e DEF LoadEnds
  <2>2. cpPage' \in CpPages /\ cpPage'.queue = P.queue /\ cpPage'.timers = P.timers
    BY <1>e, <1>f, <2>1 DEF CpPages
  <2>3. Keeps(cpPage, cpPage') /\ TakenKept
    BY <1>e, <2>2, SameQueues, KeepsChain DEF TakenKept, cpServer
  <2>4. CpTypeOK'
    BY <1>e, <1>t, <2>1, <2>2, CpNames, CpTypes DEF cpServer, cpUser
  <2> QED
    BY <1>e, <2>1, <2>3, <2>4, CpNames, CpFrame
<1>1. CASE MessagesLoaded
  <2> DEFINE P == QueueRestored(cpPage, cpLoad.sid)
             turn == IF cpLoad.found # Nothing THEN cpLoad.found ELSE P.stream
             Q == [P EXCEPT !.stream = turn, !.busy = turn # Nothing]
             R == IF turn = Nothing THEN Q ELSE AttachLive(Q, cpLoad.sid, turn)
  <2>1. /\ cpLoad.phase = "shown" /\ LoadEnds(R)
        /\ UNCHANGED <<cpServer, cpDrafts, cpSend, cpStops, cpList, cpUser>>
    BY <1>1 DEF MessagesLoaded
  <2>2. P \in CpPages /\ Keeps(cpPage, P) /\ cpLoad.sid \in CpSessions
    BY <1>t, <1>l, <2>1, QueueRestoredKeeps
  <2> HIDE DEF P
  <2>3. turn \in CpTurns
    BY <1>f, <2>2, PageFields
  <2> HIDE DEF turn
  <2>4. Aside(P, Q)
    BY <2>2, <2>3 DEF Aside, CpPages
  <2> HIDE DEF Q
  <2>5. R \in CpPages /\ R.queue = P.queue /\ R.timers = P.timers
    BY <2>2, <2>3, <2>4, AttachLiveAside DEF Aside
  <2> HIDE DEF R
  <2>6. Keeps(cpPage, R)
    BY <2>2, <2>5, SameQueues, KeepsChain
  <2> QED
    BY <1>e, <2>1, <2>5, <2>6
<1>2. CASE LiveTurnLoaded
  <2> DEFINE s == cpLoad.sid
             P == [cpPage EXCEPT !.stream = cpLoad.found, !.busy = TRUE]
             H == [P EXCEPT !.inflight[s] = "held"]
             R == AttachLive(H, s, cpLoad.found)
  <2>1. /\ cpLoad.phase = "showing live"
        /\ \/ cpLoad' = [cpLoad EXCEPT !.phase = "broken"] /\ UNCHANGED cpPage
           \/ LoadEnds(P)
           \/ LoadEnds(R)
        /\ UNCHANGED <<cpServer, cpDrafts, cpSend, cpStops, cpList, cpUser>>
    BY <1>2 DEF LiveTurnLoaded
  <2>2. s \in CpSessions
    BY <1>l, <2>1
  <2>3. Aside(cpPage, P)
    BY <1>t, <1>f DEF Aside, CpPages
  <2> HIDE DEF P, s
  <2>4. Aside(P, H)
    <3>1. P.inflight \in [CpSessions -> {"none", "held", "reattach"}] /\ P \in CpPages
      BY <2>3, PageFields DEF Aside
    <3> DEFINE inf == [P.inflight EXCEPT ![s] = "held"]
    <3>2. inf \in [CpSessions -> {"none", "held", "reattach"}] /\ H = [P EXCEPT !.inflight = inf]
      BY <3>1
    <3> HIDE DEF inf
    <3> QED
      BY <3>1, <3>2 DEF Aside, CpPages
  <2> HIDE DEF H
  <2>5. Aside(H, R)
    BY <1>f, <2>2, <2>4, AttachLiveAside DEF Aside
  <2> HIDE DEF R
  <2>6. Keeps(cpPage, P) /\ Keeps(cpPage, R) /\ P \in CpPages /\ R \in CpPages
    BY <2>3, <2>4, <2>5, SameQueues DEF Aside
  <2>7. CASE cpLoad' = [cpLoad EXCEPT !.phase = "broken"] /\ UNCHANGED cpPage
    <3>1. cpLoad' \in CpLoads /\ cpLoad'.sid = cpLoad.sid
      BY <1>t, <2>7 DEF CpLoads
    <3>2. CpTypeOK' /\ TakenKept /\ Keeps(cpPage, cpPage')
      BY <1>t, <2>1, <2>7, <3>1, CpTypes DEF TakenKept, Keeps, cpServer, cpUser
    <3> QED
      BY <1>l, <2>1, <3>1, <3>2, CpFrame
  <2> QED
    BY <1>e, <2>1, <2>6, <2>7
<1> QED
  BY <1>1, <1>2

(* The list. *)
LEMMA CpListStep ==
  ASSUME CpInv, ListAsked \/ ListReconciles
  PROVE  CpInv' /\ CpKept
<1>t. CpTypeOK /\ cpPage \in CpPages /\ cpRunning \in [CpSessions -> CpTurns]
  BY CpTypes DEF CpInv
<1>l. cpLoad.phase # "none" => cpLoad.sid \in CpSessions
  BY DEF CpInv, CpLoadInv
<1>1. CASE ListAsked
  <2>1. /\ cpList' = [s \in CpSessions |-> IF CpServerTells THEN cpRunning[s] ELSE Nothing]
        /\ UNCHANGED <<cpServer, cpDrafts, cpPage, cpSend, cpLoad, cpStops, cpUser>>
    BY <1>1 DEF ListAsked
  <2>2. cpList' \in [CpSessions -> CpTurns]
    BY <1>t, <2>1, CpNames
  <2>3. CpTypeOK' /\ TakenKept /\ Keeps(cpPage, cpPage')
    BY <1>t, <2>1, <2>2, CpTypes DEF TakenKept, Keeps, cpServer, cpUser
  <2> QED
    BY <1>l, <2>1, <2>3, CpFrame
<1>2. CASE ListReconciles
  <2> DEFINE idle == {s \in CpSessions : cpList[s] = Nothing}
             sending == IF cpSend.phase \in {"idle", "steering", "steered", "refused",
                                             "stopping"} THEN {} ELSE {cpSend.sid}
             P == ListIdles(cpPage, idle, sending)
  <2>1. /\ cpList' = << >> /\ cpPage' \in Purged(P, idle, sending)
        /\ UNCHANGED <<cpServer, cpDrafts, cpSend, cpLoad, cpStops, cpUser>>
    BY <1>2 DEF ListReconciles
  <2> HIDE DEF idle, sending
  <2>2. Aside(cpPage, P)
    <3>1. P = cpPage \/ P = [cpPage EXCEPT !.busy = FALSE, !.stream = Nothing, !.confirm = FALSE]
      BY DEF ListIdles
    <3> QED
      BY <1>t, <3>1, CpNames DEF Aside, CpPages
  <2> HIDE DEF P
  <2>3. PICK gone : cpPage' = [P EXCEPT !.inflight =
                                 [s \in CpSessions |-> IF s \in gone THEN "none" ELSE @[s]]]
    BY <2>1 DEF Purged
  <2> DEFINE inf == [s \in CpSessions |-> IF s \in gone THEN "none" ELSE P.inflight[s]]
  <2>4. inf \in [CpSessions -> {"none", "held", "reattach"}]
        /\ cpPage' = [P EXCEPT !.inflight = inf] /\ P \in CpPages
    BY <2>2, <2>3, PageFields DEF Aside
  <2> HIDE DEF inf
  <2>5. cpPage' \in CpPages /\ cpPage'.queue = cpPage.queue /\ cpPage'.timers = cpPage.timers
    BY <2>2, <2>4 DEF Aside, CpPages
  <2>6. CpTypeOK' /\ TakenKept /\ Keeps(cpPage, cpPage')
    BY <1>t, <2>1, <2>5, CpTypes, SameQueues DEF TakenKept, cpServer, cpUser
  <2> QED
    BY <1>l, <2>1, <2>6, CpFrame
<1> QED
  BY <1>1, <1>2

LEMMA CpStep == CpInv /\ CpNext => CpInv' /\ CpKept
<1> SUFFICES ASSUME CpInv, CpNext PROVE CpInv' /\ CpKept
  OBVIOUS
<1>1. CASE TypeMessage \/ \E mode \in CpModes : PressSend(mode)
  BY <1>1, CpUserStep
<1>2. CASE PressStop \/ CpStopping
  BY <1>2, CpStopStep DEF CpStopping
<1>3. CASE \E s \in CpSessions : OpenSession(s) \/ OtherStarts(s)
  BY <1>3, CpLoadStep, CpEndStep
<1>4. CASE CpLoading
  BY <1>4, CpLoadStep, CpLoadedStep DEF CpLoading
<1>5. CASE CpSending
  BY <1>5, CpStartStep, CpRefusedStep, CpSteerStep DEF CpSending
<1>6. CASE CpDraining
  BY <1>6, CpDrainStep DEF CpDraining
<1>7. CASE CpEnding \/ CpListing
  BY <1>7, CpEndStep, CpListStep DEF CpEnding, CpListing
<1> QED
  BY <1>1, <1>2, <1>3, <1>4, <1>5, <1>6, <1>7 DEF CpNext

-----------------------------------------------------------------------------
(* The follower of a live turn *)

LvTabs ==
  [here: BOOLEAN, load: {"none", "leaving", "asked"}, busy: BOOLEAN,
   stream: 0 .. LvTurns, inflight: {"none", "held", "reattach"},
   live: Nat \X Nat, open: SUBSET (Nat \X Nat), hidden: BOOLEAN,
   followers: Seq(LvFollower), shown: 0 .. LvTurns, notice: 0 .. LvTurns]
LvBudget == [faults: Nat, moves: Nat, hides: Nat]
LvEvents == LvRelays \cup {"error", "done", "stream_end"}

(* The turns sent, and those that are over for a follower: the server has   *)
(* stored the answer, or restarted, or the agent sent a terminal event.     *)
Sent  == {t \in 1 .. LvTurns : lvPhase[t] # "unsent"}
Overs == {t \in 1 .. LvTurns : lvPhase[t] \in {"stored", "ended", "dead"} \/ Relayed(t)}

(* A follower is of a turn that was sent, and fades, recovers or knows of   *)
(* an idle session only when its turn is over.                              *)
Fit(f, S, D) ==
  /\ f \in LvFollower /\ f.turn \in S
  /\ f.fading \/ f.recovery # "none" \/ f.reply.kind = "idle" => f.turn \in D

(* A tab with fit followers and no open source but the one in LIVE_STREAMS. *)
Tab(P, S, D) ==
  /\ P \in LvTabs
  /\ P.live = NoSource \/ P.live[1] \in 1 .. Len(P.followers)
  /\ P.open \subseteq {P.live} \ {NoSource}
  /\ \A i \in 1 .. Len(P.followers) : Fit(P.followers[i], S, D)

(* Of the turns, only the newest can be running, and the session's marker   *)
(* names it; a journal that has not ended has no done.                      *)
LvServerInv ==
  /\ lvTurn \in 0 .. LvTurns /\ lvMarked \in 0 .. lvTurn
  /\ lvPhase \in [1 .. LvTurns -> {"unsent", "running", "stored", "ended", "dead"}]
  /\ lvJournal \in [1 .. LvTurns -> Seq(LvEvents)]
  /\ \A t \in 1 .. LvTurns :
       /\ lvPhase[t] = "unsent" <=> t > lvTurn
       /\ lvPhase[t] = "running" => t = lvTurn /\ lvMarked = t
       /\ lvPhase[t] \in {"unsent", "running", "stored"} =>
            \A k \in 1 .. Len(lvJournal[t]) : lvJournal[t][k] \in LvRelays \cup {"error"}

LvInv == LvServerInv /\ lvLeft \in LvBudget /\ Tab(lvTab, Sent, Overs)

(* What a step may do to the stream of the session shown (OwnStreamOnly).   *)
LvOwned ==
  lvTab.here /\ lvTab'.here /\ lvTab.stream # 0 /\ lvTab'.stream = 0 =>
    \/ lvPhase[lvTab.stream] # "running" \/ Relayed(lvTab.stream)
    \/ lvTab'.notice = lvTab.stream
    \/ \E i \in LvIds : lvTab.followers[i].turn # lvTab.stream /\ NotDone(lvTab.followers[i])

(* The page Q has the session shown, its stream and the followers of P. *)
Like(P, Q) ==
  /\ Q.here = P.here /\ Q.stream = P.stream /\ Q.load = P.load /\ Q.hidden = P.hidden
  /\ Len(Q.followers) = Len(P.followers)
  /\ \A j \in 1 .. Len(P.followers) : Q.followers[j].turn = P.followers[j].turn

(* The same but for the stream, which may be nulled. *)
Nulls(P, Q) ==
  /\ Q.here = P.here /\ Q.load = P.load /\ Q.hidden = P.hidden
  /\ Len(Q.followers) = Len(P.followers)
  /\ \A j \in 1 .. Len(P.followers) : Q.followers[j].turn = P.followers[j].turn

LEMMA LikeChain ==
  ASSUME NEW P, NEW Q, NEW R, Like(P, Q), Like(Q, R)
  PROVE  Like(P, R)
BY DEF Like

LEMMA NullsChain ==
  ASSUME NEW P, NEW Q, NEW R, Nulls(P, Q), Nulls(Q, R)
  PROVE  Nulls(P, R)
BY DEF Nulls

LEMMA LikeNulls ==
  ASSUME NEW P, NEW Q, Like(P, Q)
  PROVE  Nulls(P, Q) /\ Q.stream = P.stream
BY DEF Like, Nulls

LEMMA TabFields ==
  ASSUME NEW S, NEW D, NEW P, Tab(P, S, D)
  PROVE  /\ P \in LvTabs /\ P.followers \in Seq(LvFollower) /\ Len(P.followers) \in Nat
         /\ P.here \in BOOLEAN /\ P.busy \in BOOLEAN /\ P.hidden \in BOOLEAN
         /\ P.stream \in 0 .. LvTurns /\ P.live \in Nat \X Nat
         /\ P.inflight \in {"none", "held", "reattach"} /\ P.open \subseteq Nat \X Nat
         /\ \A i \in 1 .. Len(P.followers) :
              /\ Fit(P.followers[i], S, D) /\ P.followers[i] \in LvFollower
              /\ P.followers[i].turn \in S /\ P.followers[i].turn \in 1 .. LvTurns
<1>1. /\ P \in LvTabs /\ P.followers \in Seq(LvFollower)
      /\ P.here \in BOOLEAN /\ P.busy \in BOOLEAN /\ P.hidden \in BOOLEAN
      /\ P.stream \in 0 .. LvTurns /\ P.live \in Nat \X Nat
      /\ P.inflight \in {"none", "held", "reattach"} /\ P.open \subseteq Nat \X Nat
  BY DEF Tab, LvTabs
<1>2. \A i \in 1 .. Len(P.followers) : Fit(P.followers[i], S, D)
  BY DEF Tab
<1>3. \A f : Fit(f, S, D) => f \in LvFollower /\ f.turn \in S /\ f.turn \in 1 .. LvTurns
  BY DEF Fit, LvFollower
<1> QED
  BY <1>1, <1>2, <1>3

(* Only fields of the page change. *)
LEMMA EditPage ==
  ASSUME NEW S, NEW D, NEW P, Tab(P, S, D), NEW Q \in LvTabs,
         Q.followers = P.followers, Q.live = P.live, Q.open \subseteq P.open
  PROVE  Tab(Q, S, D)
BY DEF Tab

(* Only one follower changes, of the same turn. *)
LEMMA EditFollower ==
  ASSUME NEW S, NEW D, NEW P, Tab(P, S, D), NEW i \in 1 .. Len(P.followers), NEW g,
         Fit(g, S, D), g.turn = P.followers[i].turn
  PROVE  LET Q == [P EXCEPT !.followers = [P.followers EXCEPT ![i] = g]] IN
         /\ Tab(Q, S, D) /\ Like(P, Q) /\ Q.followers[i] = g
         /\ \A j \in 1 .. Len(P.followers) : j # i => Q.followers[j] = P.followers[j]
         /\ Q.live = P.live /\ Q.open = P.open /\ Q.inflight = P.inflight /\ Q.busy = P.busy
<1> DEFINE fs == [P.followers EXCEPT ![i] = g]
           Q == [P EXCEPT !.followers = fs]
<1>1. P.followers \in Seq(LvFollower) /\ g \in LvFollower /\ P \in LvTabs
  BY TabFields DEF Fit
<1>2. /\ fs \in Seq(LvFollower) /\ Len(fs) = Len(P.followers) /\ fs[i] = g
      /\ \A j \in 1 .. Len(P.followers) : j # i => fs[j] = P.followers[j]
  BY <1>1
<1> HIDE DEF fs
<1>3. Q \in LvTabs /\ Q.followers = fs /\ Q.live = P.live /\ Q.open = P.open
      /\ Q.here = P.here /\ Q.stream = P.stream /\ Q.load = P.load /\ Q.hidden = P.hidden
      /\ Q.inflight = P.inflight /\ Q.busy = P.busy
  BY <1>1, <1>2 DEF LvTabs
<1> HIDE DEF Q
<1>4. \A j \in 1 .. Len(fs) : Fit(fs[j], S, D)
  BY <1>1, <1>2 DEF Tab
<1>5. Tab(Q, S, D)
  BY <1>2, <1>3, <1>4 DEF Tab
<1>6. Like(P, Q)
  BY <1>2, <1>3 DEF Like
<1> QED
  BY <1>2, <1>3, <1>5, <1>6 DEF Q, fs

(* g is f with other fields, of the same turn; Q is P with such a follower. *)
FitAs(g, f, S, D) == Fit(g, S, D) /\ g.turn = f.turn
Edited(Q, P, S, D) ==
  /\ Tab(Q, S, D) /\ Like(P, Q) /\ Q.live = P.live /\ Q.open = P.open
  /\ Q.notice = P.notice

LEMMA EditedChain ==
  ASSUME NEW S, NEW D, NEW P, NEW Q, NEW R, Edited(Q, P, S, D), Edited(R, Q, S, D)
  PROVE  Edited(R, P, S, D)
BY LikeChain DEF Edited

(* The fields of a follower the steps assign. *)
LEMMA FitEdits ==
  ASSUME NEW S, NEW D, NEW f, Fit(f, S, D)
  PROVE  /\ FitAs([f EXCEPT !.final = TRUE], f, S, D)
         /\ FitAs([f EXCEPT !.fading = FALSE], f, S, D)
         /\ f.turn \in D => FitAs([f EXCEPT !.fading = TRUE], f, S, D)
         /\ \A c \in Chains : FitAs([f EXCEPT !.chain = c], f, S, D)
         /\ \A n \in Nat : FitAs([f EXCEPT !.chainsrc = n], f, S, D)
         /\ \A n \in Nat : FitAs([f EXCEPT !.recsrc = n], f, S, D)
         /\ \A n \in Nat : FitAs([f EXCEPT !.probes = n], f, S, D)
         /\ \A n \in Nat : FitAs([f EXCEPT !.seen = n], f, S, D)
         /\ \A n \in Nat : FitAs([f EXCEPT !.wired = n], f, S, D)
         /\ \A n \in Nat : FitAs([f EXCEPT !.tries = n], f, S, D)
         /\ FitAs([f EXCEPT !.lost = TRUE], f, S, D)
         /\ \A b \in BOOLEAN : FitAs([f EXCEPT !.pending = b], f, S, D)
         /\ FitAs([f EXCEPT !.recovery = "none"], f, S, D)
         /\ \A r \in {"scheduled", "asking", "settling"} : f.turn \in D => FitAs([f EXCEPT !.recovery = r], f, S, D)
         /\ \A r \in LvReply : FitAs([f EXCEPT !.recreply = r], f, S, D)
         /\ \A r \in LvReply : (r.kind = "idle" => f.turn \in D) => FitAs([f EXCEPT !.reply = r], f, S, D)
BY DEF FitAs, Fit, LvFollower

LEMMA Edits ==
  ASSUME NEW S, NEW D, NEW P, Tab(P, S, D), NEW i \in 1 .. Len(P.followers)
  PROVE  /\ Edited([P EXCEPT !.followers[i].final = TRUE], P, S, D)
         /\ Edited([P EXCEPT !.followers[i].fading = FALSE], P, S, D)
         /\ P.followers[i].turn \in D => Edited([P EXCEPT !.followers[i].fading = TRUE], P, S, D)
         /\ \A c \in Chains : Edited([P EXCEPT !.followers[i].chain = c], P, S, D)
         /\ \A n \in Nat : Edited([P EXCEPT !.followers[i].chainsrc = n], P, S, D)
         /\ \A n \in Nat : Edited([P EXCEPT !.followers[i].recsrc = n], P, S, D)
         /\ \A n \in Nat : Edited([P EXCEPT !.followers[i].probes = n], P, S, D)
         /\ \A n \in Nat : Edited([P EXCEPT !.followers[i].seen = n], P, S, D)
         /\ \A n \in Nat : Edited([P EXCEPT !.followers[i].wired = n], P, S, D)
         /\ \A n \in Nat : Edited([P EXCEPT !.followers[i].tries = n], P, S, D)
         /\ Edited([P EXCEPT !.followers[i].lost = TRUE], P, S, D)
         /\ \A b \in BOOLEAN : Edited([P EXCEPT !.followers[i].pending = b], P, S, D)
         /\ Edited([P EXCEPT !.followers[i].recovery = "none"], P, S, D)
         /\ \A r \in {"scheduled", "asking", "settling"} : P.followers[i].turn \in D => Edited([P EXCEPT !.followers[i].recovery = r], P, S, D)
         /\ \A r \in LvReply : Edited([P EXCEPT !.followers[i].recreply = r], P, S, D)
         /\ \A r \in LvReply : (r.kind = "idle" => P.followers[i].turn \in D) => Edited([P EXCEPT !.followers[i].reply = r], P, S, D)
<1> DEFINE f == P.followers[i]
<1>1. Fit(f, S, D)
  BY TabFields
<1>2. ASSUME NEW g, FitAs(g, f, S, D)
      PROVE  Edited([P EXCEPT !.followers = [P.followers EXCEPT ![i] = g]], P, S, D)
  <2>1. [P EXCEPT !.followers = [P.followers EXCEPT ![i] = g]].notice = P.notice
    BY DEF Tab, LvTabs
  <2> QED
    BY <1>2, <2>1, EditFollower DEF FitAs, Edited
<1>3. Edited([P EXCEPT !.followers[i].final = TRUE], P, S, D)
  <2>1. FitAs([f EXCEPT !.final = TRUE], f, S, D)
    BY <1>1, <1>2, FitEdits
  <2> QED
    BY <1>2, <2>1
<1>4. Edited([P EXCEPT !.followers[i].fading = FALSE], P, S, D)
  <2>1. FitAs([f EXCEPT !.fading = FALSE], f, S, D)
    BY <1>1, <1>2, FitEdits
  <2> QED
    BY <1>2, <2>1
<1>5. ASSUME f.turn \in D
      PROVE  Edited([P EXCEPT !.followers[i].fading = TRUE], P, S, D)
  <2>1. FitAs([f EXCEPT !.fading = TRUE], f, S, D)
    BY <1>1, <1>2, <1>5, FitEdits
  <2> QED
    BY <1>2, <2>1
<1>6. ASSUME NEW c \in Chains
      PROVE  Edited([P EXCEPT !.followers[i].chain = c], P, S, D)
  <2>1. FitAs([f EXCEPT !.chain = c], f, S, D)
    BY <1>1, <1>2, <1>6, FitEdits
  <2> QED
    BY <1>2, <2>1
<1>7. ASSUME NEW n \in Nat
      PROVE  Edited([P EXCEPT !.followers[i].chainsrc = n], P, S, D)
  <2>1. FitAs([f EXCEPT !.chainsrc = n], f, S, D)
    BY <1>1, <1>2, <1>7, FitEdits
  <2> QED
    BY <1>2, <2>1
<1>8. ASSUME NEW n \in Nat
      PROVE  Edited([P EXCEPT !.followers[i].recsrc = n], P, S, D)
  <2>1. FitAs([f EXCEPT !.recsrc = n], f, S, D)
    BY <1>1, <1>2, <1>8, FitEdits
  <2> QED
    BY <1>2, <2>1
<1>9. ASSUME NEW n \in Nat
      PROVE  Edited([P EXCEPT !.followers[i].probes = n], P, S, D)
  <2>1. FitAs([f EXCEPT !.probes = n], f, S, D)
    BY <1>1, <1>2, <1>9, FitEdits
  <2> QED
    BY <1>2, <2>1
<1>10. ASSUME NEW n \in Nat
      PROVE  Edited([P EXCEPT !.followers[i].seen = n], P, S, D)
  <2>1. FitAs([f EXCEPT !.seen = n], f, S, D)
    BY <1>1, <1>2, <1>10, FitEdits
  <2> QED
    BY <1>2, <2>1
<1>11. ASSUME NEW n \in Nat
      PROVE  Edited([P EXCEPT !.followers[i].wired = n], P, S, D)
  <2>1. FitAs([f EXCEPT !.wired = n], f, S, D)
    BY <1>1, <1>2, <1>11, FitEdits
  <2> QED
    BY <1>2, <2>1
<1>12. ASSUME NEW n \in Nat
      PROVE  Edited([P EXCEPT !.followers[i].tries = n], P, S, D)
  <2>1. FitAs([f EXCEPT !.tries = n], f, S, D)
    BY <1>1, <1>2, <1>12, FitEdits
  <2> QED
    BY <1>2, <2>1
<1>13. Edited([P EXCEPT !.followers[i].lost = TRUE], P, S, D)
  <2>1. FitAs([f EXCEPT !.lost = TRUE], f, S, D)
    BY <1>1, <1>2, FitEdits
  <2> QED
    BY <1>2, <2>1
<1>14. ASSUME NEW b \in BOOLEAN
      PROVE  Edited([P EXCEPT !.followers[i].pending = b], P, S, D)
  <2>1. FitAs([f EXCEPT !.pending = b], f, S, D)
    BY <1>1, <1>2, <1>14, FitEdits
  <2> QED
    BY <1>2, <2>1
<1>15. Edited([P EXCEPT !.followers[i].recovery = "none"], P, S, D)
  <2>1. FitAs([f EXCEPT !.recovery = "none"], f, S, D)
    BY <1>1, <1>2, FitEdits
  <2> QED
    BY <1>2, <2>1
<1>16. ASSUME NEW r \in {"scheduled", "asking", "settling"}, f.turn \in D
      PROVE  Edited([P EXCEPT !.followers[i].recovery = r], P, S, D)
  <2>1. FitAs([f EXCEPT !.recovery = r], f, S, D)
    BY <1>1, <1>2, <1>16, FitEdits
  <2> QED
    BY <1>2, <2>1
<1>17. ASSUME NEW r \in LvReply
      PROVE  Edited([P EXCEPT !.followers[i].recreply = r], P, S, D)
  <2>1. FitAs([f EXCEPT !.recreply = r], f, S, D)
    BY <1>1, <1>2, <1>17, FitEdits
  <2> QED
    BY <1>2, <2>1
<1>18. ASSUME NEW r \in LvReply, r.kind = "idle" => f.turn \in D
      PROVE  Edited([P EXCEPT !.followers[i].reply = r], P, S, D)
  <2>1. FitAs([f EXCEPT !.reply = r], f, S, D)
    BY <1>1, <1>2, <1>18, FitEdits
  <2> QED
    BY <1>2, <2>1
<1> HIDE DEF f
<1> QED
  BY <1>3, <1>4, <1>5, <1>6, <1>7, <1>8, <1>9, <1>10, <1>11, <1>12, <1>13, <1>14, <1>15, <1>16, <1>17, <1>18 DEF f

LEMMA CloseLiveStreamLike ==
  ASSUME NEW S, NEW D, NEW P, Tab(P, S, D)
  PROVE  LET Q == CloseLiveStream(P) IN
         /\ Tab(Q, S, D) /\ Like(P, Q) /\ Q.followers = P.followers /\ Q.notice = P.notice
         /\ Q.live = NoSource /\ Q.open = {}
<1>1. CASE P.live = NoSource
  BY <1>1 DEF CloseLiveStream, Tab, Like
<1>2. CASE P.live # NoSource
  <2> DEFINE inf == IF P.inflight = "none" THEN P.inflight ELSE "reattach"
             Q == [P EXCEPT !.open = @ \ {P.live}, !.live = NoSource, !.inflight = inf]
  <2>1. CloseLiveStream(P) = Q
    BY <1>2 DEF CloseLiveStream
  <2>2. inf \in {"none", "held", "reattach"} /\ NoSource \in Nat \X Nat /\ P \in LvTabs
        /\ P.open \ {P.live} = {} /\ {} \subseteq Nat \X Nat
    BY TabFields DEF NoSource, Tab
  <2> HIDE DEF inf
  <2>3. Q \in LvTabs /\ Q.followers = P.followers /\ Q.live = NoSource /\ Q.open = {}
        /\ Q.here = P.here /\ Q.stream = P.stream /\ Q.load = P.load /\ Q.hidden = P.hidden
        /\ Q.notice = P.notice
    BY <2>2 DEF LvTabs
  <2> HIDE DEF Q
  <2>4. Tab(Q, S, D) /\ Like(P, Q)
    BY <2>3 DEF Tab, Like
  <2> QED
    BY <2>1, <2>3, <2>4
<1> QED
  BY <1>1, <1>2

LEMMA CloseSourceLike ==
  ASSUME NEW S, NEW D, NEW P, Tab(P, S, D), NEW src
  PROVE  LET Q == CloseSource(P, src) IN
         Tab(Q, S, D) /\ Like(P, Q) /\ Q.followers = P.followers /\ Q.notice = P.notice
<1>1. Like(P, P)
  BY DEF Like
<1>2. CASE P.live = src
  BY <1>2, CloseLiveStreamLike DEF CloseSource
<1>3. CASE P.live # src
  BY <1>1, <1>3 DEF CloseSource
<1> QED
  BY <1>2, <1>3

LEMMA WireLike ==
  ASSUME NEW S, NEW D, NEW P, Tab(P, S, D), NEW i \in 1 .. Len(P.followers)
  PROVE  Tab(Wire(P, i), S, D) /\ Like(P, Wire(P, i))
<1> DEFINE n == P.followers[i].wired + 1
           P1 == [P EXCEPT !.followers[i].wired = n]
           R == [P1 EXCEPT !.followers[i].chain = "none"]
           src == <<i, n>>
           Q == [R EXCEPT !.open = (@ \ {P.live}) \cup {src}, !.live = src]
<1>1. n \in Nat
  <2>1. P.followers[i] \in LvFollower
    BY TabFields
  <2> QED
    BY <2>1 DEF LvFollower
<1>2. Wire(P, i) = Q
  BY DEF Wire
<1>3. src \in Nat \X Nat /\ src # NoSource /\ src[1] = i /\ i \in Nat
  BY <1>1 DEF NoSource
<1> HIDE DEF n, src
<1>4. Edited(P1, P, S, D)
  BY <1>1, Edits
<1> HIDE DEF P1
<1>5. Tab(P1, S, D) /\ i \in 1 .. Len(P1.followers) /\ "none" \in Chains
  BY <1>4 DEF Edited, Like, Chains
<1>6. Edited(R, P1, S, D)
  BY <1>5, Edits
<1>7. Edited(R, P, S, D)
  BY <1>4, <1>6, EditedChain
<1> HIDE DEF R
<1>8. (R.open \ {P.live}) \cup {src} = {src}
  BY <1>7 DEF Tab, Edited
<1>9. Q \in LvTabs /\ Q.followers = R.followers /\ Q.live = src /\ Q.open = {src}
      /\ Q.here = R.here /\ Q.stream = R.stream /\ Q.load = R.load /\ Q.hidden = R.hidden
  <2>1. R \in LvTabs /\ {src} \subseteq Nat \X Nat
    BY <1>3, <1>7 DEF Tab, Edited
  <2> QED
    BY <1>3, <1>8, <2>1 DEF LvTabs
<1> HIDE DEF Q
<1>10. Tab(Q, S, D) /\ Like(R, Q)
  BY <1>3, <1>7, <1>9 DEF Tab, Like, Edited
<1> QED
  BY <1>2, <1>7, <1>10, LikeChain DEF Edited

LEMMA ForgetInflightLike ==
  ASSUME NEW S, NEW D, NEW P, Tab(P, S, D), NEW i
  PROVE  LET Q == ForgetInflight(P, i) IN
         /\ Tab(Q, S, D) /\ Like(P, Q) /\ Q.followers = P.followers /\ Q.notice = P.notice
         /\ Q.live = P.live /\ Q.open = P.open
<1> DEFINE Q == [P EXCEPT !.inflight = "none"]
<1>1. Q \in LvTabs /\ Q.followers = P.followers /\ Q.live = P.live /\ Q.open = P.open
      /\ Q.here = P.here /\ Q.stream = P.stream /\ Q.load = P.load /\ Q.hidden = P.hidden
      /\ Q.notice = P.notice
  BY DEF Tab, LvTabs
<1>2. ForgetInflight(P, i) = P \/ ForgetInflight(P, i) = Q
  BY DEF ForgetInflight
<1> HIDE DEF Q
<1>3. Tab(Q, S, D) /\ Like(P, Q) /\ Like(P, P)
  BY <1>1, EditPage DEF Like
<1> QED
  BY <1>1, <1>2, <1>3

LEMMA PaneIdleLike ==
  ASSUME NEW S, NEW D, NEW P, Tab(P, S, D)
  PROVE  LET Q == PaneIdle(P) IN
         Tab(Q, S, D) /\ Like(P, Q) /\ Q.followers = P.followers /\ Q.notice = P.notice
<1> DEFINE Q == [P EXCEPT !.busy = FALSE]
<1>1. Q \in LvTabs /\ Q.followers = P.followers /\ Q.live = P.live /\ Q.open = P.open
      /\ Q.here = P.here /\ Q.stream = P.stream /\ Q.load = P.load /\ Q.hidden = P.hidden
      /\ Q.notice = P.notice
  BY DEF Tab, LvTabs
<1>2. PaneIdle(P) = P \/ PaneIdle(P) = Q
  BY DEF PaneIdle
<1> HIDE DEF Q
<1>3. Tab(Q, S, D) /\ Like(P, Q) /\ Like(P, P)
  BY <1>1, EditPage DEF Like
<1> QED
  BY <1>1, <1>2, <1>3

LEMMA StreamNulledLike ==
  ASSUME NEW S, NEW D, NEW P, Tab(P, S, D), NEW pane
  PROVE  LET Q == StreamNulled(P, pane) IN
         /\ Tab(Q, S, D) /\ Nulls(P, Q) /\ Q.followers = P.followers
<1> DEFINE Q == [P EXCEPT !.stream = 0]
<1>0. LvTurns \in Nat
  BY LvAssumption DEF LvAssumption
<1>1. Q \in LvTabs /\ Q.followers = P.followers /\ Q.live = P.live /\ Q.open = P.open
      /\ Q.here = P.here /\ Q.load = P.load /\ Q.hidden = P.hidden
  BY <1>0 DEF Tab, LvTabs
<1>2. StreamNulled(P, pane) = P \/ StreamNulled(P, pane) = Q
  BY DEF StreamNulled
<1> HIDE DEF Q
<1>3. Tab(Q, S, D) /\ Nulls(P, Q) /\ Nulls(P, P)
  BY <1>1, EditPage DEF Nulls
<1> QED
  BY <1>1, <1>2, <1>3

LEMMA ClearRecoveryLike ==
  ASSUME NEW S, NEW D, NEW P, Tab(P, S, D), NEW i \in 1 .. Len(P.followers)
  PROVE  Edited(ClearRecovery(P, i), P, S, D)
<1> DEFINE P1 == [P EXCEPT !.followers[i].tries = 0]
           P2 == [P1 EXCEPT !.followers[i].pending = FALSE]
           r == P2.followers[i].recovery
           Q == [P2 EXCEPT !.followers[i].recovery = IF @ = "scheduled" THEN "none" ELSE @]
<1>1. ClearRecovery(P, i) = Q
  BY ZenonT(60) DEF ClearRecovery
<1>2. Edited(P1, P, S, D)
  BY Edits
<1> HIDE DEF P1
<1>3. Tab(P1, S, D) /\ i \in 1 .. Len(P1.followers)
  BY <1>2 DEF Edited, Like
<1>4. Edited(P2, P1, S, D)
  BY <1>3, Edits
<1>5. Edited(P2, P, S, D)
  BY <1>2, <1>4, EditedChain
<1> HIDE DEF P2
<1>6. Tab(P2, S, D) /\ i \in 1 .. Len(P2.followers)
  BY <1>5 DEF Edited, Like
<1>7. Fit(P2.followers[i], S, D)
  BY <1>6, TabFields
<1>8. Edited(Q, P2, S, D)
  <2>1. CASE r = "scheduled"
    <3>1. Q = [P2 EXCEPT !.followers[i].recovery = "none"]
      BY <2>1
    <3>2. Edited([P2 EXCEPT !.followers[i].recovery = "none"], P2, S, D)
      BY <1>6, Edits
    <3> QED
      BY <3>1, <3>2
  <2>2. CASE r # "scheduled"
    <3>1. Q = [P2 EXCEPT !.followers[i].recovery = r]
      BY <2>2
    <3>2. r = "none" \/ (r \in {"scheduled", "asking", "settling"} /\ P2.followers[i].turn \in D)
      BY <1>7 DEF Fit, LvFollower
    <3> HIDE DEF Q, r
    <3>3. CASE r = "none"
      <4>1. Edited([P2 EXCEPT !.followers[i].recovery = "none"], P2, S, D)
        BY <1>6, Edits
      <4> QED
        BY <3>1, <3>3, <4>1
    <3>4. CASE r \in {"scheduled", "asking", "settling"} /\ P2.followers[i].turn \in D
      <4>1. Edited([P2 EXCEPT !.followers[i].recovery = r], P2, S, D)
        BY <1>6, <3>4, Edits
      <4> QED
        BY <3>1, <4>1
    <3> QED
      BY <3>2, <3>3, <3>4
  <2> QED
    BY <2>1, <2>2
<1> QED
  BY <1>1, <1>5, <1>8, EditedChain

(* If Q has nulled the stream of the session shown, it says so to the user. *)
Told(P, Q) == P.here /\ P.stream # 0 /\ Q.stream = 0 => Q.notice = P.stream

LEMMA FollowerTurn ==
  ASSUME NEW S, NEW D, NEW P, Tab(P, S, D), NEW i \in 1 .. Len(P.followers)
  PROVE  P.followers[i].turn \in 1 .. LvTurns /\ P.followers[i].turn \in 0 .. LvTurns
         /\ P.followers[i].turn # 0
<1>1. LvTurns \in Nat
  BY LvAssumption DEF LvAssumption
<1>2. P.followers[i].turn \in 1 .. LvTurns
  BY TabFields
<1> QED
  BY <1>1, <1>2

LEMMA EditedLike ==
  ASSUME NEW S, NEW D, NEW P, NEW Q, Edited(Q, P, S, D)
  PROVE  /\ Tab(Q, S, D) /\ Like(P, Q) /\ Len(Q.followers) = Len(P.followers)
         /\ \A i \in 1 .. Len(P.followers) : Q.followers[i].turn = P.followers[i].turn
BY DEF Edited, Like

LEMMA AskRestoreLike ==
  ASSUME NEW S, NEW D, NEW P, Tab(P, S, D), NEW i \in 1 .. Len(P.followers),
         NEW chain \in Chains
  PROVE  Tab(AskRestore(P, i, chain), S, D) /\ Like(P, AskRestore(P, i, chain))
<1> DEFINE Q == [P EXCEPT !.followers[i].chain = chain]
           src == <<i, P.followers[i].chainsrc>>
           C == CloseSource(Q, src)
           refused == [NoReply EXCEPT !.kind = "refused"]
<1>0. NoReply \in LvReply /\ refused \in LvReply /\ NoReply.kind # "idle"
      /\ refused.kind # "idle"
  <2>1. LvTurns \in Nat
    BY LvAssumption DEF LvAssumption
  <2> QED
    BY <2>1 DEF NoReply, LvReply
<1>1. AskRestore(P, i, chain) = IF Stale(P, i) THEN [C EXCEPT !.followers[i].reply = refused]
                                ELSE [Q EXCEPT !.followers[i].reply = NoReply]
  BY DEF AskRestore
<1>2. Edited(Q, P, S, D)
  BY Edits
<1> HIDE DEF Q, src, refused
<1>3. Tab(Q, S, D) /\ Like(P, Q) /\ i \in 1 .. Len(Q.followers)
  BY <1>2, EditedLike
<1>4. Tab(C, S, D) /\ Like(Q, C) /\ i \in 1 .. Len(C.followers)
  BY <1>3, CloseSourceLike DEF Like
<1> HIDE DEF C
<1>5. Edited([C EXCEPT !.followers[i].reply = refused], C, S, D)
  BY <1>0, <1>4, Edits
<1>6. Edited([Q EXCEPT !.followers[i].reply = NoReply], Q, S, D)
  BY <1>0, <1>3, Edits
<1>7. CASE Stale(P, i)
  BY <1>1, <1>3, <1>4, <1>5, <1>7, LikeChain DEF Edited
<1>8. CASE ~Stale(P, i)
  BY <1>1, <1>3, <1>6, <1>8, LikeChain DEF Edited
<1> QED
  BY <1>7, <1>8

LEMMA FinishDoneNulls ==
  ASSUME NEW S, NEW D, NEW P, Tab(P, S, D), NEW i \in 1 .. Len(P.followers)
  PROVE  Tab(FinishDone(P, i), S, D) /\ Nulls(P, FinishDone(P, i))
<1> DEFINE pane == CurrentPane(P)
           P1 == [P EXCEPT !.followers[i].fading = FALSE]
           P2 == ForgetInflight(P1, i)
           Q == StreamNulled(P2, pane)
           R == [Q EXCEPT !.busy = FALSE, !.shown = P.followers[i].turn]
<1>1. FinishDone(P, i) = PaneIdle(IF pane THEN R ELSE Q)
  BY DEF FinishDone
<1>2. Edited(P1, P, S, D)
  BY Edits
<1> HIDE DEF P1, pane
<1>3. Tab(P1, S, D) /\ Like(P, P1)
  BY <1>2, EditedLike
<1>4. Tab(P2, S, D) /\ Like(P1, P2)
  BY <1>3, ForgetInflightLike
<1> HIDE DEF P2
<1>5. Tab(Q, S, D) /\ Nulls(P2, Q)
  BY <1>4, StreamNulledLike
<1> HIDE DEF Q
<1>6. Nulls(P, Q)
  BY <1>3, <1>4, <1>5, LikeNulls, NullsChain
<1>7. Tab(R, S, D) /\ Nulls(Q, R)
  <2>1. Q \in LvTabs /\ P.followers[i].turn \in 0 .. LvTurns
    BY <1>5, FollowerTurn DEF Tab
  <2>2. R \in LvTabs /\ R.followers = Q.followers /\ R.live = Q.live /\ R.open = Q.open
        /\ R.here = Q.here /\ R.load = Q.load /\ R.hidden = Q.hidden
    BY <2>1 DEF LvTabs
  <2> HIDE DEF R
  <2> QED
    BY <1>5, <2>2, EditPage DEF Nulls
<1> HIDE DEF R
<1>8. Nulls(P, R)
  BY <1>6, <1>7, NullsChain
<1>9. CASE pane
  <2>1. Tab(PaneIdle(R), S, D) /\ Like(R, PaneIdle(R))
    BY <1>7, PaneIdleLike
  <2> QED
    BY <1>1, <1>8, <1>9, <2>1, LikeNulls, NullsChain
<1>10. CASE ~pane
  <2>1. Tab(PaneIdle(Q), S, D) /\ Like(Q, PaneIdle(Q))
    BY <1>5, PaneIdleLike
  <2> QED
    BY <1>1, <1>6, <1>10, <2>1, LikeNulls, NullsChain
<1> QED
  BY <1>9, <1>10

LEMMA SettleNulls ==
  ASSUME NEW S, NEW D, NEW P, Tab(P, S, D), NEW i \in 1 .. Len(P.followers),
         NEW src, NEW turn \in 0 .. LvTurns
  PROVE  Tab(Settle(P, i, src, turn), S, D) /\ Nulls(P, Settle(P, i, src, turn))
<1> DEFINE pane == CurrentPane(P)
           P1 == [P EXCEPT !.followers[i].final = TRUE]
           P2 == ForgetInflight(P1, i)
           P3 == CloseSource(P2, src)
           Q == StreamNulled(P3, pane)
           R == [Q EXCEPT !.shown = turn]
<1>1. Settle(P, i, src, turn) = PaneIdle(IF pane THEN R ELSE Q)
  BY DEF Settle
<1>2. Edited(P1, P, S, D)
  BY Edits
<1> HIDE DEF P1, pane
<1>3. Tab(P1, S, D) /\ Like(P, P1)
  BY <1>2, EditedLike
<1>4. Tab(P2, S, D) /\ Like(P1, P2)
  BY <1>3, ForgetInflightLike
<1> HIDE DEF P2
<1>5. Tab(P3, S, D) /\ Like(P2, P3)
  BY <1>4, CloseSourceLike
<1> HIDE DEF P3
<1>6. Tab(Q, S, D) /\ Nulls(P3, Q)
  BY <1>5, StreamNulledLike
<1> HIDE DEF Q
<1>7. Nulls(P, Q)
  BY <1>3, <1>4, <1>5, <1>6, LikeNulls, NullsChain
<1>8. Tab(R, S, D) /\ Nulls(Q, R)
  <2>1. Q \in LvTabs
    BY <1>6 DEF Tab
  <2>2. R \in LvTabs /\ R.followers = Q.followers /\ R.live = Q.live /\ R.open = Q.open
        /\ R.here = Q.here /\ R.load = Q.load /\ R.hidden = Q.hidden
    BY <2>1 DEF LvTabs
  <2> HIDE DEF R
  <2> QED
    BY <1>6, <2>2, EditPage DEF Nulls
<1> HIDE DEF R
<1>9. CASE pane
  <2>1. Tab(PaneIdle(R), S, D) /\ Like(R, PaneIdle(R))
    BY <1>8, PaneIdleLike
  <2> QED
    BY <1>1, <1>7, <1>8, <1>9, <2>1, LikeNulls, NullsChain
<1>10. CASE ~pane
  <2>1. Tab(PaneIdle(Q), S, D) /\ Like(Q, PaneIdle(Q))
    BY <1>6, PaneIdleLike
  <2> QED
    BY <1>1, <1>7, <1>10, <2>1, LikeNulls, NullsChain
<1> QED
  BY <1>9, <1>10

LEMMA StreamLostTells ==
  ASSUME NEW S, NEW D, NEW P, Tab(P, S, D), NEW i \in 1 .. Len(P.followers), NEW src
  PROVE  LET Q == StreamLost(P, i, src) IN Tab(Q, S, D) /\ Nulls(P, Q) /\ Told(P, Q)
<1> DEFINE P1 == [P EXCEPT !.followers[i].final = TRUE]
           P2 == ClearRecovery(P1, i)
           P3 == ForgetInflight(P2, i)
           R == CloseSource(P3, src)
           N == [R EXCEPT !.stream = 0, !.notice = P.followers[i].turn]
<1>1. StreamLost(P, i, src) = IF Stale(P, i) THEN CloseSource(P, src)
                              ELSE PaneIdle(IF P.here THEN N ELSE R)
  BY DEF StreamLost
<1>2. CASE Stale(P, i)
  <2>1. Tab(CloseSource(P, src), S, D) /\ Like(P, CloseSource(P, src))
    BY CloseSourceLike
  <2> QED
    BY <1>1, <1>2, <2>1, LikeNulls DEF Told
<1>3. Edited(P1, P, S, D)
  BY Edits
<1> HIDE DEF P1
<1>4. Tab(P1, S, D) /\ Like(P, P1) /\ i \in 1 .. Len(P1.followers)
  BY <1>3, EditedLike
<1>5. Edited(P2, P1, S, D)
  BY <1>4, ClearRecoveryLike
<1> HIDE DEF P2
<1>6. Tab(P2, S, D) /\ Like(P1, P2)
  BY <1>5, EditedLike
<1>7. Tab(P3, S, D) /\ Like(P2, P3)
  BY <1>6, ForgetInflightLike
<1> HIDE DEF P3
<1>8. Tab(R, S, D) /\ Like(P3, R)
  BY <1>7, CloseSourceLike
<1> HIDE DEF R
<1>9. Like(P, R)
  BY <1>4, <1>6, <1>7, <1>8, LikeChain
<1>10. CASE ~Stale(P, i) /\ ~P.here
  <2>1. Tab(PaneIdle(R), S, D) /\ Like(R, PaneIdle(R))
    BY <1>8, PaneIdleLike
  <2> QED
    BY <1>1, <1>9, <1>10, <2>1, LikeChain, LikeNulls DEF Told
<1>11. CASE ~Stale(P, i) /\ P.here
  <2>1. R \in LvTabs /\ P.followers[i].turn \in 0 .. LvTurns /\ 0 \in 0 .. LvTurns
    <3>1. LvTurns \in Nat
      BY LvAssumption DEF LvAssumption
    <3>2. P.followers[i].turn \in 0 .. LvTurns
      BY FollowerTurn
    <3>3. R \in LvTabs
      BY <1>8, TabFields
    <3> QED
      BY <3>1, <3>2, <3>3
  <2>2. N \in LvTabs /\ N.followers = R.followers /\ N.live = R.live /\ N.open = R.open
        /\ N.here = R.here /\ N.load = R.load /\ N.hidden = R.hidden
        /\ N.notice = P.followers[i].turn
    BY <2>1 DEF LvTabs
  <2> HIDE DEF N
  <2>3. Tab(N, S, D) /\ Nulls(R, N)
    BY <1>8, <2>2, EditPage DEF Nulls
  <2>4. Tab(PaneIdle(N), S, D) /\ Like(N, PaneIdle(N)) /\ PaneIdle(N).notice = N.notice
    BY <2>3, PaneIdleLike
  <2>5. P.stream = P.followers[i].turn
    BY <1>11 DEF Stale
  <2> QED
    BY <1>1, <1>9, <1>11, <2>2, <2>3, <2>4, <2>5, LikeNulls, NullsChain DEF Told
<1> QED
  BY <1>2, <1>10, <1>11

LEMMA StreamEndFallbackNulls ==
  ASSUME NEW S, NEW D, NEW P, Tab(P, S, D), NEW i \in 1 .. Len(P.followers), NEW src
  PROVE  LET Q == StreamEndFallback(P, i, src) IN Tab(Q, S, D) /\ Nulls(P, Q)
<1> DEFINE P1 == [P EXCEPT !.followers[i].final = TRUE]
           P2 == ClearRecovery(P1, i)
           P3 == ForgetInflight(P2, i)
           P4 == StreamNulled(P3, P.here)
           P5 == PaneIdle(P4)
           R == CloseSource(P5, src)
<1>1. StreamEndFallback(P, i, src) = R
  BY DEF StreamEndFallback
<1>2. Edited(P1, P, S, D)
  BY Edits
<1> HIDE DEF P1
<1>3. Tab(P1, S, D) /\ Like(P, P1) /\ i \in 1 .. Len(P1.followers)
  BY <1>2, EditedLike
<1>4. Edited(P2, P1, S, D)
  BY <1>3, ClearRecoveryLike
<1> HIDE DEF P2
<1>5. Tab(P2, S, D) /\ Like(P1, P2)
  BY <1>4, EditedLike
<1>6. Tab(P3, S, D) /\ Like(P2, P3)
  BY <1>5, ForgetInflightLike
<1> HIDE DEF P3
<1>7. Tab(P4, S, D) /\ Nulls(P3, P4)
  BY <1>6, StreamNulledLike
<1> HIDE DEF P4
<1>8. Tab(P5, S, D) /\ Like(P4, P5)
  BY <1>7, PaneIdleLike
<1> HIDE DEF P5
<1>9. Tab(R, S, D) /\ Like(P5, R)
  BY <1>8, CloseSourceLike
<1> HIDE DEF R
<1> QED
  BY <1>1, <1>3, <1>5, <1>6, <1>7, <1>8, <1>9, LikeNulls, NullsChain

LEMMA GiveUpTells ==
  ASSUME NEW S, NEW D, NEW P, Tab(P, S, D), NEW i \in 1 .. Len(P.followers), NEW src
  PROVE  LET Q == GiveUp(P, i, src) IN Tab(Q, S, D) /\ Nulls(P, Q) /\ Told(P, Q)
<1> DEFINE d == [P EXCEPT !.followers[i].chain = "deferred"]
           st == IF P.here THEN P.followers[i].turn ELSE d.stream
           H == [d EXCEPT !.stream = st]
           n == [P EXCEPT !.followers[i].chain = "none"]
<1>1. GiveUp(P, i, src) = IF P.hidden THEN H ELSE StreamLost(n, i, src)
  BY DEF GiveUp
<1>2. Edited(d, P, S, D) /\ Edited(n, P, S, D)
  <2>1. "deferred" \in Chains /\ "none" \in Chains
    BY DEF Chains
  <2> QED
    BY <2>1, Edits
<1> HIDE DEF d, n
<1>3. /\ Tab(d, S, D) /\ Like(P, d)
      /\ Tab(n, S, D) /\ Like(P, n) /\ i \in 1 .. Len(n.followers)
  BY <1>2, EditedLike
<1>4. CASE P.hidden
  <2>1. st \in 0 .. LvTurns /\ (P.here => st # 0) /\ d \in LvTabs
    BY <1>3, FollowerTurn, TabFields
  <2> HIDE DEF st
  <2>2. H \in LvTabs /\ H.followers = d.followers /\ H.live = d.live /\ H.open = d.open
        /\ H.here = d.here /\ H.load = d.load /\ H.hidden = d.hidden /\ H.stream = st
    BY <2>1 DEF LvTabs
  <2> HIDE DEF H
  <2>3. Tab(H, S, D) /\ Nulls(d, H)
    BY <1>3, <2>2, EditPage DEF Nulls
  <2> QED
    BY <1>1, <1>3, <1>4, <2>1, <2>2, <2>3, LikeNulls, NullsChain DEF Told
<1>5. CASE ~P.hidden
  <2>1. LET Q == StreamLost(n, i, src) IN Tab(Q, S, D) /\ Nulls(n, Q) /\ Told(n, Q)
    BY <1>3, StreamLostTells
  <2>2. Nulls(P, n) /\ n.here = P.here /\ n.stream = P.stream
    BY <1>3, LikeNulls DEF Like
  <2> QED
    BY <1>1, <1>5, <2>1, <2>2, NullsChain DEF Told
<1> QED
  BY <1>4, <1>5

(* The events of a source.  One that ends the turn nulls, if any, the       *)
(* stream of the follower's own turn.                                       *)
LEMMA OwnTurn ==
  ASSUME NEW P, NEW Q, NEW i, NEW D, ~Stale(P, i), P.followers[i].turn \in D
  PROVE  P.here => P.stream \in D
BY DEF Stale

LEMMA OnDoneNulls ==
  ASSUME NEW S, NEW D, NEW P, Tab(P, S, D), NEW i \in 1 .. Len(P.followers), NEW src,
         P.followers[i].turn \in D, NEW Q \in OnDone(P, i, src)
  PROVE  Tab(Q, S, D) /\ Nulls(P, Q) /\ (Q.stream = P.stream \/ (P.here => P.stream \in D))
<1> DEFINE C == ClearRecovery(P, i)
           R == [C EXCEPT !.followers[i].final = TRUE]
           F == [R EXCEPT !.followers[i].fading = TRUE]
<1>1. \/ Q = P
      \/ Q = CloseSource(C, src)
      \/ ~Stale(P, i) /\ Q = FinishDone(R, i)
      \/ Q = F
  BY DEF OnDone
<1>2. Edited(C, P, S, D)
  BY ClearRecoveryLike
<1> HIDE DEF C
<1>3. Tab(C, S, D) /\ Like(P, C) /\ i \in 1 .. Len(C.followers)
  BY <1>2, EditedLike
<1>4. Edited(R, C, S, D)
  BY <1>3, Edits
<1> HIDE DEF R
<1>5. Tab(R, S, D) /\ Like(C, R) /\ i \in 1 .. Len(R.followers) /\ R.followers[i].turn \in D
  BY <1>2, <1>3, <1>4, EditedLike
<1>6. Edited(F, R, S, D)
  BY <1>5, Edits
<1> HIDE DEF F
<1>7. Tab(F, S, D) /\ Like(R, F)
  BY <1>6, EditedLike
<1>8. Tab(CloseSource(C, src), S, D) /\ Like(C, CloseSource(C, src))
  BY <1>3, CloseSourceLike
<1>9. Tab(FinishDone(R, i), S, D) /\ Nulls(R, FinishDone(R, i))
  BY <1>5, FinishDoneNulls
<1>10. CASE Q = P
  BY <1>10 DEF Nulls
<1>11. CASE Q = CloseSource(C, src) \/ Q = F
  <2>1. Like(P, Q) /\ Tab(Q, S, D)
    BY <1>3, <1>5, <1>7, <1>8, <1>11, LikeChain
  <2> QED
    BY <2>1, LikeNulls
<1>12. CASE ~Stale(P, i) /\ Q = FinishDone(R, i)
  BY <1>3, <1>5, <1>9, <1>12, LikeNulls, NullsChain, OwnTurn
<1> QED
  BY <1>1, <1>10, <1>11, <1>12

LEMMA OnStreamEndLike ==
  ASSUME NEW S, NEW D, NEW P, Tab(P, S, D), NEW i \in 1 .. Len(P.followers),
         NEW src \in Nat \X Nat, P.followers[i].turn \in D, NEW Q \in OnStreamEnd(P, i, src)
  PROVE  Tab(Q, S, D) /\ Like(P, Q)
<1> DEFINE C == ClearRecovery(P, i)
           N1(phase) == [C EXCEPT !.followers[i].recovery = phase]
           N2(phase) == [N1(phase) EXCEPT !.followers[i].pending = phase = "scheduled"]
           N3(phase) == [N2(phase) EXCEPT !.followers[i].recreply = NoReply]
           N4(phase) == [N3(phase) EXCEPT !.followers[i].recsrc = src[2]]
<1>1. \/ Q = CloseSource(P, src)
      \/ Q = CloseSource(C, src)
      \/ \E phase \in {"scheduled", "settling"} : Q = N4(phase)
  BY DEF OnStreamEnd
<1>2. Edited(C, P, S, D)
  BY ClearRecoveryLike
<1> HIDE DEF C
<1>3. Tab(C, S, D) /\ Like(P, C) /\ i \in 1 .. Len(C.followers) /\ C.followers[i].turn \in D
  BY <1>2, EditedLike
<1>4. Tab(CloseSource(C, src), S, D) /\ Like(C, CloseSource(C, src))
      /\ Tab(CloseSource(P, src), S, D) /\ Like(P, CloseSource(P, src))
  BY <1>3, CloseSourceLike
<1>5. ASSUME NEW phase \in {"scheduled", "settling"}, Q = N4(phase)
      PROVE  Tab(Q, S, D) /\ Like(P, Q)
  <2> DEFINE M1 == N1(phase)
             M2 == [M1 EXCEPT !.followers[i].pending = phase = "scheduled"]
             M3 == [M2 EXCEPT !.followers[i].recreply = NoReply]
             M4 == [M3 EXCEPT !.followers[i].recsrc = src[2]]
  <2>0. NoReply \in LvReply /\ src[2] \in Nat /\ (phase = "scheduled") \in BOOLEAN
        /\ phase \in {"scheduled", "asking", "settling"}
    <3>1. LvTurns \in Nat
      BY LvAssumption DEF LvAssumption
    <3> QED
      BY <3>1 DEF NoReply, LvReply
  <2>1. Q = M4
    BY <1>5
  <2>2. Edited(M1, C, S, D)
    BY <1>3, <2>0, Edits
  <2> HIDE DEF M1, N1, N2, N3, N4
  <2>3. Tab(M1, S, D) /\ i \in 1 .. Len(M1.followers)
    BY <1>3, <2>2, EditedLike
  <2>4. Edited(M2, M1, S, D)
    BY <2>0, <2>3, Edits
  <2> HIDE DEF M2
  <2>5. Tab(M2, S, D) /\ i \in 1 .. Len(M2.followers)
    BY <2>3, <2>4, EditedLike
  <2>6. Edited(M3, M2, S, D)
    BY <2>0, <2>5, Edits
  <2> HIDE DEF M3
  <2>7. Tab(M3, S, D) /\ i \in 1 .. Len(M3.followers)
    BY <2>5, <2>6, EditedLike
  <2>8. Edited(M4, M3, S, D)
    BY <2>0, <2>7, Edits
  <2> HIDE DEF M4
  <2> QED
    BY <1>2, <2>1, <2>2, <2>4, <2>6, <2>8, EditedChain, EditedLike
<1> QED
  BY <1>1, <1>3, <1>4, <1>5, LikeChain

LEMMA OnTerminalNulls ==
  ASSUME NEW S, NEW D, NEW P, Tab(P, S, D), NEW i \in 1 .. Len(P.followers), NEW src,
         P.followers[i].turn \in D, NEW Q \in OnTerminal(P, i, src)
  PROVE  Tab(Q, S, D) /\ Nulls(P, Q) /\ (Q.stream = P.stream \/ (P.here => P.stream \in D))
<1> DEFINE C == ClearRecovery(P, i)
           F == [C EXCEPT !.followers[i].final = TRUE]
           O == [F EXCEPT !.open = P.open \ {src}]
           I == ForgetInflight(O, i)
           N == StreamNulled(I, P.here)
<1>2. Edited(C, P, S, D)
  BY ClearRecoveryLike
<1>1. \/ Q = CloseSource(P, src)
      \/ ~Stale(P, i) /\ Q = PaneIdle(N)
  <2>1. C.open = P.open
    BY <1>2 DEF Edited
  <2>2. [ClearRecovery(P, i) EXCEPT !.followers[i].final = TRUE, !.open = @ \ {src}] = O
    BY <2>1
  <2> HIDE DEF O
  <2> QED
    BY <2>2 DEF OnTerminal
<1> HIDE DEF C
<1>3. Tab(C, S, D) /\ Like(P, C) /\ i \in 1 .. Len(C.followers)
  BY <1>2, EditedLike
<1>4. Edited(F, C, S, D)
  BY <1>3, Edits
<1> HIDE DEF F
<1>5. Tab(F, S, D) /\ Like(C, F) /\ F.open = P.open
  BY <1>2, <1>4, EditedLike DEF Edited
<1>6. Tab(O, S, D) /\ Like(F, O)
  <2>1. F \in LvTabs
    BY <1>5 DEF Tab
  <2>2. O \in LvTabs /\ O.followers = F.followers /\ O.live = F.live /\ O.open \subseteq F.open
        /\ O.here = F.here /\ O.stream = F.stream /\ O.load = F.load /\ O.hidden = F.hidden
    BY <1>5, <2>1 DEF LvTabs
  <2> HIDE DEF O
  <2> QED
    BY <1>5, <2>2, EditPage DEF Like
<1> HIDE DEF O
<1>7. Tab(I, S, D) /\ Like(O, I)
  BY <1>6, ForgetInflightLike
<1> HIDE DEF I
<1>8. Tab(N, S, D) /\ Nulls(I, N)
  BY <1>7, StreamNulledLike
<1> HIDE DEF N
<1>9. Tab(PaneIdle(N), S, D) /\ Like(N, PaneIdle(N))
  BY <1>8, PaneIdleLike
<1>10. Tab(CloseSource(P, src), S, D) /\ Like(P, CloseSource(P, src))
  BY CloseSourceLike
<1>11. CASE Q = CloseSource(P, src)
  BY <1>10, <1>11, LikeNulls
<1>12. CASE ~Stale(P, i) /\ Q = PaneIdle(N)
  <2>1. Nulls(P, Q)
    BY <1>3, <1>5, <1>6, <1>7, <1>8, <1>9, <1>12, LikeNulls, NullsChain
  <2> QED
    BY <1>9, <1>12, <2>1, OwnTurn
<1> QED
  BY <1>1, <1>11, <1>12

LEMMA OnErrorLike ==
  ASSUME NEW S, NEW D, NEW P, Tab(P, S, D), NEW i \in 1 .. Len(P.followers),
         NEW src \in Nat \X Nat, NEW Q \in OnError(P, i, src)
  PROVE  Tab(Q, S, D) /\ Like(P, Q)
<1> DEFINE C == CloseSource(P, src)
           H0 == [P EXCEPT !.open = @ \ {src}]
           H1 == [H0 EXCEPT !.followers[i].chain = "deferred"]
           H2 == [H1 EXCEPT !.followers[i].chainsrc = src[2]]
           K1(c) == [C EXCEPT !.followers[i].chain = c]
           K2(c) == [K1(c) EXCEPT !.followers[i].chainsrc = src[2]]
           W1 == [K2("waiting") EXCEPT !.followers[i].lost = TRUE]
           W2 == [W1 EXCEPT !.followers[i].probes = 0]
<1>1. \/ Q = C \/ Q = H2 \/ Q = W2 \/ Q = AskRestore(K2("none"), i, "late restore")
  BY DEF OnError
<1>2. src[2] \in Nat /\ {"none", "waiting", "deferred", "late restore"} \subseteq Chains
  BY DEF Chains
<1>3. Tab(C, S, D) /\ Like(P, C) /\ i \in 1 .. Len(C.followers)
  BY CloseSourceLike DEF Like
<1> HIDE DEF C
<1>4. ASSUME NEW c \in Chains
      PROVE  Edited(K2(c), C, S, D) /\ i \in 1 .. Len(K2(c).followers)
  <2> DEFINE M == K1(c)
  <2>1. Edited(M, C, S, D)
    BY <1>3, <1>4, Edits
  <2> HIDE DEF M
  <2>2. Tab(M, S, D) /\ i \in 1 .. Len(M.followers)
    BY <1>3, <2>1, EditedLike
  <2>3. Edited([M EXCEPT !.followers[i].chainsrc = src[2]], M, S, D)
    BY <1>2, <2>2, Edits
  <2>4. K2(c) = [M EXCEPT !.followers[i].chainsrc = src[2]]
    BY DEF M
  <2>5. Edited(K2(c), C, S, D)
    BY <2>1, <2>3, <2>4, EditedChain
  <2> QED
    BY <1>3, <2>5, EditedLike
<1>5. Tab(H2, S, D) /\ Like(P, H2)
  <2>1. P \in LvTabs
    BY DEF Tab
  <2>2. H0 \in LvTabs /\ H0.followers = P.followers /\ H0.live = P.live /\ H0.open \subseteq P.open
        /\ H0.here = P.here /\ H0.stream = P.stream /\ H0.load = P.load /\ H0.hidden = P.hidden
    BY <2>1 DEF LvTabs
  <2> HIDE DEF H0
  <2>3. Tab(H0, S, D) /\ Like(P, H0) /\ i \in 1 .. Len(H0.followers)
    BY <2>2, EditPage DEF Like
  <2>4. Edited(H1, H0, S, D)
    BY <1>2, <2>3, Edits
  <2> HIDE DEF H1
  <2>5. Tab(H1, S, D) /\ Like(H0, H1) /\ i \in 1 .. Len(H1.followers)
    BY <2>3, <2>4, EditedLike
  <2>6. Edited(H2, H1, S, D)
    BY <1>2, <2>5, Edits
  <2> HIDE DEF H2
  <2> QED
    BY <2>3, <2>5, <2>6, EditedLike, LikeChain
<1> DEFINE KW == K2("waiting")
           KN == K2("none")
<1>6. /\ Edited(KW, C, S, D) /\ i \in 1 .. Len(KW.followers)
      /\ Edited(KN, C, S, D) /\ i \in 1 .. Len(KN.followers)
  <2> HIDE DEF K2
  <2> QED
    BY <1>2, <1>4
<1>7. W2 = [[KW EXCEPT !.followers[i].lost = TRUE] EXCEPT !.followers[i].probes = 0]
  OBVIOUS
<1>8. Q = C \/ Q = H2 \/ Q = W2 \/ Q = AskRestore(KN, i, "late restore")
  BY <1>1
<1> HIDE DEF W1, W2, KW, KN, H2, K1, K2
<1>9. Tab(W2, S, D) /\ Like(P, W2)
  <2> DEFINE M == [KW EXCEPT !.followers[i].lost = TRUE]
  <2>1. Edited(M, KW, S, D)
    BY <1>6, EditedLike, Edits
  <2>2. W2 = [M EXCEPT !.followers[i].probes = 0]
    BY <1>7
  <2> HIDE DEF M
  <2>3. Tab(M, S, D) /\ i \in 1 .. Len(M.followers)
    BY <1>6, <2>1, EditedLike
  <2>4. Edited(W2, M, S, D)
    BY <2>2, <2>3, Edits
  <2> QED
    BY <1>3, <1>6, <2>1, <2>4, EditedChain, EditedLike, LikeChain
<1>10. Tab(AskRestore(KN, i, "late restore"), S, D) /\ Like(KN, AskRestore(KN, i, "late restore"))
  BY <1>2, <1>6, EditedLike, AskRestoreLike
<1>11. Like(P, AskRestore(KN, i, "late restore"))
  <2>1. Like(C, KN)
    BY <1>6, EditedLike
  <2> QED
    BY <1>3, <1>10, <2>1, LikeChain
<1> QED
  BY <1>3, <1>5, <1>8, <1>9, <1>10, <1>11

LEMMA TabMono ==
  ASSUME NEW S, NEW D, NEW S2, NEW D2, S \subseteq S2, D \subseteq D2, NEW P, Tab(P, S, D)
  PROVE  Tab(P, S2, D2)
BY DEF Tab, Fit

LEMMA AttachTab ==
  ASSUME NEW S, NEW D, NEW P, Tab(P, S, D), NEW t \in 1 .. LvTurns, t \in S,
         NEW reconnecting \in BOOLEAN
  PROVE  LET Q == Attach(P, t, reconnecting) IN
         Tab(Q, S, D) /\ Q.here = P.here /\ Q.stream = P.stream
<1> DEFINE inf == IF P.inflight = "none" THEN "held" ELSE P.inflight
           H == [P EXCEPT !.inflight = inf]
           C == CloseLiveStream(H)
           n == Len(P.followers) + 1
           A(c) == [C EXCEPT !.followers = Append(@, Follower(t, c))]
<1>1. \/ Attach(P, t, reconnecting) = H
      \/ Attach(P, t, reconnecting) = A("preflight")
      \/ Attach(P, t, reconnecting) = Wire(A("none"), n)
  BY DEF Attach
<1>2. Tab(H, S, D) /\ H.here = P.here /\ H.stream = P.stream
      /\ Len(H.followers) = Len(P.followers)
  <2>1. inf \in {"none", "held", "reattach"} /\ P \in LvTabs
    BY TabFields
  <2> HIDE DEF inf
  <2>2. H \in LvTabs /\ H.followers = P.followers /\ H.live = P.live /\ H.open \subseteq P.open
        /\ H.here = P.here /\ H.stream = P.stream
    BY <2>1 DEF LvTabs
  <2> HIDE DEF H
  <2> QED
    BY <2>2, EditPage
<1> HIDE DEF H
<1>3. Tab(C, S, D) /\ Like(H, C) /\ C.live = NoSource /\ C.open = {}
      /\ Len(C.followers) = Len(P.followers)
  <2>1. Tab(C, S, D) /\ Like(H, C) /\ C.live = NoSource /\ C.open = {}
    BY <1>2, CloseLiveStreamLike
  <2> HIDE DEF C
  <2> QED
    BY <1>2, <2>1 DEF Like
<1> HIDE DEF C
<1>4. ASSUME NEW c \in {"none", "preflight"}
      PROVE  /\ Tab(A(c), S, D) /\ A(c).here = P.here /\ A(c).stream = P.stream
             /\ n \in 1 .. Len(A(c).followers)
  <2> DEFINE f == Follower(t, c)
             fs == Append(C.followers, f)
             B == [C EXCEPT !.followers = fs]
  <2>0. LvTurns \in Nat
    BY LvAssumption DEF LvAssumption
  <2>1. Fit(f, S, D) /\ f \in LvFollower
    <3>0. NoReply \in LvReply /\ NoReply.kind # "idle"
      BY <2>0 DEF NoReply, LvReply
    <3>1. NoReply \in LvReply /\ NoReply.kind # "idle" /\ c \in Chains
      BY <3>0, <1>4 DEF Chains
    <3>2. f \in LvFollower
      BY <3>1 DEF Follower, LvFollower
    <3>3. f.turn = t /\ f.fading = FALSE /\ f.recovery = "none" /\ f.reply = NoReply
      BY DEF Follower
    <3> HIDE DEF f
    <3> QED
      BY <3>1, <3>2, <3>3 DEF Fit
  <2> HIDE DEF f
  <2>2. C \in LvTabs /\ C.followers \in Seq(LvFollower)
        /\ \A j \in 1 .. Len(C.followers) : Fit(C.followers[j], S, D)
    BY <1>3, TabFields
  <2>3. /\ fs \in Seq(LvFollower) /\ Len(fs) = n /\ n \in 1 .. Len(fs)
        /\ \A j \in 1 .. Len(fs) : Fit(fs[j], S, D)
    BY <1>3, <2>1, <2>2
  <2> HIDE DEF fs
  <2>4. B \in LvTabs /\ B.followers = fs /\ B.live = NoSource /\ B.open = {}
        /\ B.here = C.here /\ B.stream = C.stream
    BY <1>3, <2>2, <2>3 DEF LvTabs
  <2>5. A(c) = B
    BY DEF fs, f
  <2> HIDE DEF B, A
  <2> QED
    BY <1>2, <1>3, <2>3, <2>4, <2>5 DEF Tab, Like
<1> DEFINE AN == A("none")
           AP == A("preflight")
<1>5. /\ Tab(AN, S, D) /\ AN.here = P.here /\ AN.stream = P.stream /\ n \in 1 .. Len(AN.followers)
      /\ Tab(AP, S, D) /\ AP.here = P.here /\ AP.stream = P.stream
  <2> HIDE DEF A, n
  <2> QED
    BY <1>4
<1>6. \/ Attach(P, t, reconnecting) = H
      \/ Attach(P, t, reconnecting) = AP
      \/ Attach(P, t, reconnecting) = Wire(AN, n)
  BY <1>1
<1> HIDE DEF A, AN, AP, n
<1>7. Tab(Wire(AN, n), S, D) /\ Like(AN, Wire(AN, n))
  BY <1>5, WireLike
<1> QED
  BY <1>2, <1>5, <1>6, <1>7 DEF Like

-----------------------------------------------------------------------------
(* The follower: the steps *)

LEMMA LvTypesOfInv == LvInv => LvTypeOK /\ OneSource
<1> SUFFICES ASSUME LvInv PROVE LvTypeOK /\ OneSource
  OBVIOUS
<1>1. Tab(lvTab, Sent, Overs) /\ LvServerInv /\ lvLeft \in LvBudget
  BY DEF LvInv
<1>2. lvTab \in LvTabs /\ OneSource
      /\ \A src \in lvTab.open \cup {lvTab.live} : src = NoSource \/ src[1] \in LvIds
  BY <1>1 DEF Tab, OneSource, LvIds
<1>3. LvTurns \in Nat
  BY LvAssumption DEF LvAssumption
<1>4. /\ lvTurn \in 0 .. LvTurns /\ lvMarked \in 0 .. LvTurns
      /\ lvPhase \in [1 .. LvTurns -> {"unsent", "running", "stored", "ended", "dead"}]
      /\ lvJournal \in [1 .. LvTurns -> Seq(LvRelays \cup {"error", "done", "stream_end"})]
  BY <1>1, <1>3 DEF LvServerInv, LvEvents
<1> QED
  BY <1>1, <1>2, <1>4 DEF LvTypeOK, LvTabs, LvBudget

LEMMA LvInitInv == LvInit => LvInv
<1> SUFFICES ASSUME LvInit PROVE LvInv
  OBVIOUS
<1>0. LvTurns \in Nat
  BY LvAssumption DEF LvAssumption
<1>1. lvTab \in LvTabs
  <2>1. 0 \in 0 .. LvTurns /\ NoSource \in Nat \X Nat /\ << >> \in Seq(LvFollower)
    BY <1>0 DEF NoSource
  <2> QED
    BY <2>1 DEF LvInit, LvTabs
<1>2. Tab(lvTab, Sent, Overs)
  BY <1>1 DEF LvInit, Tab
<1>3. lvLeft \in LvBudget
  BY LvAssumption DEF LvInit, LvBudget, LvAssumption
<1>4. LvServerInv
  <2>1. lvJournal \in [1 .. LvTurns -> Seq(LvEvents)]
        /\ \A t \in 1 .. LvTurns : lvJournal[t] = << >> /\ lvPhase[t] = "unsent"
    BY DEF LvInit
  <2>2. lvTurn = 0 /\ lvMarked = 0
        /\ lvPhase \in [1 .. LvTurns -> {"unsent", "running", "stored", "ended", "dead"}]
    BY DEF LvInit
  <2> QED
    BY <1>0, <2>1, <2>2 DEF LvServerInv
<1> QED
  BY <1>2, <1>3, <1>4 DEF LvInv

LEMMA LvBudgetTypes ==
  ASSUME lvLeft \in LvBudget
  PROVE  /\ lvLeft.faults > 0 => [lvLeft EXCEPT !.faults = @ - 1] \in LvBudget
         /\ lvLeft.moves > 0 => [lvLeft EXCEPT !.moves = @ - 1] \in LvBudget
         /\ lvLeft.moves > 0 /\ lvLeft.hides > 0 =>
              [lvLeft EXCEPT !.moves = @ - 1, !.hides = @ - 1] \in LvBudget
<1>1. lvLeft.faults \in Nat /\ lvLeft.moves \in Nat /\ lvLeft.hides \in Nat
  BY DEF LvBudget
<1>2. /\ lvLeft.faults > 0 => lvLeft.faults - 1 \in Nat
      /\ lvLeft.moves > 0 => lvLeft.moves - 1 \in Nat
      /\ lvLeft.hides > 0 => lvLeft.hides - 1 \in Nat
  BY <1>1
<1>3. \A n \in Nat : /\ [lvLeft EXCEPT !.faults = n] \in LvBudget
                      /\ [lvLeft EXCEPT !.moves = n] \in LvBudget
                      /\ \A m \in Nat : [lvLeft EXCEPT !.moves = n, !.hides = m] \in LvBudget
  BY DEF LvBudget
<1> QED
  BY <1>2, <1>3

(* A step of the page only. *)
LEMMA LvPageStep ==
  ASSUME LvInv, UNCHANGED lvServer, lvLeft' \in LvBudget, Tab(lvTab', Sent, Overs)
  PROVE  LvInv'
<1>1. Sent' = Sent /\ Overs' = Overs
  BY DEF Sent, Overs, lvServer, Relayed
<1>2. LvServerInv'
  BY DEF LvInv, LvServerInv, lvServer
<1> QED
  BY <1>1, <1>2 DEF LvInv

(* The stream of the session shown is kept, or may be nulled. *)
LEMMA OwnedCases ==
  ASSUME LvInv,
         \/ lvTab'.stream = lvTab.stream
         \/ ~lvTab'.here
         \/ lvTab'.stream # 0
         \/ Told(lvTab, lvTab')
         \/ lvTab.here => lvTab.stream \in Overs
         \/ \A t \in 1 .. LvTurns : lvPhase[t] # "running"
         \/ \E i \in LvIds : NotDone(lvTab.followers[i]) /\ lvTab.followers[i].turn \in Overs
  PROVE  LvOwned
<1>1. \A t \in Overs : lvPhase[t] # "running" \/ Relayed(t)
  BY DEF Overs
<1>2. lvTab.stream \in 0 .. LvTurns
  BY TabFields DEF LvInv
<1>3. lvTab.stream # 0 => lvTab.stream \in 1 .. LvTurns
  <2>1. LvTurns \in Nat
    BY LvAssumption DEF LvAssumption
  <2> QED
    BY <1>2, <2>1
<1> QED
  BY <1>1, <1>3 DEF LvOwned, Told

(* The event of a journal that is not "error" comes of a turn that is over. *)
LEMMA JournalOver ==
  ASSUME LvInv, NEW i \in LvIds, NEW n \in 1 .. Len(Journal(i)), Journal(i)[n] # "error"
  PROVE  lvTab.followers[i].turn \in Overs
<1> DEFINE t == lvTab.followers[i].turn
<1>1. t \in Sent /\ t \in 1 .. LvTurns
  BY TabFields DEF LvInv, LvIds
<1>2. lvJournal[t] \in Seq(LvEvents) /\ lvPhase[t] \in {"unsent", "running", "stored", "ended", "dead"}
      /\ (lvPhase[t] \in {"unsent", "running", "stored"} =>
            \A k \in 1 .. Len(lvJournal[t]) : lvJournal[t][k] \in LvRelays \cup {"error"})
  BY <1>1 DEF LvInv, LvServerInv
<1>3. Journal(i) = lvJournal[t]
  BY DEF Journal
<1> HIDE DEF t
<1>4. CASE lvPhase[t] \in {"stored", "ended", "dead"}
  BY <1>1, <1>4 DEF Overs, t
<1>5. CASE lvPhase[t] = "running"
  <2>1. lvJournal[t][n] \in LvRelays
    BY <1>2, <1>3, <1>5
  <2>2. lvJournal[t][n] \in ToSet(lvJournal[t])
    BY <1>2, <1>3 DEF ToSet
  <2> QED
    BY <1>1, <2>1, <2>2 DEF Overs, Relayed, t
<1> QED
  BY <1>1, <1>2, <1>4, <1>5 DEF Sent

LEMMA OpenSource ==
  ASSUME LvInv, NEW src \in lvTab.open
  PROVE  src \in Nat \X Nat /\ src[1] \in LvIds
BY TabFields DEF LvInv, Tab, LvIds

LEMMA LvReadStep ==
  ASSUME LvInv, NEW src \in lvTab.open, Deliver(src) \/ ResponseEnds(src) \/ ConnectionLost(src)
  PROVE  LvInv' /\ LvOwned
<1>0. Tab(lvTab, Sent, Overs) /\ lvLeft \in LvBudget /\ LvServerInv
  BY DEF LvInv
<1> DEFINE i == src[1]
<1>i. i \in LvIds /\ i \in 1 .. Len(lvTab.followers) /\ src \in Nat \X Nat
  BY OpenSource DEF LvIds
<1>1. CASE Deliver(src)
  <2> DEFINE n == lvTab.followers[i].seen + 1
             e == Journal(i)[n]
             P == [lvTab EXCEPT !.followers[i].seen = n]
  <2>1. /\ n <= Len(Journal(i)) /\ lvTab' \in OnEvent(e, P, i, src)
        /\ UNCHANGED <<lvServer, lvLeft>>
    BY <1>1 DEF Deliver
  <2>2. n \in Nat /\ n \in 1 .. Len(Journal(i)) /\ e \in LvEvents
    <3>1. lvTab.followers[i] \in LvFollower /\ lvTab.followers[i].turn \in 1 .. LvTurns
      BY <1>0, <1>i, TabFields
    <3>2. lvTab.followers[i].seen \in Nat
      BY <3>1 DEF LvFollower
    <3>3. Journal(i) \in Seq(LvEvents)
      BY <1>0, <3>1 DEF LvServerInv, Journal
    <3>4. n \in 1 .. Len(Journal(i))
      BY <2>1, <3>2, <3>3
    <3> QED
      BY <3>2, <3>3, <3>4
  <2>3. e # "error" => lvTab.followers[i].turn \in Overs
    BY <1>i, <2>2, JournalOver
  <2> HIDE DEF i, n, e
  <2>4. Edited(P, lvTab, Sent, Overs)
    BY <1>0, <1>i, <2>2, Edits
  <2> HIDE DEF P
  <2>5. Tab(P, Sent, Overs) /\ Like(lvTab, P) /\ i \in 1 .. Len(P.followers)
        /\ (e # "error" => P.followers[i].turn \in Overs)
    <3>1. /\ Tab(P, Sent, Overs) /\ Like(lvTab, P)
          /\ Len(P.followers) = Len(lvTab.followers)
          /\ \A j \in 1 .. Len(lvTab.followers) : P.followers[j].turn = lvTab.followers[j].turn
      BY ONLY <2>4, EditedLike
    <3>2. i \in 1 .. Len(lvTab.followers)
      BY <1>i
    <3>3. P.followers[i].turn = lvTab.followers[i].turn
      BY ONLY <3>1, <3>2
    <3> QED
      BY ONLY <2>3, <3>1, <3>2, <3>3
  <2>6. \/ e = "done" /\ lvTab' \in OnDone(P, i, src)
        \/ e \in {"stream_end", "early end"} /\ lvTab' \in OnStreamEnd(P, i, src)
        \/ e \in {"apperror", "cancel"} /\ lvTab' \in OnTerminal(P, i, src)
        \/ e = "error" /\ lvTab' \in OnError(P, i, src)
    <3>1. e \in {"done", "stream_end", "early end", "apperror", "cancel", "error"}
      BY <2>2, LvAssumption DEF LvEvents, LvAssumption
    <3> QED
      BY <2>1, <3>1 DEF OnEvent
  <2>7. /\ Tab(lvTab', Sent, Overs)
        /\ lvTab'.stream = P.stream \/ (P.here => P.stream \in Overs)
    <3>1. CASE e = "done" /\ lvTab' \in OnDone(P, i, src)
      BY <2>5, <3>1, OnDoneNulls
    <3>2. CASE e \in {"stream_end", "early end"} /\ lvTab' \in OnStreamEnd(P, i, src)
      <4>1. Tab(lvTab', Sent, Overs) /\ Like(P, lvTab')
        BY <1>i, <2>5, <3>2, OnStreamEndLike
      <4> QED
        BY <4>1 DEF Like
    <3>3. CASE e \in {"apperror", "cancel"} /\ lvTab' \in OnTerminal(P, i, src)
      BY <2>5, <3>3, OnTerminalNulls
    <3>4. CASE e = "error" /\ lvTab' \in OnError(P, i, src)
      <4>1. Tab(lvTab', Sent, Overs) /\ Like(P, lvTab')
        BY <1>i, <2>5, <3>4, OnErrorLike
      <4> QED
        BY <4>1 DEF Like
    <3> QED
      BY <2>6, <3>1, <3>2, <3>3, <3>4
  <2>8. LvInv'
    BY <1>0, <2>1, <2>7, LvPageStep
  <2>9. lvTab'.stream = lvTab.stream \/ (lvTab.here => lvTab.stream \in Overs)
    BY <2>5, <2>7 DEF Like
  <2> QED
    BY <2>8, <2>9, OwnedCases
<1>2. CASE ResponseEnds(src) \/ ConnectionLost(src)
  <2>1. /\ lvTab' \in OnError(lvTab, i, src) /\ UNCHANGED lvServer /\ lvLeft' \in LvBudget
    BY <1>0, <1>2, LvBudgetTypes DEF ResponseEnds, ConnectionLost
  <2> HIDE DEF i
  <2>2. Tab(lvTab', Sent, Overs) /\ Like(lvTab, lvTab')
    BY <1>0, <1>i, <2>1, OnErrorLike
  <2>3. LvInv' /\ lvTab'.stream = lvTab.stream
    BY <1>0, <2>1, <2>2, LvPageStep DEF Like
  <2> QED
    BY <2>3, OwnedCases
<1> QED
  BY <1>1, <1>2

(* A step of the page which keeps the stream, or tells the user, or is of a *)
(* follower that is not done with a turn that is over.                      *)
LEMMA LvPageOwned ==
  ASSUME LvInv, UNCHANGED lvServer, lvLeft' \in LvBudget, Tab(lvTab', Sent, Overs),
         \/ lvTab'.stream = lvTab.stream
         \/ Told(lvTab, lvTab')
         \/ \E i \in LvIds : NotDone(lvTab.followers[i]) /\ lvTab.followers[i].turn \in Overs
  PROVE  LvInv' /\ LvOwned
<1>1. LvInv'
  BY LvPageStep
<1>2. LvOwned
  BY OwnedCases
<1> QED
  BY <1>1, <1>2

LEMMA AnswersCases ==
  ASSUME lvLeft \in LvBudget, NEW ok, NEW fails, Answers(ok, fails)
  PROVE  (lvTab' = ok \/ lvTab' = fails) /\ lvLeft' \in LvBudget
BY LvBudgetTypes DEF Answers

(* What the follower i knows of its turn. *)
LEMMA FollowerKnows ==
  ASSUME LvInv, NEW i \in LvIds
  PROVE  /\ Tab(lvTab, Sent, Overs) /\ i \in 1 .. Len(lvTab.followers) /\ i \in Nat
         /\ lvTab.followers[i] \in LvFollower
         /\ lvTab.followers[i].chainsrc \in Nat /\ lvTab.followers[i].recsrc \in Nat
         /\ lvTab.followers[i].tries \in Nat /\ lvTab.followers[i].probes \in Nat
         /\ lvTab.followers[i].reply.turn \in 0 .. LvTurns
         /\ lvTab.followers[i].recreply.turn \in 0 .. LvTurns
         /\ lvTab.followers[i].fading \/ lvTab.followers[i].recovery # "none"
              \/ lvTab.followers[i].reply.kind = "idle" => lvTab.followers[i].turn \in Overs
         /\ Status(i) = "gone" => lvTab.followers[i].turn \in Overs
         /\ lvMarked = 0 => lvTab.followers[i].turn \in Overs
<1>1. Tab(lvTab, Sent, Overs) /\ i \in 1 .. Len(lvTab.followers) /\ LvServerInv
  BY DEF LvInv, LvIds
<1>2. /\ Fit(lvTab.followers[i], Sent, Overs) /\ lvTab.followers[i] \in LvFollower
      /\ lvTab.followers[i].turn \in Sent /\ lvTab.followers[i].turn \in 1 .. LvTurns
  BY <1>1, TabFields
<1>3. /\ lvTab.followers[i].chainsrc \in Nat /\ lvTab.followers[i].recsrc \in Nat
      /\ lvTab.followers[i].tries \in Nat /\ lvTab.followers[i].probes \in Nat
      /\ lvTab.followers[i].reply \in LvReply /\ lvTab.followers[i].recreply \in LvReply
  BY <1>2 DEF LvFollower
<1>4. /\ lvTab.followers[i].reply.turn \in 0 .. LvTurns
      /\ lvTab.followers[i].recreply.turn \in 0 .. LvTurns
  BY <1>3 DEF LvReply
<1> DEFINE t == lvTab.followers[i].turn
<1>5. lvPhase[t] \in {"running", "stored", "ended", "dead"}
  BY <1>1, <1>2 DEF Sent, LvServerInv
<1>6. Status(i) = "gone" => lvPhase[t] = "dead"
  BY <1>5 DEF Status
<1>7. lvMarked = 0 => lvPhase[t] # "running"
  BY <1>1, <1>2 DEF LvServerInv
<1>8. Status(i) = "gone" \/ lvMarked = 0 => t \in Overs
  BY <1>2, <1>5, <1>6, <1>7 DEF Overs
<1> QED
  BY <1>1, <1>2, <1>3, <1>4, <1>8 DEF Fit

LEMMA FadeStep ==
  ASSUME LvInv, NEW i \in LvIds, FadeEnds(i)
  PROVE  LvInv' /\ LvOwned
<1>1. Tab(lvTab, Sent, Overs) /\ i \in 1 .. Len(lvTab.followers)
      /\ NotDone(lvTab.followers[i]) /\ lvTab.followers[i].turn \in Overs
  BY FollowerKnows DEF FadeEnds, NotDone
<1>2. /\ lvTab' = FinishDone(lvTab, i) /\ UNCHANGED <<lvServer, lvLeft>>
      /\ lvLeft' \in LvBudget
  BY DEF FadeEnds, LvInv
<1>3. Tab(lvTab', Sent, Overs)
  BY <1>1, <1>2, FinishDoneNulls
<1> QED
  BY <1>1, <1>2, <1>3, LvPageOwned

LEMMA PreflightStep ==
  ASSUME LvInv, NEW i \in LvIds, Preflight(i)
  PROVE  LvInv' /\ LvOwned
<1> DEFINE n == [lvTab EXCEPT !.followers[i].chain = "none"]
           F == ForgetInflight(n, i)
           N == StreamNulled(F, lvTab.here)
           gone == PaneIdle(N)
           ok == IF Status(i) = "gone" THEN gone ELSE Wire(lvTab, i)
<1>1. Tab(lvTab, Sent, Overs) /\ i \in 1 .. Len(lvTab.followers)
  BY FollowerKnows
<1>2. /\ Answers(ok, Wire(lvTab, i)) /\ lvTab.followers[i].chain = "preflight"
      /\ UNCHANGED lvServer /\ lvLeft \in LvBudget
  BY DEF Preflight, LvInv
<1>3. Status(i) = "gone" => lvTab.followers[i].turn \in Overs
  BY FollowerKnows
<1>4. NotDone(lvTab.followers[i])
  BY <1>2 DEF NotDone
<1>5. /\ (Status(i) = "gone" /\ lvTab' = gone) \/ lvTab' = Wire(lvTab, i)
      /\ lvLeft' \in LvBudget
  <2> HIDE DEF gone
  <2>1. (lvTab' = ok \/ lvTab' = Wire(lvTab, i)) /\ lvLeft' \in LvBudget
    <3> HIDE DEF ok
    <3> QED
      BY <1>2, AnswersCases
  <2> QED
    BY <2>1
<1>6. CASE Status(i) = "gone" /\ lvTab' = gone
  <2>1. Edited(n, lvTab, Sent, Overs)
    <3>1. "none" \in Chains
      BY DEF Chains
    <3> QED
      BY <1>1, <3>1, Edits
  <2> HIDE DEF n
  <2>2. Tab(F, Sent, Overs)
    BY <2>1, ForgetInflightLike DEF Edited
  <2> HIDE DEF F
  <2>3. Tab(N, Sent, Overs)
    BY <2>2, StreamNulledLike
  <2> HIDE DEF N
  <2>4. Tab(gone, Sent, Overs)
    BY <2>3, PaneIdleLike
  <2> HIDE DEF gone
  <2>5. Tab(lvTab', Sent, Overs)
    BY <1>6, <2>4
  <2> QED
    BY <1>2, <1>3, <1>4, <1>5, <1>6, <2>5, LvPageOwned
<1>7. CASE lvTab' = Wire(lvTab, i)
  <2>1. Tab(lvTab', Sent, Overs) /\ Like(lvTab, lvTab')
    BY <1>1, <1>7, WireLike
  <2>2. lvTab'.stream = lvTab.stream
    BY <2>1 DEF Like
  <2> QED
    BY <1>2, <1>5, <2>1, <2>2, LvPageOwned
<1> QED
  BY <1>5, <1>6, <1>7

LEMMA SessionAnsweredStep ==
  ASSUME LvInv, NEW i \in LvIds, SessionAnswered(i)
  PROVE  LvInv' /\ LvOwned
<1>1. Tab(lvTab, Sent, Overs) /\ i \in 1 .. Len(lvTab.followers) /\ lvLeft \in LvBudget
      /\ (lvMarked = 0 => lvTab.followers[i].turn \in Overs)
  BY FollowerKnows DEF LvInv
<1>2. PICK r \in SessionReplies :
        /\ \/ lvTab' = [lvTab EXCEPT !.followers[i].recreply = r]
           \/ lvTab' = [lvTab EXCEPT !.followers[i].reply = r]
        /\ lvLeft' = [lvLeft EXCEPT !.faults = IF r.kind = "failed" THEN @ - 1 ELSE @]
        /\ UNCHANGED lvServer
  BY DEF SessionAnswered
<1>3. lvTurn \in 0 .. LvTurns /\ 0 \in 0 .. LvTurns
  <2>1. LvTurns \in Nat
    BY LvAssumption DEF LvAssumption
  <2> QED
    BY <2>1 DEF LvInv, LvServerInv
<1>4. /\ r \in LvReply /\ (r.kind = "idle" => lvMarked = 0)
      /\ (r.kind = "failed" => lvLeft.faults > 0)
  BY <1>3 DEF SessionReplies, LvReply, NoReply
<1>5. lvLeft' \in LvBudget
  <2>1. CASE r.kind = "failed"
    <3>1. lvLeft' = [lvLeft EXCEPT !.faults = @ - 1]
      BY <1>2, <2>1
    <3> QED
      BY <1>1, <1>4, <2>1, <3>1, LvBudgetTypes
  <2>2. CASE r.kind # "failed"
    <3>1. lvLeft' = lvLeft
      BY <1>1, <1>2, <2>2 DEF LvBudget
    <3> QED
      BY <1>1, <3>1
  <2> QED
    BY <2>1, <2>2
<1>6. r.kind = "idle" => lvTab.followers[i].turn \in Overs
  BY <1>1, <1>4
<1>7. /\ Edited([lvTab EXCEPT !.followers[i].recreply = r], lvTab, Sent, Overs)
      /\ Edited([lvTab EXCEPT !.followers[i].reply = r], lvTab, Sent, Overs)
  BY <1>1, <1>4, <1>6, Edits
<1>8. Edited(lvTab', lvTab, Sent, Overs)
  BY <1>2, <1>7
<1>9. Tab(lvTab', Sent, Overs) /\ lvTab'.stream = lvTab.stream
  BY <1>8 DEF Edited, Like
<1> QED
  BY <1>2, <1>5, <1>9, LvPageOwned

LEMMA RecoveryRunsStep ==
  ASSUME LvInv, NEW i \in LvIds, RecoveryRuns(i)
  PROVE  LvInv' /\ LvOwned
<1> DEFINE f == lvTab.followers[i]
           src == <<i, f.recsrc>>
           C == CloseSource(lvTab, src)
           A1 == [lvTab EXCEPT !.followers[i].recovery = "asking"]
           A2 == [A1 EXCEPT !.followers[i].recreply = NoReply]
<1>1. Tab(lvTab, Sent, Overs) /\ i \in 1 .. Len(lvTab.followers)
  BY FollowerKnows
<1>2. f.turn \in Overs /\ NotDone(f) /\ lvLeft' \in LvBudget /\ UNCHANGED lvServer
  BY FollowerKnows DEF RecoveryRuns, NotDone, LvInv
<1>3. \/ lvTab' = ClearRecovery(lvTab, i)
      \/ lvTab' = StreamEndFallback(C, i, src)
      \/ lvTab' = A2
  BY DEF RecoveryRuns
<1> HIDE DEF src
<1>4. Tab(ClearRecovery(lvTab, i), Sent, Overs)
  BY <1>1, ClearRecoveryLike DEF Edited
<1>5. Tab(StreamEndFallback(C, i, src), Sent, Overs)
  <2>1. Tab(C, Sent, Overs) /\ Like(lvTab, C)
    BY <1>1, CloseSourceLike
  <2> HIDE DEF C
  <2>2. i \in 1 .. Len(C.followers)
    BY <1>1, <2>1 DEF Like
  <2> QED
    BY <2>1, <2>2, StreamEndFallbackNulls
<1>6. Tab(A2, Sent, Overs)
  <2>1. Edited(A1, lvTab, Sent, Overs)
    BY <1>1, <1>2, Edits
  <2> HIDE DEF A1
  <2>2. Tab(A1, Sent, Overs) /\ i \in 1 .. Len(A1.followers)
    BY <1>1, <2>1, EditedLike
  <2>3. NoReply \in LvReply
    <3>1. LvTurns \in Nat
      BY LvAssumption DEF LvAssumption
    <3> QED
      BY <3>1 DEF NoReply, LvReply
  <2>4. Edited(A2, A1, Sent, Overs)
    BY <2>2, <2>3, Edits
  <2> QED
    BY <2>4 DEF Edited
<1> HIDE DEF C, A1, A2
<1>7. Tab(lvTab', Sent, Overs)
  BY <1>3, <1>4, <1>5, <1>6
<1> QED
  BY <1>2, <1>7, LvPageOwned

LEMMA RecoveryReturnsStep ==
  ASSUME LvInv, NEW i \in LvIds, RecoveryReturns(i)
  PROVE  LvInv' /\ LvOwned
<1> DEFINE f == lvTab.followers[i]
           src == <<i, f.recsrc>>
           P == [lvTab EXCEPT !.followers[i].recovery = "none"]
           S == Settle(P, i, src, f.recreply.turn)
           F == StreamEndFallback(P, i, src)
           G1 == [P EXCEPT !.followers[i].recovery = "scheduled"]
           G2 == [G1 EXCEPT !.followers[i].pending = TRUE]
           n == IF f.recovery = "asking" THEN G2.followers[i].tries + 1 ELSE G2.followers[i].tries
           G == [G2 EXCEPT !.followers[i].tries = IF f.recovery = "asking" THEN @ + 1 ELSE @]
<1>1. Tab(lvTab, Sent, Overs) /\ i \in 1 .. Len(lvTab.followers)
  BY FollowerKnows
<1>2. f.turn \in Overs /\ NotDone(f) /\ lvLeft' \in LvBudget /\ UNCHANGED lvServer
      /\ f.recreply.turn \in 0 .. LvTurns
  BY FollowerKnows DEF RecoveryReturns, NotDone, LvInv
<1>3. \/ lvTab' = P \/ lvTab' = ClearRecovery(P, i)
      \/ lvTab' = S \/ lvTab' = ClearRecovery(S, i)
      \/ lvTab' = G \/ lvTab' = F
  <2>1. G = [P EXCEPT !.followers[i].recovery = "scheduled",
                      !.followers[i].pending = TRUE,
                      !.followers[i].tries = IF f.recovery = "asking" THEN @ + 1 ELSE @]
    <3> DEFINE b == f.recovery = "asking"
    <3> HIDE DEF b, P
    <3>1. [[[P EXCEPT !.followers[i].recovery = "scheduled"]
             EXCEPT !.followers[i].pending = TRUE]
             EXCEPT !.followers[i].tries = IF b THEN @ + 1 ELSE @]
          = [P EXCEPT !.followers[i].recovery = "scheduled",
                      !.followers[i].pending = TRUE,
                      !.followers[i].tries = IF b THEN @ + 1 ELSE @]
      BY ZenonT(60)
    <3> QED
      BY <3>1 DEF b
  <2> HIDE DEF G
  <2> QED
    BY <2>1 DEF RecoveryReturns
<1> HIDE DEF src
<1>4. Edited(P, lvTab, Sent, Overs)
  BY <1>1, Edits
<1> HIDE DEF P
<1>5. Tab(P, Sent, Overs) /\ i \in 1 .. Len(P.followers) /\ P.followers[i].turn = f.turn
  BY <1>1, <1>4, EditedLike
<1>6. Tab(ClearRecovery(P, i), Sent, Overs)
  BY <1>5, ClearRecoveryLike DEF Edited
<1>7. Tab(S, Sent, Overs) /\ Nulls(P, S)
  BY <1>2, <1>5, SettleNulls
<1> HIDE DEF S
<1>8. Tab(ClearRecovery(S, i), Sent, Overs)
  <2>1. i \in 1 .. Len(S.followers)
    BY <1>5, <1>7 DEF Nulls
  <2> QED
    BY <1>7, <2>1, ClearRecoveryLike DEF Edited
<1>9. Tab(F, Sent, Overs)
  BY <1>5, StreamEndFallbackNulls
<1>10. Tab(G, Sent, Overs)
  <2>0. G = [G2 EXCEPT !.followers[i].tries = n]
    OBVIOUS
  <2> HIDE DEF G
  <2>1. Edited(G1, P, Sent, Overs)
    BY <1>2, <1>5, Edits
  <2> HIDE DEF G1
  <2>2. Tab(G1, Sent, Overs) /\ i \in 1 .. Len(G1.followers)
    BY <1>5, <2>1, EditedLike
  <2>3. Edited(G2, G1, Sent, Overs)
    BY <2>2, Edits
  <2> HIDE DEF G2
  <2>4. Tab(G2, Sent, Overs) /\ i \in 1 .. Len(G2.followers)
    BY <2>2, <2>3, EditedLike
  <2>5. G2.followers[i] \in LvFollower
    BY <2>4, TabFields
  <2>6. G2.followers[i].tries \in Nat
    BY <2>5 DEF LvFollower
  <2>7. n \in Nat
    BY <2>6
  <2> HIDE DEF n
  <2>8. Edited(G, G2, Sent, Overs)
    BY <2>0, <2>4, <2>7, Edits
  <2> QED
    BY <2>8 DEF Edited
<1> HIDE DEF F, G
<1>11. Tab(lvTab', Sent, Overs)
  BY <1>3, <1>5, <1>6, <1>7, <1>8, <1>9, <1>10
<1> QED
  BY <1>2, <1>11, LvPageOwned

(* The steps of the probes, and of a deferred error. *)
LEMMA ChainStep ==
  ASSUME LvInv, NEW i \in LvIds, ProbeRuns(i) \/ Resumes(i)
  PROVE  LvInv' /\ LvOwned
<1>1. Tab(lvTab, Sent, Overs) /\ i \in 1 .. Len(lvTab.followers)
  BY FollowerKnows
<1>2. lvLeft' \in LvBudget /\ UNCHANGED lvServer
  BY DEF ProbeRuns, Resumes, LvInv
<1>3. PICK c \in Chains : lvTab' = [lvTab EXCEPT !.followers[i].chain = c]
  BY DEF ProbeRuns, Resumes, Chains
<1>4. Edited(lvTab', lvTab, Sent, Overs)
  <2>1. Edited([lvTab EXCEPT !.followers[i].chain = c], lvTab, Sent, Overs)
    BY <1>1, Edits
  <2> QED
    BY <1>3, <2>1
<1>5. Tab(lvTab', Sent, Overs) /\ lvTab'.stream = lvTab.stream
  BY <1>4 DEF Edited, Like
<1> QED
  BY <1>2, <1>5, LvPageOwned

LEMMA AnsweredStep ==
  ASSUME LvInv, NEW i \in LvIds, ProbeAnswered(i) \/ ResumeAnswered(i)
  PROVE  LvInv' /\ LvOwned
<1> DEFINE n == [lvTab EXCEPT !.followers[i].chain = "none"]
           W == Wire(lvTab, i)
           A(c) == AskRestore(lvTab, i, c)
<1>1. Tab(lvTab, Sent, Overs) /\ i \in 1 .. Len(lvTab.followers) /\ lvLeft \in LvBudget
  BY FollowerKnows DEF LvInv
<1>2. /\ UNCHANGED lvServer /\ lvLeft' \in LvBudget
      /\ \/ lvTab' = W \/ lvTab' = n \/ \E c \in {"restoring", "resume restore"} : lvTab' = A(c)
  <2>1. CASE ProbeAnswered(i)
    <3> DEFINE ok == IF Status(i) = "gone" THEN A("restoring") ELSE W
               nx == A("restoring")
    <3>1. UNCHANGED lvServer /\ Answers(ok, nx)
      BY <2>1 DEF ProbeAnswered
    <3>2. ok = nx \/ ok = W
      OBVIOUS
    <3>3. (lvTab' = ok \/ lvTab' = nx) /\ lvLeft' \in LvBudget
      <4> HIDE DEF ok, nx
      <4> QED
        BY <1>1, <3>1, AnswersCases
    <3>4. nx = A("restoring")
      OBVIOUS
    <3> HIDE DEF ok, nx, A, W
    <3> QED
      BY <3>1, <3>2, <3>3, <3>4
  <2>2. CASE ResumeAnswered(i)
    <3> DEFINE nx == A("resume restore")
               ok == IF Status(i) = "active" THEN W ELSE nx
               no == IF lvTab.hidden THEN n ELSE nx
    <3>1. UNCHANGED lvServer /\ Answers(ok, no)
      BY <2>2 DEF ResumeAnswered
    <3>2. (ok = nx \/ ok = W) /\ (no = n \/ no = nx)
      OBVIOUS
    <3>3. (lvTab' = ok \/ lvTab' = no) /\ lvLeft' \in LvBudget
      <4> HIDE DEF ok, no
      <4> QED
        BY <1>1, <3>1, AnswersCases
    <3>4. nx = A("resume restore")
      OBVIOUS
    <3> HIDE DEF ok, no, nx, A, W, n
    <3> QED
      BY <3>1, <3>2, <3>3, <3>4
  <2> QED
    BY <2>1, <2>2
<1>3. {"none", "restoring", "resume restore"} \subseteq Chains
  BY DEF Chains
<1>4. Tab(n, Sent, Overs) /\ Like(lvTab, n)
  <2>1. Edited(n, lvTab, Sent, Overs)
    BY <1>1, <1>3, Edits
  <2> QED
    BY <2>1 DEF Edited
<1>5. Tab(W, Sent, Overs) /\ Like(lvTab, W)
  BY <1>1, WireLike
<1>6. \A c \in {"restoring", "resume restore"} : Tab(A(c), Sent, Overs) /\ Like(lvTab, A(c))
  BY <1>1, <1>3, AskRestoreLike
<1> HIDE DEF n, W, A
<1>7. Tab(lvTab', Sent, Overs) /\ Like(lvTab, lvTab')
  BY <1>2, <1>4, <1>5, <1>6
<1>8. lvTab'.stream = lvTab.stream
  BY <1>7 DEF Like
<1> QED
  BY <1>2, <1>7, <1>8, LvPageOwned

LEMMA RestoreReturnsStep ==
  ASSUME LvInv, NEW i \in LvIds, RestoreReturns(i)
  PROVE  LvInv' /\ LvOwned
<1> DEFINE f == lvTab.followers[i]
           src == <<i, f.chainsrc>>
           Q == [lvTab EXCEPT !.followers[i].chain = "none"]
           S == Settle(Q, i, src, f.reply.turn)
           G == GiveUp(lvTab, i, src)
           L == StreamLost(Q, i, src)
           A == AskRestore(lvTab, i, "last restore")
           m == f.probes + 1
           W1 == [lvTab EXCEPT !.followers[i].probes = m]
           W == [W1 EXCEPT !.followers[i].chain = "waiting"]
<1>1. Tab(lvTab, Sent, Overs) /\ i \in 1 .. Len(lvTab.followers)
  BY FollowerKnows
<1>2. NotDone(f) /\ lvLeft' \in LvBudget /\ UNCHANGED lvServer
      /\ f.reply.turn \in 0 .. LvTurns /\ m \in Nat
      /\ (f.reply.kind = "idle" => f.turn \in Overs)
  <2>1. /\ f.reply.turn \in 0 .. LvTurns /\ f.probes \in Nat
        /\ (f.reply.kind = "idle" => f.turn \in Overs)
    BY FollowerKnows
  <2>2. NotDone(f) /\ lvLeft' \in LvBudget /\ UNCHANGED lvServer
    BY DEF RestoreReturns, NotDone, LvInv
  <2> QED
    BY <2>1, <2>2
<1>3. \/ lvTab' \in {Q, G, L, A, W}
      \/ f.reply.kind = "idle" /\ lvTab' = S
  BY DEF RestoreReturns, Restores
<1> HIDE DEF src, m
<1>4. {"none", "waiting", "last restore"} \subseteq Chains
  BY DEF Chains
<1>5. Edited(Q, lvTab, Sent, Overs)
  BY <1>1, <1>4, Edits
<1> HIDE DEF Q
<1>6. Tab(Q, Sent, Overs) /\ i \in 1 .. Len(Q.followers)
      /\ Q.stream = lvTab.stream /\ Q.here = lvTab.here
  BY <1>1, <1>5 DEF Edited, Like
<1>7. Tab(S, Sent, Overs)
  BY <1>2, <1>6, SettleNulls
<1>8. Tab(G, Sent, Overs) /\ Told(lvTab, G)
  BY <1>1, GiveUpTells
<1>9. Tab(L, Sent, Overs) /\ Told(lvTab, L)
  <2>1. Tab(L, Sent, Overs) /\ Told(Q, L)
    BY <1>6, StreamLostTells
  <2> HIDE DEF L
  <2> QED
    BY <1>6, <2>1 DEF Told
<1>10. Tab(A, Sent, Overs) /\ A.stream = lvTab.stream
  <2>1. Tab(A, Sent, Overs) /\ Like(lvTab, A)
    BY <1>1, <1>4, AskRestoreLike
  <2> HIDE DEF A
  <2> QED
    BY <2>1 DEF Like
<1>11. Tab(W, Sent, Overs) /\ W.stream = lvTab.stream
  <2>1. Edited(W1, lvTab, Sent, Overs)
    BY <1>1, <1>2, Edits
  <2> HIDE DEF W1
  <2>2. Tab(W1, Sent, Overs) /\ i \in 1 .. Len(W1.followers)
    BY <1>1, <2>1, EditedLike
  <2>3. Edited(W, W1, Sent, Overs)
    BY <1>4, <2>2, Edits
  <2> HIDE DEF W
  <2> QED
    BY <2>1, <2>3 DEF Edited, Like
<1> HIDE DEF S, G, L, A, W
<1>12. Tab(lvTab', Sent, Overs)
  BY <1>3, <1>6, <1>7, <1>8, <1>9, <1>10, <1>11
<1>13. \/ lvTab'.stream = lvTab.stream
       \/ Told(lvTab, lvTab')
       \/ f.turn \in Overs
  BY <1>2, <1>3, <1>6, <1>8, <1>9, <1>10, <1>11
<1> QED
  BY <1>2, <1>12, <1>13, LvPageOwned

(* A step of the server only: no turn becomes unsent, or goes on again. *)
LEMMA LvServerStep ==
  ASSUME LvInv, UNCHANGED lvTab, lvLeft' \in LvBudget, LvServerInv',
         Sent \subseteq Sent', Overs \subseteq Overs'
  PROVE  LvInv' /\ LvOwned
<1>1. Tab(lvTab, Sent', Overs')
  BY TabMono DEF LvInv
<1>2. Tab(lvTab', Sent', Overs')
  BY <1>1
<1> QED
  BY <1>2 DEF LvInv, LvOwned

(* The server's part of the invariant, turn by turn. *)
LEMMA LvServerFacts ==
  ASSUME LvInv
  PROVE  /\ LvTurns \in Nat /\ lvTurn \in 0 .. LvTurns /\ lvMarked \in 0 .. lvTurn
         /\ lvLeft \in LvBudget
         /\ \A t \in 1 .. LvTurns :
              /\ lvPhase[t] \in {"unsent", "running", "stored", "ended", "dead"}
              /\ lvJournal[t] \in Seq(LvEvents)
              /\ lvPhase[t] = "unsent" <=> t > lvTurn
              /\ lvPhase[t] = "running" => t = lvTurn /\ lvMarked = t
<1>1. LvTurns \in Nat
  BY LvAssumption DEF LvAssumption
<1> QED
  BY <1>1 DEF LvInv, LvServerInv

LEMMA PublishesStep ==
  ASSUME LvInv, NEW e \in LvRelays \cup {"error"}, Publishes(e)
  PROVE  LvInv' /\ LvOwned
<1>1. /\ lvTurn > 0 /\ lvPhase[lvTurn] = "running" /\ lvJournal[lvTurn] = << >>
      /\ lvJournal' = [lvJournal EXCEPT ![lvTurn] = <<e>>]
      /\ UNCHANGED <<lvTurn, lvPhase, lvMarked, lvTab, lvLeft>>
  BY DEF Publishes
<1>2. lvTurn \in 1 .. LvTurns /\ LvTurns \in Nat
  BY <1>1, LvServerFacts
<1>3. /\ e \in LvEvents /\ <<e>> \in Seq(LvEvents) /\ Len(<<e>>) = 1 /\ <<e>>[1] = e
      /\ ToSet(lvJournal[lvTurn]) = {}
  BY <1>1 DEF LvEvents, ToSet
<1>4. LvServerInv /\ lvJournal \in [1 .. LvTurns -> Seq(LvEvents)]
  BY DEF LvInv, LvServerInv
<1>5. \A t \in 1 .. LvTurns : lvJournal'[t] = IF t = lvTurn THEN <<e>> ELSE lvJournal[t]
  BY <1>1, <1>2, <1>4
<1>6. LvServerInv'
  <2>1. lvJournal' \in [1 .. LvTurns -> Seq(LvEvents)]
    BY <1>1, <1>2, <1>3, <1>4
  <2>2. \A t \in 1 .. LvTurns : lvPhase[t] \in {"unsent", "running", "stored"} =>
          \A k \in 1 .. Len(lvJournal'[t]) : lvJournal'[t][k] \in LvRelays \cup {"error"}
    <3> TAKE t \in 1 .. LvTurns
    <3> HAVE lvPhase[t] \in {"unsent", "running", "stored"}
    <3>1. CASE t = lvTurn
      <4>1. lvJournal'[t] = <<e>>
        BY <1>5, <3>1
      <4> QED
        BY <1>3, <4>1
    <3>2. CASE t # lvTurn
      <4>1. lvJournal'[t] = lvJournal[t]
        BY <1>5, <3>2
      <4> QED
        BY <1>4, <4>1 DEF LvServerInv
    <3> QED
      BY <3>1, <3>2
  <2> QED
    BY <1>1, <1>4, <2>1, <2>2 DEF LvServerInv
<1>7. \A t \in 1 .. LvTurns : Relayed(t) => Relayed(t)'
  BY <1>3, <1>5 DEF Relayed
<1>8. Sent \subseteq Sent' /\ Overs \subseteq Overs'
  BY <1>1, <1>7 DEF Sent, Overs
<1>9. lvLeft' \in LvBudget
  BY <1>1 DEF LvInv
<1> QED
  BY <1>1, <1>6, <1>8, <1>9, LvServerStep

LEMMA AnswerStoredStep ==
  ASSUME LvInv, AnswerStored
  PROVE  LvInv' /\ LvOwned
<1>1. /\ lvTurn > 0 /\ lvPhase[lvTurn] = "running"
      /\ lvPhase' = [lvPhase EXCEPT ![lvTurn] = "stored"] /\ lvMarked' = 0
      /\ UNCHANGED <<lvTurn, lvJournal, lvTab, lvLeft>>
  BY DEF AnswerStored
<1>2. lvTurn \in 1 .. LvTurns /\ LvTurns \in Nat
  BY <1>1, LvServerFacts
<1>3. LvServerInv /\ lvPhase \in [1 .. LvTurns -> {"unsent", "running", "stored", "ended", "dead"}]
  BY DEF LvInv, LvServerInv
<1>4. \A t \in 1 .. LvTurns : lvPhase'[t] = IF t = lvTurn THEN "stored" ELSE lvPhase[t]
  BY <1>1, <1>2, <1>3
<1>5. LvServerInv'
  <2>1. lvPhase' \in [1 .. LvTurns -> {"unsent", "running", "stored", "ended", "dead"}]
    BY <1>1, <1>3
  <2> QED
    BY <1>1, <1>2, <1>3, <1>4, <2>1 DEF LvServerInv
<1>6. \A t \in 1 .. LvTurns : Relayed(t)' = Relayed(t)
  BY <1>1 DEF Relayed
<1>7. Sent \subseteq Sent' /\ Overs \subseteq Overs'
  BY <1>4, <1>6 DEF Sent, Overs
<1>8. lvLeft' \in LvBudget
  BY <1>1 DEF LvInv
<1> QED
  BY <1>1, <1>5, <1>7, <1>8, LvServerStep

LEMMA JournalEndsStep ==
  ASSUME LvInv, NEW t \in 1 .. LvTurns, JournalEnds(t)
  PROVE  LvInv' /\ LvOwned
<1> DEFINE J == lvJournal[t] \o <<"done", "stream_end">>
<1>1. /\ lvPhase[t] = "stored" /\ lvPhase' = [lvPhase EXCEPT ![t] = "ended"]
      /\ lvJournal' = [lvJournal EXCEPT ![t] = J]
      /\ UNCHANGED <<lvTurn, lvMarked, lvTab, lvLeft>>
  BY DEF JournalEnds
<1>2. /\ LvServerInv /\ lvJournal \in [1 .. LvTurns -> Seq(LvEvents)]
      /\ lvPhase \in [1 .. LvTurns -> {"unsent", "running", "stored", "ended", "dead"}]
  BY DEF LvInv, LvServerInv
<1>3. J \in Seq(LvEvents) /\ ToSet(lvJournal[t]) \subseteq ToSet(J)
  <2>1. lvJournal[t] \in Seq(LvEvents) /\ <<"done", "stream_end">> \in Seq(LvEvents)
    BY <1>2 DEF LvEvents
  <2>2. J \in Seq(LvEvents) /\ Len(J) = Len(lvJournal[t]) + 2
        /\ \A k \in 1 .. Len(lvJournal[t]) : J[k] = lvJournal[t][k] /\ k \in 1 .. Len(J)
    BY <2>1
  <2> HIDE DEF J
  <2> QED
    BY <2>2 DEF ToSet
<1> HIDE DEF J
<1>4. /\ \A u \in 1 .. LvTurns : lvPhase'[u] = IF u = t THEN "ended" ELSE lvPhase[u]
      /\ \A u \in 1 .. LvTurns : lvJournal'[u] = IF u = t THEN J ELSE lvJournal[u]
  BY <1>1, <1>2
<1>5. LvServerInv'
  <2>1. /\ lvPhase' \in [1 .. LvTurns -> {"unsent", "running", "stored", "ended", "dead"}]
        /\ lvJournal' \in [1 .. LvTurns -> Seq(LvEvents)]
    BY <1>1, <1>2, <1>3
  <2>2. \A u \in 1 .. LvTurns : lvPhase'[u] \in {"unsent", "running", "stored"} =>
          \A k \in 1 .. Len(lvJournal'[u]) : lvJournal'[u][k] \in LvRelays \cup {"error"}
    BY <1>2, <1>4 DEF LvServerInv
  <2>3. \A u \in 1 .. LvTurns :
          /\ lvPhase'[u] = "unsent" <=> u > lvTurn
          /\ lvPhase'[u] = "running" => u = lvTurn /\ lvMarked = u
    BY <1>1, <1>2, <1>4 DEF LvServerInv
  <2> QED
    BY <1>1, <1>2, <2>1, <2>2, <2>3 DEF LvServerInv
<1>6. \A u \in 1 .. LvTurns : Relayed(u) => Relayed(u)'
  BY <1>3, <1>4 DEF Relayed
<1>7. Sent \subseteq Sent' /\ Overs \subseteq Overs'
  BY <1>4, <1>6 DEF Sent, Overs
<1>8. lvLeft' \in LvBudget
  BY <1>1 DEF LvInv
<1> QED
  BY <1>1, <1>5, <1>7, <1>8, LvServerStep

LEMMA ServerRestartsStep ==
  ASSUME LvInv, ServerRestarts
  PROVE  LvInv' /\ LvOwned
<1>1. /\ lvLeft.faults > 0 /\ lvLeft' = [lvLeft EXCEPT !.faults = @ - 1]
      /\ lvPhase' = [t \in 1 .. LvTurns |-> IF t <= lvTurn THEN "dead" ELSE lvPhase[t]]
      /\ UNCHANGED <<lvTurn, lvMarked, lvJournal, lvTab>>
  BY DEF ServerRestarts
<1>2. LvServerInv /\ lvLeft \in LvBudget
  BY DEF LvInv
<1>3. \A t \in 1 .. LvTurns : lvPhase'[t] = IF t <= lvTurn THEN "dead" ELSE "unsent"
  BY <1>1, <1>2, LvServerFacts
<1>4. lvLeft' \in LvBudget
  BY <1>1, <1>2, LvBudgetTypes
<1>5. LvServerInv'
  <2>1. lvPhase' \in [1 .. LvTurns -> {"unsent", "running", "stored", "ended", "dead"}]
    BY <1>1, <1>3
  <2>2. \A t \in 1 .. LvTurns : lvPhase'[t] = "unsent" <=> t > lvTurn
    BY <1>3, LvServerFacts
  <2>3. \A t \in 1 .. LvTurns : lvPhase'[t] = "unsent" => lvPhase[t] = "unsent"
    BY <1>2, <2>2 DEF LvServerInv
  <2> QED
    BY <1>1, <1>2, <1>3, <2>1, <2>2, <2>3 DEF LvServerInv
<1>6. \A t \in 1 .. LvTurns : Relayed(t)' = Relayed(t)
  BY <1>1 DEF Relayed
<1>7. \A t \in 1 .. LvTurns : lvPhase[t] # "unsent" => lvPhase'[t] = "dead"
  BY <1>3, LvServerFacts
<1>8. Sent \subseteq Sent' /\ Overs \subseteq Overs'
  BY <1>6, <1>7 DEF Sent, Overs
<1> QED
  BY <1>1, <1>4, <1>5, <1>8, LvServerStep

LEMMA StartTurnStep ==
  ASSUME LvInv, StartTurn
  PROVE  LvInv' /\ LvOwned
<1> DEFINE n == lvTurn + 1
           P == [lvTab EXCEPT !.busy = TRUE, !.stream = n, !.inflight = "held"]
<1>1. /\ lvTurn < LvTurns /\ lvMarked = 0
      /\ lvTurn' = n /\ lvMarked' = n
      /\ lvPhase' = [lvPhase EXCEPT ![n] = "running"]
      /\ lvTab' = Attach(P, n, FALSE)
      /\ UNCHANGED <<lvJournal, lvLeft>>
  BY DEF StartTurn
<1>2. n \in 1 .. LvTurns /\ n # 0 /\ n \in 0 .. LvTurns /\ n \in Nat /\ lvTurn \in Nat
  BY <1>1, LvServerFacts
<1>3. /\ LvServerInv /\ Tab(lvTab, Sent, Overs)
      /\ lvPhase \in [1 .. LvTurns -> {"unsent", "running", "stored", "ended", "dead"}]
  BY DEF LvInv, LvServerInv
<1> HIDE DEF P
<1>4. \A t \in 1 .. LvTurns : lvPhase'[t] = IF t = n THEN "running" ELSE lvPhase[t]
  BY <1>1, <1>2, <1>3
<1>5. LvServerInv'
  <2>1. lvPhase' \in [1 .. LvTurns -> {"unsent", "running", "stored", "ended", "dead"}]
    BY <1>1, <1>3
  <2>2. \A t \in 1 .. LvTurns :
          /\ lvPhase[t] = "unsent" <=> t > lvTurn
          /\ lvPhase[t] # "running" \/ t = 0
    BY <1>1, LvServerFacts
  <2>3. \A t \in 1 .. LvTurns :
          /\ lvPhase'[t] = "unsent" <=> t > n
          /\ lvPhase'[t] = "running" => t = n
    BY <1>2, <1>4, <2>2
  <2>4. \A t \in 1 .. LvTurns : lvPhase'[t] \in {"unsent", "running", "stored"} =>
          lvPhase[t] \in {"unsent", "running", "stored"}
    BY <1>2, <1>4, <2>2
  <2>5. lvTurn' \in 0 .. LvTurns /\ lvMarked' \in 0 .. lvTurn'
    BY <1>1, <1>2
  <2> HIDE DEF n
  <2> QED
    BY <1>1, <1>3, <2>1, <2>3, <2>4, <2>5 DEF LvServerInv
<1>6. \A t \in 1 .. LvTurns : Relayed(t)' = Relayed(t)
  BY <1>1 DEF Relayed
<1>7. lvPhase[n] = "unsent"
  BY <1>2, LvServerFacts
<1>8. Sent \subseteq Sent' /\ Overs \subseteq Overs' /\ n \in Sent'
  BY <1>2, <1>4, <1>6, <1>7 DEF Sent, Overs
<1>9. Tab(lvTab, Sent', Overs')
  BY <1>3, <1>8, TabMono
<1> HIDE DEF n
<1>10. Tab(P, Sent', Overs') /\ P.stream = n
  <2>1. P \in LvTabs /\ P.followers = lvTab.followers /\ P.live = lvTab.live
        /\ P.open \subseteq lvTab.open /\ P.stream = n
    BY <1>2, <1>9 DEF P, Tab, LvTabs
  <2> QED
    BY <1>9, <2>1, EditPage
<1>11. Tab(lvTab', Sent', Overs') /\ lvTab'.stream = n
  <2> DEFINE b == FALSE
             Q == Attach(P, n, b)
  <2>1. b \in BOOLEAN /\ lvTab' = Q
    BY <1>1
  <2> HIDE DEF b
  <2>2. Tab(Q, Sent', Overs') /\ Q.stream = P.stream
    BY <1>2, <1>8, <1>10, <2>1, AttachTab
  <2> QED
    BY <1>10, <2>1, <2>2
<1>12. lvLeft' \in LvBudget
  BY <1>1 DEF LvInv
<1>13. LvInv'
  BY <1>5, <1>11, <1>12 DEF LvInv
<1>14. LvOwned
  BY <1>2, <1>11 DEF LvOwned
<1> QED
  BY <1>13, <1>14

(* The user leaves the session, or another is shown in its place. *)
LEMMA LeaveStep ==
  ASSUME LvInv, Leave
  PROVE  LvInv' /\ LvOwned
<1> DEFINE inf == IF lvTab.inflight = "none" /\ (lvTab.busy \/ lvTab.stream # 0)
                    THEN "held" ELSE lvTab.inflight
           P == [lvTab EXCEPT !.load = "leaving", !.inflight = inf]
<1>1. Tab(lvTab, Sent, Overs) /\ lvTab \in LvTabs /\ lvLeft \in LvBudget
  BY DEF LvInv, Tab
<1>2. lvTab' = CloseLiveStream(P) /\ UNCHANGED lvServer
      /\ lvLeft.moves > 0 /\ lvLeft' = [lvLeft EXCEPT !.moves = @ - 1]
  BY DEF Leave, LvMove
<1>3. lvLeft' \in LvBudget
  BY <1>1, <1>2, LvBudgetTypes
<1>4. P \in LvTabs /\ P.followers = lvTab.followers /\ P.live = lvTab.live
      /\ P.open \subseteq lvTab.open /\ P.stream = lvTab.stream
  <2>1. inf \in {"none", "held", "reattach"}
    BY <1>1 DEF LvTabs
  <2> HIDE DEF inf
  <2> QED
    BY <1>1, <2>1 DEF LvTabs
<1> HIDE DEF P
<1>5. Tab(P, Sent, Overs)
  BY <1>1, <1>4, EditPage
<1>6. Tab(lvTab', Sent, Overs) /\ Like(P, lvTab')
  BY <1>2, <1>5, CloseLiveStreamLike
<1>7. lvTab'.stream = lvTab.stream
  BY <1>4, <1>6 DEF Like
<1> QED
  BY <1>2, <1>3, <1>6, <1>7, LvPageOwned

LEMMA OtherShownStep ==
  ASSUME LvInv, OtherShown
  PROVE  LvInv' /\ LvOwned
<1>0. 0 \in 0 .. LvTurns
  <2>1. LvTurns \in Nat
    BY LvAssumption DEF LvAssumption
  <2> QED
    BY <2>1
<1>1. Tab(lvTab, Sent, Overs) /\ lvTab \in LvTabs
  BY DEF LvInv, Tab
<1>2. lvTab' = [lvTab EXCEPT !.load = "none", !.here = FALSE, !.busy = FALSE, !.stream = 0]
      /\ UNCHANGED lvServer /\ lvLeft' \in LvBudget
  BY DEF OtherShown, LvInv
<1>3. lvTab' \in LvTabs /\ lvTab'.followers = lvTab.followers /\ lvTab'.live = lvTab.live
      /\ lvTab'.open \subseteq lvTab.open /\ ~lvTab'.here
  BY <1>0, <1>1, <1>2 DEF LvTabs
<1>4. Tab(lvTab', Sent, Overs)
  BY <1>1, <1>3, EditPage
<1>5. LvInv'
  BY <1>2, <1>4, LvPageStep
<1> QED
  BY <1>3, <1>5 DEF LvOwned

(* The session is asked for, or the page is hidden or shown. *)
LEMMA PageShownStep ==
  ASSUME LvInv, OpenAgain \/ Hide \/ Show
  PROVE  LvInv' /\ LvOwned
<1>1. Tab(lvTab, Sent, Overs) /\ lvTab \in LvTabs /\ lvLeft \in LvBudget
  BY DEF LvInv, Tab
<1>2. /\ \/ lvTab' = [lvTab EXCEPT !.load = "asked"]
         \/ \E b \in BOOLEAN : lvTab' = [lvTab EXCEPT !.hidden = b]
      /\ UNCHANGED lvServer
  BY DEF OpenAgain, Hide, Show, LvMove
<1>3. lvLeft' \in LvBudget
  <2>1. \/ lvLeft' = lvLeft
        \/ lvLeft.moves > 0 /\ lvLeft' = [lvLeft EXCEPT !.moves = @ - 1]
        \/ /\ lvLeft.moves > 0 /\ lvLeft.hides > 0
           /\ lvLeft' = [lvLeft EXCEPT !.moves = @ - 1, !.hides = @ - 1]
    BY DEF OpenAgain, Hide, Show, LvMove
  <2> QED
    BY <1>1, <2>1, LvBudgetTypes
<1>4. lvTab' \in LvTabs /\ lvTab'.followers = lvTab.followers /\ lvTab'.live = lvTab.live
      /\ lvTab'.open \subseteq lvTab.open /\ lvTab'.stream = lvTab.stream
  BY <1>1, <1>2 DEF LvTabs
<1>5. Tab(lvTab', Sent, Overs)
  BY <1>1, <1>4, EditPage
<1> QED
  BY <1>2, <1>3, <1>4, <1>5, LvPageOwned

(* The session is opened: idle, or with the turn its marker names, which    *)
(* was sent.                                                                *)
LEMMA OpenedStep ==
  ASSUME LvInv, Opened
  PROVE  LvInv' /\ LvOwned
<1> DEFINE P == [lvTab EXCEPT !.load = "none", !.here = TRUE]
           I == [P EXCEPT !.busy = FALSE, !.stream = 0, !.inflight = "none", !.shown = lvTurn]
           Q == [P EXCEPT !.busy = TRUE, !.stream = lvMarked]
           H == [Q EXCEPT !.inflight = "held"]
           b == TRUE
           A == Attach(H, lvMarked, b)
<1>1. Tab(lvTab, Sent, Overs) /\ lvTab \in LvTabs
  BY DEF LvInv, Tab
<1>2. /\ \/ lvMarked = 0 /\ lvTab' = I
         \/ lvMarked # 0 /\ (lvTab' = Q \/ lvTab' = A)
      /\ UNCHANGED lvServer /\ lvLeft' \in LvBudget
  BY DEF Opened, LvInv
<1>3. /\ 0 \in 0 .. LvTurns /\ lvTurn \in 0 .. LvTurns /\ lvMarked \in 0 .. LvTurns
      /\ lvMarked # 0 => lvMarked \in Sent /\ lvMarked \in 1 .. LvTurns
  <2>1. LvTurns \in Nat /\ lvTurn \in 0 .. LvTurns /\ lvMarked \in 0 .. lvTurn
    BY LvServerFacts
  <2>2. lvMarked # 0 => lvMarked \in 1 .. LvTurns /\ ~(lvMarked > lvTurn)
    BY <2>1
  <2>3. lvMarked # 0 => lvPhase[lvMarked] # "unsent"
    BY <2>2, LvServerFacts
  <2> QED
    BY <2>1, <2>2, <2>3 DEF Sent
<1>4. /\ I \in LvTabs /\ Q \in LvTabs /\ H \in LvTabs
      /\ \A R \in {I, Q, H} : /\ R.followers = lvTab.followers /\ R.live = lvTab.live
                              /\ R.open \subseteq lvTab.open
      /\ Q.stream = lvMarked /\ H.stream = lvMarked
  <2>1. P \in LvTabs /\ P.followers = lvTab.followers /\ P.live = lvTab.live
        /\ P.open = lvTab.open
    BY <1>1 DEF LvTabs
  <2> HIDE DEF P
  <2>2. I \in LvTabs /\ I.followers = lvTab.followers /\ I.live = lvTab.live
        /\ I.open = lvTab.open
    BY <1>3, <2>1 DEF LvTabs
  <2>3. Q \in LvTabs /\ Q.followers = lvTab.followers /\ Q.live = lvTab.live
        /\ Q.open = lvTab.open /\ Q.stream = lvMarked
    BY <1>3, <2>1 DEF LvTabs
  <2> HIDE DEF Q
  <2>4. H \in LvTabs /\ H.followers = lvTab.followers /\ H.live = lvTab.live
        /\ H.open = lvTab.open /\ H.stream = lvMarked
    BY <2>3 DEF LvTabs
  <2> HIDE DEF I, H
  <2> QED
    BY <2>2, <2>3, <2>4
<1>5. b \in BOOLEAN
  OBVIOUS
<1> HIDE DEF I, Q, H, b
<1>6. Tab(I, Sent, Overs) /\ Tab(Q, Sent, Overs) /\ Tab(H, Sent, Overs)
  BY <1>1, <1>4, EditPage
<1>7. CASE lvMarked = 0 /\ lvTab' = I
  <2>1. \A t \in 1 .. LvTurns : lvPhase[t] # "running"
    BY <1>7, LvServerFacts
  <2>2. LvInv'
    BY <1>2, <1>6, <1>7, LvPageStep
  <2>3. LvOwned
    BY <2>1, OwnedCases
  <2> QED
    BY <2>2, <2>3
<1>8. CASE lvMarked # 0 /\ (lvTab' = Q \/ lvTab' = A)
  <2>1. Tab(A, Sent, Overs) /\ A.stream = H.stream
    BY <1>3, <1>5, <1>6, <1>8, AttachTab
  <2> HIDE DEF A
  <2>2. Tab(lvTab', Sent, Overs) /\ lvTab'.stream # 0
    BY <1>4, <1>6, <1>8, <2>1
  <2>3. LvInv'
    BY <1>2, <2>2, LvPageStep
  <2>4. LvOwned
    BY <2>2, OwnedCases
  <2> QED
    BY <2>3, <2>4
<1> QED
  BY <1>2, <1>7, <1>8

LEMMA LvStep == LvInv /\ LvNext => LvInv' /\ LvOwned
<1> SUFFICES ASSUME LvInv, LvNext PROVE LvInv' /\ LvOwned
  OBVIOUS
<1>1. CASE StartTurn
  BY <1>1, StartTurnStep
<1>2. CASE ServerRestarts
  BY <1>2, ServerRestartsStep
<1>3. ASSUME NEW e \in LvRelays \cup {"error"}, Publishes(e) PROVE LvInv' /\ LvOwned
  BY <1>3, PublishesStep
<1>4. CASE Leave \/ OpenAgain \/ Hide \/ Show
  BY <1>4, LeaveStep, PageShownStep
<1>5. ASSUME NEW src \in lvTab.open, Deliver(src) \/ ResponseEnds(src) \/ ConnectionLost(src)
      PROVE  LvInv' /\ LvOwned
  BY <1>5, LvReadStep
<1>6. CASE LvFollowing
  <2>1. PICK i \in LvIds :
          \/ FadeEnds(i) \/ Preflight(i) \/ SessionAnswered(i) \/ RecoveryRuns(i)
          \/ RecoveryReturns(i) \/ ProbeRuns(i) \/ ProbeAnswered(i) \/ RestoreReturns(i)
          \/ Resumes(i) \/ ResumeAnswered(i)
    BY <1>6 DEF LvFollowing
  <2> QED
    BY <2>1, FadeStep, PreflightStep, SessionAnsweredStep, RecoveryRunsStep,
       RecoveryReturnsStep, ChainStep, AnsweredStep, RestoreReturnsStep
<1>7. CASE LvServing
  BY <1>7, AnswerStoredStep, JournalEndsStep DEF LvServing
<1>8. CASE LvLoading
  BY <1>8, OtherShownStep, OpenedStep DEF LvLoading
<1> QED
  BY <1>1, <1>2, <1>3, <1>4, <1>5, <1>6, <1>7, <1>8 DEF LvNext, LvReading

(* A step that changes nothing of a part. *)
LEMMA LvStepInv == LvInv /\ [LvNext]_lvVars => LvInv' /\ [LvOwned]_lvVars
<1> SUFFICES ASSUME LvInv, [LvNext]_lvVars PROVE LvInv' /\ [LvOwned]_lvVars
  OBVIOUS
<1>1. CASE UNCHANGED lvVars
  <2>1. UNCHANGED lvServer /\ lvTab' = lvTab /\ lvLeft' = lvLeft
    BY <1>1 DEF lvVars, lvServer
  <2> QED
    BY <1>1, <2>1, LvPageStep DEF LvInv
<1> QED
  BY <1>1, LvStep

LEMMA CpStepInv == CpInv /\ [CpNext]_cpVars => CpInv' /\ [CpKept]_cpVars
<1> SUFFICES ASSUME CpInv, [CpNext]_cpVars PROVE CpInv' /\ [CpKept]_cpVars
  OBVIOUS
<1>1. CASE UNCHANGED cpVars
  <2>0. /\ cpRunning' = cpRunning /\ cpTaken' = cpTaken /\ cpDrafts' = cpDrafts
        /\ cpPage' = cpPage /\ cpSend' = cpSend /\ cpLoad' = cpLoad /\ cpStops' = cpStops
        /\ cpList' = cpList /\ cpTyped' = cpTyped /\ cpHome' = cpHome /\ cpLeft' = cpLeft
    BY <1>1 DEF cpVars
  <2>1. CpTypeOK'
    <3>1. /\ cpRunning' \in [CpSessions -> CpTurns]
          /\ cpTaken' \in [CpMessages -> Seq(CpSessions)]
          /\ cpDrafts' \in [CpSessions -> CpDraft]
      BY <2>0 DEF CpInv, CpTypeOK, CpDraft
    <3>2. cpPage' \in CpPages
      BY <2>0, CpTypes DEF CpInv
    <3>3. cpSend' \in CpSends
      BY <2>0, CpTypes DEF CpInv
    <3>4. cpLoad' \in CpLoads /\ cpStops' \subseteq CpStopRequests
      BY <2>0, CpTypes DEF CpInv
    <3>5. /\ cpList' = << >> \/ cpList' \in [CpSessions -> CpTurns]
          /\ cpTyped' \in 0 .. Len(CpScript) /\ cpHome' \in [CpMessages -> CpSid]
          /\ cpLeft' \in CpBudget
      BY <2>0, CpTypes DEF CpInv, CpTypeOK
    <3> QED
      BY <3>1, <3>2, <3>3, <3>4, <3>5, CpTypes
  <2>2. CpSendInv'
    BY <1>1 DEF cpVars, CpInv, CpSendInv, Holds
  <2>3. CpStopInv' /\ CpLoadInv'
    BY <1>1 DEF cpVars, CpInv, CpStopInv, CpLoadInv
  <2> QED
    BY <1>1, <2>1, <2>2, <2>3 DEF CpInv
<1> QED
  BY <1>1, CpStep

-----------------------------------------------------------------------------
(* The page: a step of one part leaves the other alone. *)

LEMMA PartSteps == [Next]_vars => [CpNext]_cpVars /\ [LvNext]_lvVars
BY DEF Next, CpPart, LvPart, vars, cpVars, lvVars

(* The invariant the theorems rest on. *)
LEMMA ChatInvariant == Spec => [](CpInv /\ LvInv)
<1>1. Init => CpInv /\ LvInv
  BY CpInitInv, LvInitInv DEF Init
<1>2. CpInv /\ LvInv /\ [Next]_vars => (CpInv /\ LvInv)'
  BY CpStepInv, LvStepInv, PartSteps
<1> QED
  BY <1>1, <1>2, PTL DEF Spec

(* Every variable of the composer, its queues, the followers and the server *)
(* keeps its type (ui.js 7560-7745, messages.js 2008-7183).                 *)
THEOREM ChatTypes == Spec => [](CpTypeOK /\ LvTypeOK)
<1>1. CpInv /\ LvInv => CpTypeOK /\ LvTypeOK
  BY LvTypesOfInv DEF CpInv
<1> QED
  BY <1>1, ChatInvariant, PTL

(* The page leaks no EventSource, however followers of the same turn and of *)
(* earlier ones reconnect, recover, are deferred or left (messages.js       *)
(* 2050-2190, 5697-5703).                                                   *)
THEOREM OneSourceOpen == Spec => []OneSource
<1>1. CpInv /\ LvInv => OneSource
  BY LvTypesOfInv
<1> QED
  BY <1>1, ChatInvariant, PTL

(* A message handed over - sent, queued, drained, steered - is dropped only *)
(* into the composer or a draft, or, when the post failed, for what the     *)
(* user has typed since (messages.js 1086-1790, ui.js 7560-7745).           *)
THEOREM NothingIsDropped == Spec => HandedOverIsKept
<1>1. CpInv /\ [Next]_vars => [CpKept]_cpVars
  BY CpStepInv, PartSteps
<1> QED
  BY <1>1, ChatInvariant, PTL DEF Spec, HandedOverIsKept, CpKept

(* The shown session lets go of its running turn only with a notice, or for *)
(* a follower of an earlier turn that is not done yet (messages.js          *)
(* 5238-5270, 6116-6176, 6978-7081): no late answer, probe or event of the  *)
(* turn's own follower does, for any turns, retries and failures.           *)
THEOREM OwnStreamKept == Spec => OwnStreamOnly
<1>1. LvInv /\ [Next]_vars => [LvOwned]_lvVars
  BY LvStepInv, PartSteps
<1> QED
  BY <1>1, ChatInvariant, PTL DEF Spec, OwnStreamOnly, LvOwned
=============================================================================
