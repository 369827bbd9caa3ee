-------------------------- MODULE ListEventsProofs --------------------------
(***************************************************************************)
(* Proofs about the way of a change of the session list to the page:       *)
(* ListEvents, for every number of changes, stream errors and window       *)
(* events, and SessionBus.                                                 *)
(***************************************************************************)
EXTENDS ListEvents, SessionBus, TLAPS

(* While the window has not moved, a page that has lost its stream, or has   *)
(* not subscribed yet, remembers to catch up, and what it shows, or is about *)
(* to paint, is current or will be.                                          *)
WakeupInv ==
  /\ evLeft.windows <= EvWindows
  /\ evLeft.windows = EvWindows =>
       /\ evWindow = [hidden |-> FALSE, blurred |-> FALSE, closing |-> FALSE]
       /\ evStream \in {"none", "connecting"} => evNeeds
       /\ \/ evShown = evVersion
             /\ (evFetch.phase = "served" => evFetch.version = evVersion)
          \/ CatchUpUnderWay

(* The flag of the probe is only up while a probe is in flight. *)
GatewayInv == (gwFlag => gwProbes > 0) /\ GatewayWatched

-----------------------------------------------------------------------------
(* What a request that was merged with the one pending asks for. *)
LEMMA MergedRequest ==
  ASSUME NEW a \in BOOLEAN, NEW b \in BOOLEAN
  PROVE  [on |-> TRUE, force |-> a \/ b] \in Request
<1>1. (a \/ b) \in BOOLEAN
  OBVIOUS
<1> QED
  BY <1>1 DEF Request

LEMMA NoRequestType == NoRequest \in Request
BY DEF NoRequest, Request

LEMMA EvInitType == EvInit => EvTypeOK
<1>1. EvChanges \in Nat /\ EvErrors \in Nat /\ EvWindows \in Nat
  BY EvAssumption DEF EvAssumption
<1> SUFFICES ASSUME EvInit PROVE EvTypeOK
  OBVIOUS
<1>2. evLeft \in [changes: Nat, errors: Nat, windows: Nat]
  BY <1>1 DEF EvInit
<1>3. evTimer \in Request /\ evAgain \in Request
  BY NoRequestType DEF EvInit
<1>4. evWindow \in [hidden: BOOLEAN, blurred: BOOLEAN, closing: BOOLEAN]
  BY DEF EvInit
<1> QED
  BY <1>2, <1>3, <1>4 DEF EvInit, EvTypeOK, NoFetch

(* Every step keeps every variable in its type: one step per group of        *)
(* variables, which says what an action may do to it.                        *)
LEMMA EvTypeStep == ASSUME EvTypeOK, [EvNext]_evVars PROVE EvTypeOK'
<1> USE DEF EvNext, evVars, sseVars, askVars, gwVars, AskedByUser, ListChanges,
    StreamFails, GatewayFails, GatewayChanged, WindowEvent, BlurTimer, ProbeAnswers,
    StreamProgress, RefreshProgress, Subscribe, StreamOpens, SessionsChanged,
    ReconnectTimer, RefreshTimer, ServeList, PaintList, RefreshDone, Hide, Show,
    Blur, Focus, Resume, CloseSessionEventsSSE, StopGatewaySSE, StartGatewaySSE
<1>1. evVersion' \in Nat /\ evShown' \in Nat
  <2>1. evVersion' \in {evVersion, evVersion + 1} /\ evShown' \in {evShown, evFetch.version}
    OBVIOUS
  <2> QED
    BY ONLY <2>1, EvTypeOK DEF EvTypeOK
<1>2. evQueue' \in Nat
  <2>1. \/ evQueue' \in {0, evQueue, evQueue + 1}
        \/ evQueue > 0 /\ evQueue' = evQueue - 1
    OBVIOUS
  <2> QED
    BY ONLY <2>1, EvTypeOK DEF EvTypeOK
<1>3. gwProbes' \in Nat
  <2>1. \/ gwProbes' \in {gwProbes, gwProbes + 1}
        \/ gwProbes > 0 /\ gwProbes' = gwProbes - 1
    OBVIOUS
  <2> QED
    BY ONLY <2>1, EvTypeOK DEF EvTypeOK
<1>4. evLeft' \in [changes: Nat, errors: Nat, windows: Nat]
  <2>1. \/ evLeft' = evLeft
        \/ evLeft.changes > 0 /\ evLeft' = [evLeft EXCEPT !.changes = @ - 1]
        \/ evLeft.errors > 0 /\ evLeft' = [evLeft EXCEPT !.errors = @ - 1]
        \/ evLeft.windows > 0 /\ evLeft' = [evLeft EXCEPT !.windows = @ - 1]
    OBVIOUS
  <2> QED
    BY ONLY <2>1, EvTypeOK DEF EvTypeOK
<1>5. evTimer' \in Request
  <2>1. evTimer' \in {evTimer, NoRequest, Coalesced(evAgain), Coalesced([force |-> TRUE])}
    OBVIOUS
  <2>2. evAgain.force \in BOOLEAN /\ evTimer.force \in BOOLEAN
    BY ONLY EvTypeOK DEF EvTypeOK, Request
  <2>3. Coalesced(evAgain) \in Request /\ Coalesced([force |-> TRUE]) \in Request
    BY ONLY <2>2, MergedRequest DEF Coalesced
  <2> QED
    BY ONLY <2>1, <2>3, NoRequestType, EvTypeOK DEF EvTypeOK
<1>6. evAgain' \in Request
  <2>1. \/ evAgain' \in {evAgain, NoRequest}
        \/ \E force \in {TRUE, FALSE, evTimer.force} :
             evAgain' = [on |-> TRUE, force |-> force \/ evAgain.force]
    BY DEF RefreshSessionList
  <2>2. evAgain.force \in BOOLEAN /\ evTimer.force \in BOOLEAN
    BY ONLY EvTypeOK DEF EvTypeOK, Request
  <2>3. \A force \in {TRUE, FALSE, evTimer.force} :
          [on |-> TRUE, force |-> force \/ evAgain.force] \in Request
    BY ONLY <2>2, MergedRequest
  <2> QED
    BY ONLY <2>1, <2>3, NoRequestType, EvTypeOK DEF EvTypeOK
<1>7. evFetch' \in [phase: {"idle", "asked", "served", "active"}, version: Nat]
  BY DEF EvTypeOK, RefreshSessionList, NoFetch
<1>8. evWindow' \in [hidden: BOOLEAN, blurred: BOOLEAN, closing: BOOLEAN]
  BY DEF EvTypeOK
<1>9. evStream' \in {"none", "connecting", "subscribed", "open"}
  BY DEF EvTypeOK, Ensured
<1>10. evNeeds' \in BOOLEAN
  BY DEF EvTypeOK
<1>11. evRetry' \in BOOLEAN
  BY DEF EvTypeOK
<1>12. gwStream' \in BOOLEAN
  BY DEF EvTypeOK
<1>13. gwPoll' \in BOOLEAN
  BY DEF EvTypeOK
<1>14. gwFlag' \in BOOLEAN
  BY DEF EvTypeOK
<1>15. gwUnknown' \in BOOLEAN
  BY DEF EvTypeOK
<1> QED
  BY ONLY <1>1, <1>2, <1>3, <1>4, <1>5, <1>6, <1>7, <1>8, <1>9, <1>10, <1>11, <1>12,
     <1>13, <1>14, <1>15 DEF EvTypeOK

(* The variables of the two streams, the timers and the requests have their  *)
(* types in every behaviour (sessions.js 5784-5803).                         *)
THEOREM EvTypeCorrect == EvSpec => []EvTypeOK
<1>1. EvInit => EvTypeOK
  BY EvInitType
<1>2. EvTypeOK /\ [EvNext]_evVars => EvTypeOK'
  BY EvTypeStep
<1> QED
  BY <1>1, <1>2, PTL DEF EvSpec

-----------------------------------------------------------------------------
LEMMA WakeupStep ==
  ASSUME EvTypeOK, WakeupInv, [EvNext]_evVars PROVE WakeupInv'
<1>a. evLeft.windows \in Nat /\ EvWindows \in Nat
  BY EvAssumption DEF EvTypeOK, EvAssumption
<1>b. evLeft'.windows \in Nat /\ evLeft'.windows <= evLeft.windows
  <2>1. \/ evLeft' = evLeft
        \/ evLeft' = [evLeft EXCEPT !.changes = @ - 1]
        \/ evLeft' = [evLeft EXCEPT !.errors = @ - 1]
        \/ evLeft' = [evLeft EXCEPT !.windows = @ - 1]
    BY DEF EvNext, evVars, AskedByUser, ListChanges, StreamFails, GatewayFails,
       GatewayChanged, WindowEvent, BlurTimer, ProbeAnswers, StreamProgress,
       RefreshProgress, Subscribe, StreamOpens, SessionsChanged, ReconnectTimer,
       RefreshTimer, ServeList, PaintList, RefreshDone
  <2> QED
    BY <1>a, <2>1, EvTypeStep DEF EvTypeOK
<1>c. AskedByUser \/ WindowEvent => evLeft'.windows < evLeft.windows
  BY <1>a DEF AskedByUser, WindowEvent, EvTypeOK
<1>f. evLeft'.windows <= EvWindows
  BY <1>a, <1>b DEF WakeupInv
<1> SUFFICES ASSUME evLeft'.windows = EvWindows PROVE WakeupInv'
  BY <1>f DEF WakeupInv
<1>d. evLeft.windows = EvWindows /\ ~AskedByUser /\ ~WindowEvent
  BY <1>a, <1>b, <1>c DEF WakeupInv
<1>e. EvWindows <= EvWindows
  BY <1>a
<1> USE <1>d, <1>e DEF WakeupInv, CatchUpUnderWay, EvTypeOK
<1>1. CASE ListChanges
  BY <1>1 DEF ListChanges, askVars, gwVars
<1>2. CASE StreamFails
  BY <1>2 DEF StreamFails, askVars, gwVars
<1>3. CASE GatewayFails \/ GatewayChanged \/ ProbeAnswers
  BY <1>3 DEF GatewayFails, GatewayChanged, ProbeAnswers, sseVars, askVars
<1>4. CASE BlurTimer
  BY <1>4 DEF BlurTimer
<1>5. CASE Subscribe
  BY <1>5 DEF Subscribe, askVars, gwVars
<1>6. CASE StreamOpens
  <2>1. evNeeds => evFetch'.phase = "asked" \/ evAgain'.on
    BY <1>6 DEF StreamOpens, RefreshSessionList
  <2> QED
    BY <1>6, <2>1 DEF StreamOpens, RefreshSessionList, gwVars
<1>7. CASE SessionsChanged
  BY <1>7 DEF SessionsChanged, Coalesced, gwVars
<1>8. CASE ReconnectTimer
  BY <1>8 DEF ReconnectTimer, Ensured, askVars, gwVars
<1>9. CASE RefreshTimer
  <2>1. evFetch'.phase = "asked" \/ evAgain'.on
    BY <1>9 DEF RefreshTimer, RefreshSessionList
  <2> QED
    BY <1>9, <2>1 DEF RefreshTimer, RefreshSessionList, sseVars, gwVars
<1>10. CASE ServeList
  BY <1>10 DEF ServeList, sseVars, gwVars
<1>11. CASE PaintList
  BY <1>11 DEF PaintList, Ensured, gwVars
<1>12. CASE RefreshDone
  BY <1>12 DEF RefreshDone, Coalesced, NoFetch, sseVars, gwVars
<1>13. CASE UNCHANGED evVars
  BY <1>13 DEF evVars, sseVars, askVars, gwVars
<1> QED
  BY ONLY [EvNext]_evVars, <1>d, <1>1, <1>2, <1>3, <1>4, <1>5, <1>6, <1>7, <1>8, <1>9,
     <1>10, <1>11, <1>12, <1>13 DEF EvNext, StreamProgress, RefreshProgress

(* A page whose window stays in front never forgets that its list is behind  *)
(* (NoLostWakeup), for any number of changes and of lost streams.            *)
THEOREM WakeupKept == EvSpec => []NoLostWakeup
<1>1. EvInit => WakeupInv
  BY EvAssumption DEF EvAssumption, EvInit, WakeupInv, NoFetch
<1>2. EvTypeOK /\ WakeupInv /\ [EvNext]_evVars => WakeupInv'
  BY WakeupStep
<1>3. WakeupInv => NoLostWakeup
  BY DEF WakeupInv, NoLostWakeup
<1> QED
  BY <1>1, <1>2, <1>3, EvTypeCorrect, PTL DEF EvSpec

-----------------------------------------------------------------------------
LEMMA GatewayStep ==
  ASSUME EvTypeOK, GatewayInv, [EvNext]_evVars PROVE GatewayInv'
<1> USE DEF GatewayInv, GatewayWatched, Backgrounded, EvTypeOK
<1>1. CASE GatewayFails
  BY <1>1 DEF GatewayFails
<1>2. CASE GatewayChanged
  BY <1>2 DEF GatewayChanged
<1>3. CASE ProbeAnswers
  BY <1>3 DEF ProbeAnswers
<1>4. CASE BlurTimer
  BY <1>4 DEF BlurTimer, StopGatewaySSE, gwVars
<1>5. CASE WindowEvent
  <2>1. CASE Hide
    BY <2>1 DEF Hide, StopGatewaySSE
  <2>2. CASE Show
    BY <2>2 DEF Show, StartGatewaySSE
  <2>3. CASE Blur
    BY <2>3 DEF Blur, gwVars
  <2>4. CASE Focus
    BY <2>4 DEF Focus, StartGatewaySSE, gwVars
  <2> QED
    BY <1>5, <2>1, <2>2, <2>3, <2>4 DEF WindowEvent
<1>6. CASE UNCHANGED <<evWindow, gwVars>>
  BY <1>6 DEF gwVars
<1>7. [EvNext]_evVars => \/ GatewayFails \/ GatewayChanged \/ ProbeAnswers \/ BlurTimer
                         \/ WindowEvent \/ UNCHANGED <<evWindow, gwVars>>
  BY ONLY DEF EvNext, evVars, StreamProgress, RefreshProgress, AskedByUser, ListChanges,
     StreamFails, Subscribe, StreamOpens, SessionsChanged, ReconnectTimer, RefreshTimer,
     ServeList, PaintList, RefreshDone
<1> QED
  BY ONLY [EvNext]_evVars, <1>1, <1>2, <1>3, <1>4, <1>5, <1>6, <1>7

(* A window in front hears of the gateway's sessions in one of the three     *)
(* ways (GatewayWatched), however probes, errors and focus changes overlap.  *)
THEOREM GatewayIsWatched == EvSpec => []GatewayWatched
<1>1. EvInit => GatewayInv
  BY DEF EvInit, GatewayInv, GatewayWatched, Backgrounded
<1>2. EvTypeOK /\ GatewayInv /\ [EvNext]_evVars => GatewayInv'
  BY GatewayStep
<1>3. GatewayInv => GatewayWatched
  BY DEF GatewayInv
<1> QED
  BY <1>1, <1>2, <1>3, EvTypeCorrect, PTL DEF EvSpec

-----------------------------------------------------------------------------
(* The bus, for any number of publishers, connections and changes.           *)

Steps == {"done", "send", "drop", "again"}

LEMMA BusInitType == BusInit => BusTypeOK
BY DEF BusInit, BusTypeOK

LEMMA BusTypeStep ==
  ASSUME BusTypeOK, [BusNext]_busVars PROVE BusTypeOK'
<1> USE DEF BusTypeOK
<1>1. ASSUME NEW p \in BusPublishers, BusPublish(p) PROVE BusTypeOK'
  <2>1. busVer' \in Nat /\ busItem' \in [BusPublishers -> Nat]
    BY <1>1 DEF BusPublish
  <2>2. busStep' \in [BusPublishers -> [BusViewers -> Steps]]
    BY <1>1 DEF BusPublish, Steps
  <2>3. busOwed' \in [BusViewers -> BOOLEAN]
    BY <1>1 DEF BusPublish
  <2> QED
    BY <1>1, <2>1, <2>2, <2>3 DEF BusPublish, Steps
<1>2. ASSUME NEW p \in BusPublishers, NEW v \in BusViewers, Deliver(p, v) PROVE BusTypeOK'
  <2>1. busStep' \in [BusPublishers -> [BusViewers -> Steps]]
    <3>1. PICK step \in Steps : Go(p, v, step)
      BY <1>2 DEF Deliver, Send, DropOldest, SendAgain, TryPut, Steps
    <3> QED
      BY <3>1 DEF Go, Steps
  <2>2. busChan' \in [BusViewers -> Nat]
    BY <1>2 DEF Deliver, Send, DropOldest, SendAgain, TryPut
  <2> QED
    BY <1>2, <2>1, <2>2 DEF Deliver, Send, DropOldest, SendAgain, Steps
<1>3. ASSUME NEW v \in BusViewers, BusSubscribe(v) \/ TakeItem(v) \/ BusLeave(v)
      PROVE  BusTypeOK'
  <2>1. busSub' \in [BusViewers -> {"new", "on", "gone"}]
    BY <1>3 DEF BusSubscribe, TakeItem, BusLeave
  <2>2. busChan' \in [BusViewers -> Nat]
    BY <1>3 DEF BusSubscribe, TakeItem, BusLeave
  <2>3. busOwed' \in [BusViewers -> BOOLEAN]
    BY <1>3 DEF BusSubscribe, TakeItem, BusLeave
  <2> QED
    BY <1>3, <2>1, <2>2, <2>3 DEF BusSubscribe, TakeItem, BusLeave
<1>4. CASE UNCHANGED busVars
  BY <1>4 DEF busVars
<1> QED
  BY <1>1, <1>2, <1>3, <1>4 DEF BusNext

-----------------------------------------------------------------------------
(* An item that is being sent has a number, so a channel that took it is   *)
(* not empty; and nothing is owed to a connection that is still to come.   *)

ItemInv == \A p \in BusPublishers, v \in BusViewers :
             busStep[p][v] # "done" => busItem[p] > 0

NewInv == \A v \in BusViewers : busOwed[v] => busSub[v] # "new"

BusIInv == BusTypeOK /\ ItemInv /\ NewInv /\ NoChangeLost

LEMMA ItemStep ==
  ASSUME BusTypeOK, ItemInv, [BusNext]_busVars PROVE ItemInv'
<1> USE DEF BusTypeOK, ItemInv
<1>1. ASSUME NEW p \in BusPublishers, BusPublish(p) PROVE ItemInv'
  <2>1. busItem'[p] > 0
    BY <1>1 DEF BusPublish
  <2>2. \A q \in BusPublishers \ {p} : busItem'[q] = busItem[q] /\ busStep'[q] = busStep[q]
    BY <1>1 DEF BusPublish
  <2> QED
    BY <2>1, <2>2
<1>2. ASSUME NEW p \in BusPublishers, NEW v \in BusViewers, Deliver(p, v) PROVE ItemInv'
  <2>1. busStep[p][v] # "done" /\ busItem' = busItem
    BY <1>2 DEF Deliver, Send, DropOldest, SendAgain, At
  <2>2. \A q \in BusPublishers, u \in BusViewers :
          q # p \/ u # v => busStep'[q][u] = busStep[q][u]
    BY <1>2 DEF Deliver, Send, DropOldest, SendAgain, TryPut, Go
  <2> QED
    BY <2>1, <2>2
<1>3. CASE UNCHANGED <<busItem, busStep>>
  BY <1>3
<1> QED
  BY <1>1, <1>2, <1>3 DEF BusNext, busVars, BusSubscribe, TakeItem, BusLeave

LEMMA NewStep ==
  ASSUME BusTypeOK, NewInv, [BusNext]_busVars PROVE NewInv'
<1> USE DEF BusTypeOK, NewInv
<1>1. ASSUME NEW p \in BusPublishers, BusPublish(p) PROVE NewInv'
  BY <1>1 DEF BusPublish
<1>2. ASSUME NEW v \in BusViewers, BusSubscribe(v) \/ TakeItem(v) \/ BusLeave(v)
      PROVE  NewInv'
  BY <1>2 DEF BusSubscribe, TakeItem, BusLeave
<1>3. CASE UNCHANGED <<busOwed, busSub>>
  BY <1>3
<1> QED
  BY <1>1, <1>2, <1>3 DEF BusNext, busVars, Deliver, Send, DropOldest, SendAgain

LEMMA ChangeStep ==
  ASSUME BusTypeOK, ItemInv, NewInv, NoChangeLost, [BusNext]_busVars PROVE NoChangeLost'
<1> USE DEF BusTypeOK
<1>1. ASSUME NEW p \in BusPublishers, BusPublish(p) PROVE NoChangeLost'
  <2> SUFFICES ASSUME NEW v \in BusViewers, busSub[v] = "on"
               PROVE  busStep'[p][v] # "done"
    BY <1>1 DEF NoChangeLost, BusPublish
  <2> QED
    BY <1>1 DEF BusPublish
<1>2. ASSUME NEW p \in BusPublishers, NEW v \in BusViewers, Deliver(p, v)
      PROVE  NoChangeLost'
  <2>1. busStep'[p][v] # "done" \/ busChan'[v] # 0
    <3>1. CASE Send(p, v)
      BY <3>1 DEF Send, TryPut, Go, At, ItemInv
    <3>2. CASE DropOldest(p, v)
      BY <3>2 DEF DropOldest, Go
    <3>3. CASE SendAgain(p, v)
      BY <3>3 DEF SendAgain, TryPut, Go, At, ItemInv
    <3> QED
      BY <1>2, <3>1, <3>2, <3>3 DEF Deliver
  <2>2. \A u \in BusViewers \ {v} :
          busChan'[u] = busChan[u] /\ \A q \in BusPublishers : busStep'[q][u] = busStep[q][u]
    BY <1>2 DEF Deliver, Send, DropOldest, SendAgain, TryPut, Go
  <2>3. busSub' = busSub /\ busOwed' = busOwed
    BY <1>2 DEF Deliver, Send, DropOldest, SendAgain
  <2>4. \A u \in BusViewers \ {v} : busSub[u] = "on" /\ busOwed[u] =>
          busChan'[u] # 0 \/ \E q \in BusPublishers : busStep'[q][u] # "done"
    BY <2>2 DEF NoChangeLost
  <2> QED
    BY ONLY <2>1, <2>3, <2>4, p \in BusPublishers DEF NoChangeLost
<1>3. ASSUME NEW v \in BusViewers, BusSubscribe(v) PROVE NoChangeLost'
  BY <1>3 DEF NoChangeLost, NewInv, BusSubscribe
<1>4. ASSUME NEW v \in BusViewers, TakeItem(v) \/ BusLeave(v) PROVE NoChangeLost'
  BY <1>4 DEF NoChangeLost, TakeItem, BusLeave
<1>5. CASE UNCHANGED busVars
  BY <1>5 DEF NoChangeLost, busVars
<1> QED
  BY <1>1, <1>2, <1>3, <1>4, <1>5 DEF BusNext

LEMMA BusInvariant == BusSpec => []BusIInv
<1>1. BusInit => BusIInv
  <2>1. BusInit => ItemInv /\ NewInv /\ NoChangeLost
    BY DEF BusInit, ItemInv, NewInv, NoChangeLost
  <2> QED
    BY <2>1, BusInitType DEF BusIInv
<1>2. BusIInv /\ [BusNext]_busVars => BusIInv'
  BY BusTypeStep, ItemStep, NewStep, ChangeStep DEF BusIInv
<1> QED
  BY <1>1, <1>2, PTL DEF BusSpec

-----------------------------------------------------------------------------
\* Channels hold versions, and publishers stand at one of their selects.
THEOREM BusTypeCorrect == BusSpec => []BusTypeOK
<1>1. BusIInv => BusTypeOK
  BY DEF BusIInv
<1> QED
  BY <1>1, BusInvariant, PTL

\* However many publishers send at once, a page that stays connected finds an
\* item for every change, or one is still on its way (session_events_sse.go
\* 69-85).
THEOREM ChangesReachPages == BusSpec => []NoChangeLost
<1>1. BusIInv => NoChangeLost
  BY DEF BusIInv
<1> QED
  BY <1>1, BusInvariant, PTL
=============================================================================
