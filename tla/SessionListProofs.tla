-------------------------- MODULE SessionListProofs --------------------------
(***************************************************************************)
(* Proofs about SessionList, for all profiles, conversations and numbers   *)
(* of refreshes, switches and deletes.                                     *)
(***************************************************************************)
EXTENDS SessionList, SequenceTheorems, TLAPS

FlightType == [phase: {"idle", "asked", "answered", "failed"}, gen: Nat,
               defer: Defer, of: ListProfiles, rows: SUBSET ListSessions]
HeldType   == [on: BOOLEAN, gen: Nat, of: ListProfiles, rows: SUBSET ListSessions]
QueueType  == [on: BOOLEAN, gen: Nat, defer: Defer]

SwitchPhase == {"posting", "updating", "creating", "listing", "over", "broken"}
SwitchType == [kind: {"chat", "load"}, to: ListProfiles,
               phase: SwitchPhase,
               alone: BOOLEAN]
ScreenType == [by: {"skeleton", "server", "cache", "error"}, rows: SUBSET ListSessions]
DeletionType == [phase: {"idle", "holding", "waiting", "refreshing"},
                 sid: SUBSET ListSessions, before: SUBSET ListSessions,
                 reply: {"none", "ok", "error"}]

-----------------------------------------------------------------------------
LEMMA MergedType ==
  ASSUME NEW a \in Defer, NEW b \in Defer PROVE Merged(a, b) \in Defer
BY DEF Merged, Defer

LEMMA RequestTypes ==
  /\ Idle \in FlightType /\ NoQueue \in QueueType /\ NoHeld \in HeldType
  /\ \A gen \in Nat, defer \in Defer, jar \in ListProfiles :
       /\ Asked(gen, defer, jar) \in FlightType
       /\ [on |-> TRUE, gen |-> gen, defer |-> defer] \in QueueType
       /\ \A h \in HeldType : HeldAfterStart(h, defer) \in HeldType
BY ListAssumption
DEF ListAssumption, Idle, NoQueue, NoHeld, FlightType, QueueType, HeldType,
    Defer, Asked,
    HeldAfterStart

LEMMA ListInitType == ListInit => ListTypeOK
<1>1. ListFirst \in ListProfiles /\ ListBudget \in Nat /\ ListDeletes \in Nat
  BY ListAssumption DEF ListAssumption
<1> SUFFICES ASSUME ListInit PROVE ListTypeOK
  OBVIOUS
<1>2. allSessions \in SUBSET ListSessions
  BY DEF ListInit, RowsOf
<1>3. flight \in FlightType /\ queued \in QueueType /\ held \in HeldType
  BY RequestTypes DEF ListInit
<1>4. /\ screen \in [by: {"skeleton", "server", "cache", "error"}, rows: SUBSET ListSessions]
      /\ left \in [events: Nat, deletes: Nat]
      /\ deletion \in [phase: {"idle", "holding", "waiting", "refreshing"}, sid: SUBSET ListSessions,
                        before: SUBSET ListSessions, reply: {"none", "ok", "error"}]
  BY <1>1, <1>2 DEF ListInit, NoDelete
<1>5. switches \in Seq(SwitchType)
  BY DEF ListInit
<1> QED
  BY ONLY ListInit, <1>1, <1>2, <1>3, <1>4, <1>5
  DEF ListInit, ListTypeOK, FlightType, QueueType, HeldType, SwitchType, SwitchPhase, RowsOf

LEMMA SwitchAt == ListTypeOK => \A k \in DOMAIN switches : switches[k] \in SwitchType
<1> SUFFICES ASSUME ListTypeOK
    PROVE \A k \in DOMAIN switches : switches[k] \in SwitchType
  OBVIOUS
<1>1. switches \in Seq(SwitchType)
  BY DEF ListTypeOK, SwitchType, SwitchPhase
<1> QED
  BY <1>1

LEMMA BecomeType ==
  ASSUME ListTypeOK, NEW k \in DOMAIN switches,
         NEW p \in SwitchPhase, Become(k, p)
  PROVE  switches' \in Seq(SwitchType)
<1>1. switches \in Seq(SwitchType) /\ k \in 1..Len(switches)
  BY DEF ListTypeOK, SwitchType, SwitchPhase
<1>2. switches[k] \in SwitchType
  BY SwitchAt
<1>3. [switches[k] EXCEPT !.phase = p] \in SwitchType
  BY ONLY <1>2, p \in SwitchPhase DEF SwitchType
<1> QED
  BY <1>1, <1>3, ExceptSeq DEF Become


LEMMA ListTypeStep == ASSUME ListTypeOK, [ListNext]_listVars PROVE ListTypeOK'
<1> USE DEF ListNext, listVars, requestVars, rowVars, switchVars, deleteVars,
    ListProgress, Refresh, StartSwitch, StartDelete, Serve, TakeAnswer,
    TakeFailure, ApplyHeld, SwitchStep, SwitchAccepted, UpdateDone, CreateDone,
    SwitchFailed, SwitchFinally, ServeDelete, RemoveRow, DeleteConfirmed,
    DeleteRolledBack, ApplySessionListPayload, DrainNext, SwitchOwnedRender,
    InvalidateSessionListRenders
<1>1. embargo' \in BOOLEAN
  BY DEF ListTypeOK
<1>2. skeleton' \in BOOLEAN
  BY DEF ListTypeOK
<1>3. rowScope' \in ListProfiles
  BY DEF ListTypeOK
<1>4. pageProfile' \in ListProfiles
  <2>1. pageProfile' = pageProfile \/ \E k \in DOMAIN switches : pageProfile' = switches[k].to
    OBVIOUS
  <2> QED
    BY ONLY <2>1, SwitchAt, ListTypeOK DEF ListTypeOK, SwitchType, SwitchPhase
<1>5. cookie' \in ListProfiles
  <2>1. cookie' = cookie \/ \E k \in DOMAIN switches : cookie' = switches[k].to
    OBVIOUS
  <2> QED
    BY ONLY <2>1, SwitchAt, ListTypeOK DEF ListTypeOK, SwitchType, SwitchPhase
<1>6. stored' \in SUBSET ListSessions
  <2>1. stored' \in {stored, stored \ deletion.sid}
    OBVIOUS
  <2> QED
    BY ONLY <2>1, ListTypeOK DEF ListTypeOK
<1>7. removed' \in SUBSET ListSessions
  <2>1. removed' \in {removed, removed \ deletion.sid, removed \cup deletion.sid}
    OBVIOUS
  <2> QED
    BY ONLY <2>1, ListTypeOK DEF ListTypeOK
<1>8. told' \in SUBSET ListSessions
  BY DEF ListTypeOK
<1>9. allSessions' \in SUBSET ListSessions
  BY DEF ListTypeOK
<1>10. screen' \in ScreenType
  <2>1. \/ screen' = screen
        \/ screen' = [by |-> "skeleton", rows |-> {}]
        \/ \E by \in {"server", "cache", "error"} :
             screen' \in {[by |-> by, rows |-> allSessions'], [by |-> by, rows |-> allSessions]}
    BY DEF RenderFromCache
  <2> QED
    BY ONLY <2>1, <1>9, ListTypeOK DEF ListTypeOK, ScreenType
<1>11. deletion' \in DeletionType
  <2>1. \/ deletion' \in {deletion, NoDelete}
        \/ \E s \in ListSessions :
             deletion' = [phase |-> "holding", sid |-> {s}, before |-> allSessions,
                          reply |-> "none"]
        \/ \E reply \in {"ok", "error"} : deletion' = [deletion EXCEPT !.reply = reply]
        \/ \E phase \in {"waiting", "refreshing"} : deletion' = [deletion EXCEPT !.phase = phase]
    OBVIOUS
  <2> QED
    BY ONLY <2>1, ListTypeOK DEF ListTypeOK, DeletionType, NoDelete
<1>12. \/ left' = left
       \/ left.events > 0 /\ left' = [left EXCEPT !.events = @ - 1]
       \/ /\ left.events > 0 /\ left.deletes > 0
          /\ left' = [events |-> left.events - 1, deletes |-> left.deletes - 1]
  OBVIOUS
<1>13. listGen' \in Nat
  <2>1. listGen' \in {listGen, listGen + 1}
    BY DEF RenderSessionList
  <2> QED
    BY ONLY <2>1, ListTypeOK DEF ListTypeOK
<1>15. \/ flight' \in {flight, Idle, Asked(queued.gen, queued.defer, cookie),
                      [flight EXCEPT !.phase = "failed"],
                      [flight EXCEPT !.phase = "answered", !.rows = RowsOf(flight.of)]}
       \/ \E d \in Defer : flight' = Asked(listGen', d, cookie)
       \/ \E d \in Defer, k \in DOMAIN switches :
            flight' = Asked(listGen', d, switches[k].to)
  <2>1. \/ flight' \in {flight, Idle, Asked(queued.gen, queued.defer, cookie),
                      [flight EXCEPT !.phase = "failed"],
                      [flight EXCEPT !.phase = "answered", !.rows = RowsOf(flight.of)]}
       \/ \E d \in Defer : RenderSessionList(d, cookie)
       \/ \E k \in DOMAIN switches : RenderSessionList("unset", switches[k].to)
    BY DEF Defer
  <2>2. ASSUME NEW d \in Defer, NEW jar, RenderSessionList(d, jar)
        PROVE  flight' \in {flight, Asked(listGen', d, jar)}
    BY ONLY <2>2 DEF RenderSessionList
  <2>3. "unset" \in Defer
    BY ONLY DEF Defer
  <2>4. CASE \E d \in Defer : RenderSessionList(d, cookie)
    BY ONLY <2>2, <2>4
  <2>5. CASE \E k \in DOMAIN switches : RenderSessionList("unset", switches[k].to)
    BY ONLY <2>2, <2>3, <2>5
  <2> QED
    BY ONLY <2>1, <2>4, <2>5
<1>17. flight' \in FlightType
  <2>1. \A k \in DOMAIN switches : switches[k].to \in ListProfiles
    BY SwitchAt DEF SwitchType
  <2>2. queued.gen \in Nat /\ queued.defer \in Defer /\ cookie \in ListProfiles /\ flight \in FlightType
    BY DEF ListTypeOK, FlightType
  <2>3. RowsOf(flight.of) \in SUBSET ListSessions
    BY DEF RowsOf, ListTypeOK
  <2>4. [flight EXCEPT !.phase = "failed"] \in FlightType
    BY ONLY <2>2 DEF FlightType
  <2>5. [flight EXCEPT !.phase = "answered", !.rows = RowsOf(flight.of)] \in FlightType
    BY ONLY <2>2, <2>3 DEF FlightType
  <2> QED
    BY ONLY <1>13, <1>15, <2>1, <2>2, <2>4, <2>5, RequestTypes
<1>16. \/ queued' \in {queued, NoQueue}
       \/ \E d \in Defer :
            queued' = [on |-> TRUE, gen |-> listGen', defer |-> Merged(queued.defer, d)]
    BY DEF RenderSessionList, Defer
<1>18. queued' \in QueueType
  <2>1. \A d \in Defer : Merged(queued.defer, d) \in Defer
    BY MergedType DEF ListTypeOK
  <2> QED
    BY ONLY <1>13, <1>16, <2>1, RequestTypes, ListTypeOK, ListAssumption
    DEF ListTypeOK, ListAssumption, QueueType
<1>19. held' \in HeldType
  <2>1. \/ held' \in {held, NoHeld}
        \/ held' = [on |-> TRUE, gen |-> flight.gen, of |-> flight.of, rows |-> flight.rows]
    BY DEF HeldAfterStart, RenderSessionList
  <2>2. [on |-> TRUE, gen |-> flight.gen, of |-> flight.of, rows |-> flight.rows] \in HeldType
    BY ONLY ListTypeOK DEF ListTypeOK, HeldType
  <2>3. held \in HeldType
    BY ONLY ListTypeOK DEF ListTypeOK, HeldType
  <2> QED
    BY ONLY <2>1, <2>2, <2>3, RequestTypes
<1>20. left' \in [events: Nat, deletes: Nat]
  BY ONLY <1>12, ListTypeOK DEF ListTypeOK
<1>21. switches' \in Seq(SwitchType)
  <2>1. \/ switches' = switches
        \/ \E k \in DOMAIN switches, p \in SwitchPhase : Become(k, p)
        \/ \E kind \in ListKinds, p \in ListProfiles : StartSwitch(kind, p)
    BY DEF SwitchPhase
  <2>2. ASSUME NEW kind \in ListKinds, NEW p \in ListProfiles,
               StartSwitch(kind, p)
        PROVE switches' \in Seq(SwitchType)
    <3> DEFINE calm == \A k \in DOMAIN switches : Ended(k)
               older == [k \in DOMAIN switches |-> [switches[k] EXCEPT !.alone = @ /\ Ended(k)]]
               newer == [kind |-> kind, to |-> p, phase |-> "posting", alone |-> calm]
    <3>1. switches' = Append(older, newer)
      BY ONLY <2>2 DEF StartSwitch
    <3>2. newer \in SwitchType
      <4>1. calm \in BOOLEAN
        OBVIOUS
      <4>2. kind \in {"chat", "load"}
        BY ListAssumption DEF ListAssumption
      <4> HIDE DEF calm
      <4> QED
        BY ONLY <4>1, <4>2, p \in ListProfiles DEF SwitchType, SwitchPhase
    <3>3. \A k \in DOMAIN switches : [switches[k] EXCEPT !.alone = @ /\ Ended(k)] \in SwitchType
      <4> TAKE k \in DOMAIN switches
      <4>1. switches[k] \in SwitchType
        BY ONLY SwitchAt, ListTypeOK, k \in DOMAIN switches
      <4>2. (switches[k].alone /\ Ended(k)) \in BOOLEAN
        OBVIOUS
      <4> QED
        BY ONLY <4>1, <4>2 DEF SwitchType
    <3>4. switches \in Seq(SwitchType)
      BY ONLY ListTypeOK DEF ListTypeOK, SwitchType, SwitchPhase
    <3>5. older \in Seq(SwitchType)
      <4>1. DOMAIN switches = 1..Len(switches) /\ Len(switches) \in Nat
        BY ONLY <3>4
      <4> QED
        BY ONLY <3>3, <4>1, IsASeq
    <3> QED
      BY ONLY <3>1, <3>2, <3>5
  <2>3. switches \in Seq(SwitchType)
    BY ONLY ListTypeOK DEF ListTypeOK, SwitchType, SwitchPhase
  <2> QED
    BY ONLY <2>1, <2>2, <2>3, BecomeType, ListTypeOK
<1> QED
  BY ONLY <1>1, <1>2, <1>3, <1>4, <1>5, <1>6, <1>7, <1>8, <1>9, <1>10, <1>11,
          <1>13, <1>17, <1>18, <1>19, <1>20, <1>21
  DEF ListTypeOK, FlightType, HeldType, QueueType, SwitchType, SwitchPhase, ScreenType,
      DeletionType

-----------------------------------------------------------------------------
(* The inductive invariant *)

\* One refresh is queued at a time, always the newest; a request or a held
\* payload is never newer than the counter.
QueueInv ==
  /\ queued.on => flight.phase # "idle" /\ queued.gen = listGen
  /\ flight.gen <= listGen /\ held.gen <= listGen

Acting    == \E k \in DOMAIN switches : Running(k) /\ MayAct(k)
Answering == flight.phase # "idle" /\ flight.gen = listGen
HeldLive  == held.on /\ held.gen = listGen

\* Only switchToProfile updates or replaces the conversation.
KindInv ==
  \A k \in DOMAIN switches :
    switches[k].phase \in {"updating", "creating"} => switches[k].kind = "chat"

\* A switch that has been overtaken owes nothing: what is up belongs to a
\* switch that still may act.
EmbargoInv  == embargo => Acting
SkeletonInv == skeleton => Acting \/ Answering \/ queued.on \/ HeldLive

\* A deleted session is in none of the places a list is painted from, except
\* in answers that the counter has overtaken.
DeleteInv ==
  /\ told \cap stored = {} /\ told \cap allSessions = {}
  /\ screen.rows \subseteq allSessions
  /\ skeleton => screen.rows = {}
  /\ flight.phase = "answered" /\ flight.gen = listGen => told \cap flight.rows = {}
  /\ HeldLive => told \cap held.rows = {}
  /\ deletion.phase = "waiting" =>
       deletion.sid \subseteq removed /\ deletion.sid \cap allSessions = {}
  /\ deletion.phase \in {"holding", "waiting"} => told \cap deletion.before = {}
  /\ deletion.reply = "ok" => deletion.sid \cap stored = {}

ListIInv == /\ ListTypeOK /\ QueueInv /\ KindInv
            /\ EmbargoInv /\ SkeletonInv /\ DeleteInv

-----------------------------------------------------------------------------
(* Every step keeps it *)

LEMMA RequestStep ==
  ASSUME [ListNext]_listVars
  PROVE  \/ UNCHANGED requestVars
         \/ \E d \in Defer : \E jar : RenderSessionList(d, jar)
         \/ InvalidateSessionListRenders
         \/ Serve
         \/ /\ flight.phase # "idle" /\ UNCHANGED listGen
            /\ \E h \in {held, [on |-> TRUE, gen |-> flight.gen, of |-> flight.of,
                                rows |-> flight.rows]} : DrainNext(h)
         \/ ApplyHeld
BY
DEF ListNext, listVars, requestVars, ListProgress, Refresh, StartSwitch,
    StartDelete, TakeAnswer,
   TakeFailure, SwitchStep, SwitchAccepted, UpdateDone, CreateDone, SwitchFailed, SwitchFinally,
   ServeDelete, RemoveRow, DeleteConfirmed, DeleteRolledBack, SwitchOwnedRender, Defer

LEMMA QueueStep ==
  ASSUME ListTypeOK, QueueInv, [ListNext]_listVars PROVE QueueInv'
<1>1. listGen \in Nat /\ flight.gen \in Nat /\ queued.gen \in Nat /\ held.gen \in Nat
      /\ flight \in FlightType /\ queued \in QueueType /\ held \in HeldType
  BY DEF ListTypeOK, FlightType, QueueType, HeldType
<1>2. CASE UNCHANGED requestVars
  BY <1>2 DEF QueueInv, requestVars
<1>3. ASSUME NEW d \in Defer, NEW jar, RenderSessionList(d, jar) PROVE QueueInv'
  BY <1>1, <1>3 DEF QueueInv, RenderSessionList, HeldAfterStart, NoHeld, Asked
<1>4. CASE InvalidateSessionListRenders
  BY <1>1, <1>4 DEF QueueInv, InvalidateSessionListRenders, NoHeld, NoQueue
<1>5. CASE Serve
  BY <1>1, <1>5 DEF QueueInv, Serve, FlightType
<1>6. ASSUME NEW h, h.gen <= listGen, flight.phase # "idle", UNCHANGED listGen,
             DrainNext(h)
      PROVE QueueInv'
  BY <1>1, <1>6
  DEF QueueInv, DrainNext, HeldAfterStart, NoHeld, Asked, Idle, NoQueue
<1>7. CASE ApplyHeld
  BY <1>1, <1>7 DEF QueueInv, ApplyHeld, NoHeld
<1> QED
  BY <1>2, <1>3, <1>4, <1>5, <1>6, <1>7, RequestStep DEF QueueInv

LEMMA BecomeKeeps ==
  ASSUME ListTypeOK, NEW k \in DOMAIN switches, NEW p, Become(k, p)
  PROVE  /\ DOMAIN switches' = DOMAIN switches /\ Len(switches') = Len(switches)
         /\ \A j \in DOMAIN switches : /\ switches'[j].kind = switches[j].kind
                                       /\ MayAct(j)' = MayAct(j)
                                       /\ j # k => switches'[j].phase = switches[j].phase
         /\ switches'[k].phase = p
<1>1. switches \in Seq(SwitchType) /\ DOMAIN switches = 1..Len(switches)
  BY DEF ListTypeOK, SwitchType, SwitchPhase
<1>2. DOMAIN switches' = DOMAIN switches /\ Len(switches') = Len(switches)
  BY <1>1 DEF Become
<1>3. \A j \in DOMAIN switches : j # k => switches'[j] = switches[j]
  BY DEF Become
<1>4. switches'[k] = [switches[k] EXCEPT !.phase = p]
  BY DEF Become
<1>5. switches'[k].kind = switches[k].kind /\ switches'[k].phase = p
  BY <1>4, SwitchAt DEF SwitchType
<1>6. \A j \in DOMAIN switches : switches'[j].kind = switches[j].kind
  BY <1>3, <1>5
<1>7. \A j \in DOMAIN switches : Current(j)' = Current(j)
  BY <1>1, <1>2, <1>6 DEF Current
<1> QED
  BY <1>2, <1>3, <1>5, <1>6, <1>7 DEF MayAct

\* A step of one switch that leaves another one acting.
LEMMA OthersAct ==
  ASSUME ListTypeOK, NEW k \in DOMAIN switches, NEW p, Become(k, p), Acting,
         \/ ~MayAct(k) \/ ~Running(k)
         \/ MayAct(k) /\ p \in {"posting", "updating", "creating"}
  PROVE  Acting'
<1>1. PICK j \in DOMAIN switches : Running(j) /\ MayAct(j)
  BY DEF Acting
<1>2. MayAct(j)' /\ j \in DOMAIN switches'
  BY <1>1, BecomeKeeps
<1>3. Running(j)'
  <2>1. CASE j = k
    BY <1>1, <2>1, BecomeKeeps DEF Running
  <2>2. CASE j # k
    BY <1>1, <2>2, BecomeKeeps DEF Running
  <2> QED
    BY <2>1, <2>2
<1> QED
  BY <1>2, <1>3 DEF Acting

LEMMA NewActs ==
  ASSUME ListTypeOK, NEW kind \in ListKinds, NEW to \in ListProfiles, StartSwitch(kind, to)
  PROVE  /\ Acting'
         /\ DOMAIN switches' = 1 .. Len(switches) + 1
         /\ \A j \in DOMAIN switches : /\ switches'[j].phase = switches[j].phase
                                       /\ switches'[j].kind = switches[j].kind
         /\ switches'[Len(switches) + 1].phase = "posting"
<1> DEFINE older == [k \in DOMAIN switches |-> [switches[k] EXCEPT !.alone = @ /\ Ended(k)]]
           calm == \A k \in DOMAIN switches : Ended(k)
           newer == [kind |-> kind, to |-> to, phase |-> "posting", alone |-> calm]
<1>0. PICK n : n = Len(switches) + 1
  OBVIOUS
<1>1. switches' = Append(older, newer)
  BY DEF StartSwitch
<1>2. Len(switches) \in Nat /\ DOMAIN switches = 1..Len(switches)
  BY DEF ListTypeOK
<1>3. Len(older) = Len(switches) /\ older \in Seq(SwitchType \cup {older[k] : k \in DOMAIN switches})
  <2>1. older \in [1 .. Len(switches) -> {older[k] : k \in DOMAIN switches}]
    BY <1>2
  <2> QED
    BY <1>2, <2>1
<1>4. /\ Len(switches') = n /\ DOMAIN switches' = 1 .. n
      /\ switches'[n] = newer
      /\ \A j \in DOMAIN switches : switches'[j] = older[j]
  <2> HIDE DEF older, newer
  <2> QED
    BY <1>0, <1>1, <1>2, <1>3
<1>5. \A j \in DOMAIN switches : /\ older[j].phase = switches[j].phase
                                    /\ older[j].kind = switches[j].kind
  BY SwitchAt DEF SwitchType
<1>6. switches'[n].phase = "posting"
  <2> HIDE DEF calm
  <2> QED
    BY ONLY <1>4
<1> HIDE DEF older, newer
<1>7. n \in DOMAIN switches' /\ n + 1 .. Len(switches') = {}
  BY ONLY <1>0, <1>4, <1>2
<1>8. Running(n)' /\ Current(n)'
  BY ONLY <1>6, <1>7 DEF Running, Current
<1>9. Acting'
  BY ONLY <1>7, <1>8 DEF Acting, MayAct
<1> QED
  BY ONLY <1>0, <1>4, <1>5, <1>6, <1>9

LEMMA KindStep ==
  ASSUME ListTypeOK, KindInv, [ListNext]_listVars PROVE KindInv'
<1>1. \/ switches' = switches
      \/ \E k \in DOMAIN switches :
           \/ \E p \in {"posting", "listing", "over", "broken"} : Become(k, p)
           \/ switches[k].kind = "chat" /\ \E p \in {"updating", "creating"} : Become(k, p)
      \/ \E kind \in ListKinds, p \in ListProfiles : StartSwitch(kind, p)
  BY
  DEF ListNext, listVars, requestVars, switchVars, ListProgress, Refresh,
      StartDelete, Serve, TakeAnswer, ApplyHeld,
   TakeFailure, SwitchStep, SwitchAccepted, UpdateDone, CreateDone, SwitchFailed, SwitchFinally,
   ServeDelete, RemoveRow, DeleteConfirmed, DeleteRolledBack
<1>2. CASE switches' = switches
  BY <1>2 DEF KindInv
<1>3. ASSUME NEW k \in DOMAIN switches, NEW p, Become(k, p),
             p \in {"updating", "creating"} => switches[k].kind = "chat"
      PROVE  KindInv'
  BY <1>3, BecomeKeeps DEF KindInv
<1>4. ASSUME NEW kind \in ListKinds, NEW p \in ListProfiles,
             StartSwitch(kind, p)
      PROVE KindInv'
  <2>1. Len(switches) \in Nat /\ DOMAIN switches = 1..Len(switches)
    BY DEF ListTypeOK
  <2> QED
    BY <1>4, <2>1, NewActs DEF KindInv
<1> QED
  BY <1>1, <1>2, <1>3, <1>4

LEMMA RenderOwes ==
  ASSUME ListTypeOK, NEW d, NEW jar, RenderSessionList(d, jar)
  PROVE  Answering' \/ queued'.on
BY DEF RenderSessionList, Answering, Asked, ListTypeOK

LEMMA SwitchStepOwned ==
  ASSUME ListTypeOK, KindInv, NEW k \in DOMAIN switches, SwitchStep(k)
  PROVE  \/ embargo' = FALSE /\ skeleton' = FALSE
         \/ embargo' = FALSE /\ (Answering' \/ queued'.on)
         \/ /\ embargo' \in {embargo, FALSE} /\ UNCHANGED <<requestVars, rowVars>>
            /\ Acting => Acting'
<1>1. CASE SwitchAccepted(k)
  <2>1. CASE ~MayAct(k)
    <3>1. Become(k, "over") /\ embargo' = embargo /\ UNCHANGED <<requestVars, rowVars>>
      BY ONLY <1>1, <2>1 DEF SwitchAccepted
    <3> QED
      BY <2>1, <3>1, OthersAct
  <2>2. CASE MayAct(k) /\ SwitchOwnedRender(switches[k].to)
    BY <2>2, RenderOwes DEF SwitchOwnedRender
  <2>3. ASSUME MayAct(k), embargo' = embargo,
               UNCHANGED <<requestVars, rowVars>>,
               NEW p \in {"updating", "creating"}, Become(k, p)
        PROVE  embargo' = embargo /\ UNCHANGED <<requestVars, rowVars>> /\ (Acting => Acting')
    BY <2>3, OthersAct
  <2>4. \/ ~MayAct(k)
        \/ MayAct(k) /\ SwitchOwnedRender(switches[k].to)
        \/ /\ MayAct(k) /\ embargo' = embargo /\ UNCHANGED <<requestVars, rowVars>>
           /\ \E p \in {"updating", "creating"} : Become(k, p)
    BY ONLY <1>1 DEF SwitchAccepted
  <2> QED
    BY ONLY <2>1, <2>2, <2>3, <2>4
<1>2. CASE UpdateDone(k)
  BY <1>2, RenderOwes DEF UpdateDone, SwitchOwnedRender
<1>3. CASE CreateDone(k)
  <2>1. CASE Current(k)
    BY <1>3, <2>1, RenderOwes DEF CreateDone, SwitchOwnedRender
  <2>2. CASE ~Current(k)
    <3>1. Become(k, "over") /\ embargo' = embargo /\ UNCHANGED <<requestVars, rowVars>>
      BY ONLY <1>3, <2>2 DEF CreateDone
    <3>2. ~MayAct(k)
      BY <1>3, <2>2 DEF CreateDone, KindInv, MayAct
    <3> QED
      BY <3>1, <3>2, OthersAct
  <2> QED
    BY <2>1, <2>2
<1>4. CASE SwitchFailed(k)
  <2>1. CASE MayAct(k)
    BY <1>4, <2>1 DEF SwitchFailed
  <2>2. CASE ~MayAct(k)
    <3>1. embargo' = embargo /\ UNCHANGED <<requestVars, rowVars>>
      BY ONLY <1>4, <2>2 DEF SwitchFailed, rowVars
    <3>2. Become(k, "over") \/ Become(k, "broken")
      BY ONLY <1>4 DEF SwitchFailed
    <3> QED
      BY <2>2, <3>1, <3>2, OthersAct
  <2> QED
    BY <2>1, <2>2
<1>5. CASE SwitchFinally(k)
  <2>1. ~Running(k) /\ Become(k, "over") /\ UNCHANGED <<requestVars, rowVars>>
    BY <1>5 DEF SwitchFinally, Running
  <2>2. embargo' = (embargo /\ ~Current(k))
    BY <1>5 DEF SwitchFinally
  <2>3. embargo' \in {embargo, FALSE}
    BY <2>2 DEF ListTypeOK
  <2> QED
    BY <2>1, <2>3, OthersAct
<1> QED
  BY ONLY SwitchStep(k), <1>1, <1>2, <1>3, <1>4, <1>5 DEF SwitchStep

LEMMA EmbargoStep ==
  ASSUME ListTypeOK, KindInv, EmbargoInv, [ListNext]_listVars PROVE EmbargoInv'
<1>1. ASSUME NEW kind \in ListKinds, NEW p \in ListProfiles,
             StartSwitch(kind, p)
      PROVE  EmbargoInv'
  BY <1>1, NewActs DEF EmbargoInv
<1>2. ASSUME NEW k \in DOMAIN switches, SwitchStep(k)
      PROVE  EmbargoInv'
  BY <1>2, SwitchStepOwned DEF EmbargoInv
<1>3. CASE switches' = switches /\ embargo' = embargo
  BY <1>3 DEF EmbargoInv, Acting, Running, MayAct, Current
<1>4. \/ switches' = switches /\ embargo' = embargo
      \/ \E kind \in ListKinds, p \in ListProfiles : StartSwitch(kind, p)
      \/ \E k \in DOMAIN switches : SwitchStep(k)
  BY
  DEF ListNext, listVars, switchVars, ListProgress, Refresh, StartDelete, Serve,
      TakeAnswer,
     ApplyHeld, TakeFailure, ServeDelete, RemoveRow, DeleteConfirmed, DeleteRolledBack
<1> QED
  BY <1>1, <1>2, <1>3, <1>4

LEMMA SkeletonStep ==
  ASSUME ListTypeOK, QueueInv, KindInv, EmbargoInv, SkeletonInv, [ListNext]_listVars
  PROVE  SkeletonInv'
<1>0. /\ listGen \in Nat /\ flight.gen \in Nat /\ queued.gen \in Nat /\ held.gen \in Nat
      /\ flight \in FlightType /\ queued \in QueueType /\ held \in HeldType
  BY DEF ListTypeOK, FlightType, QueueType, HeldType
<1>1. ASSUME NEW kind \in ListKinds, NEW p \in ListProfiles,
             StartSwitch(kind, p)
      PROVE  SkeletonInv'
  BY <1>1, NewActs DEF SkeletonInv
<1>2. ASSUME NEW k \in DOMAIN switches, SwitchStep(k)
      PROVE  SkeletonInv'
  BY <1>2, SwitchStepOwned
  DEF SkeletonInv, Answering, HeldLive, requestVars, rowVars
<1>3. ASSUME NEW d, NEW jar, RenderSessionList(d, jar)
      PROVE  SkeletonInv'
  BY <1>3, RenderOwes DEF SkeletonInv
<1>4. CASE skeleton' = FALSE
  BY <1>4 DEF SkeletonInv
<1>5. CASE switches' = switches /\ skeleton' = skeleton
  <2>1. Acting' = Acting
    BY <1>5 DEF Acting, Running, MayAct, Current
  <2>2. CASE UNCHANGED requestVars
    BY <1>5, <2>1, <2>2 DEF SkeletonInv, Answering, HeldLive, requestVars
  <2>3. CASE Serve
    BY <1>0, <1>5, <2>1, <2>3
    DEF SkeletonInv, Answering, HeldLive, Serve, FlightType
  <2>4. ASSUME flight.phase # "idle", Droppable, listGen' = listGen,
               DrainNext(held)
        PROVE  SkeletonInv'
    BY <1>0, <1>5, <2>1, <2>4
    DEF SkeletonInv, EmbargoInv, Droppable, Answering, HeldLive, DrainNext,
        QueueInv, Asked,
        HeldAfterStart
  <2>5. ASSUME ~Droppable, listGen' = listGen,
               DrainNext([on |-> TRUE, gen |-> flight.gen, of |-> flight.of, rows |-> flight.rows])
        PROVE  SkeletonInv'
    BY <1>0, <1>5, <2>1, <2>5
    DEF SkeletonInv, Droppable, Answering, HeldLive, DrainNext, QueueInv, Asked
  <2>6. ASSUME held.gen # listGen, UNCHANGED <<listGen, flight, queued>>,
               held' = NoHeld
        PROVE  SkeletonInv'
    BY <1>0, <1>5, <2>1, <2>6 DEF SkeletonInv, Answering, HeldLive
  <2>7. \/ UNCHANGED requestVars \/ Serve
        \/ \E d, jar : RenderSessionList(d, jar)
        \/ flight.phase # "idle" /\ Droppable /\ listGen' = listGen /\ DrainNext(held)
        \/ /\ ~Droppable /\ listGen' = listGen
           /\ DrainNext([on |-> TRUE, gen |-> flight.gen, of |-> flight.of, rows |-> flight.rows])
        \/ held.gen # listGen /\ UNCHANGED <<listGen, flight, queued>> /\ held' = NoHeld
        \/ skeleton' = FALSE
        \/ \E kind \in ListKinds, p \in ListProfiles : StartSwitch(kind, p)
        \/ \E k \in DOMAIN switches : SwitchStep(k)
    BY
    DEF ListNext, listVars, requestVars, ListProgress, Refresh, StartDelete,
        TakeAnswer,
       ApplyHeld, TakeFailure, ServeDelete, RemoveRow, DeleteConfirmed, DeleteRolledBack,
       ApplySessionListPayload
  <2> QED
    BY <1>1, <1>2, <1>3, <1>4, <2>2, <2>3, <2>4, <2>5, <2>6, <2>7
<1>6. \/ switches' = switches /\ skeleton' = skeleton
      \/ skeleton' = FALSE
      \/ \E kind \in ListKinds, p \in ListProfiles : StartSwitch(kind, p)
      \/ \E k \in DOMAIN switches : SwitchStep(k)
  BY
  DEF ListNext, listVars, rowVars, switchVars, ListProgress, Refresh,
      StartDelete, Serve,
     TakeAnswer, ApplyHeld, TakeFailure, ServeDelete, RemoveRow, DeleteConfirmed,
     DeleteRolledBack, ApplySessionListPayload
<1> QED
  BY <1>1, <1>2, <1>4, <1>5, <1>6

LEMMA DeleteStep ==
  ASSUME ListTypeOK, QueueInv, DeleteInv, [ListNext]_listVars PROVE DeleteInv'
<1>0. /\ listGen \in Nat /\ flight \in FlightType /\ queued \in QueueType /\ held \in HeldType
      /\ deletion \in DeletionType /\ screen \in ScreenType
  BY DEF ListTypeOK, FlightType, QueueType, HeldType, DeletionType, ScreenType
<1> USE <1>0 DEF DeleteInv, HeldLive
<1>1. CASE UNCHANGED listVars
  BY <1>1 DEF listVars
<1>2. ASSUME NEW d, NEW jar, RenderSessionList(d, jar),
             UNCHANGED <<rowVars, deleteVars>>
      PROVE DeleteInv'
  BY <1>2
  DEF RenderSessionList, QueueInv, Asked, HeldAfterStart, NoHeld, rowVars,
      deleteVars, FlightType
<1>3. ASSUME NEW kind \in ListKinds, NEW p \in ListProfiles,
             StartSwitch(kind, p)
      PROVE  DeleteInv'
  BY <1>3
  DEF StartSwitch, InvalidateSessionListRenders, QueueInv, NoHeld, NoQueue,
      deleteVars, FlightType
<1>4. ASSUME NEW k \in DOMAIN switches, SwitchStep(k)
      PROVE  DeleteInv'
  <2>1. CASE \E jar : RenderSessionList("unset", jar) /\ UNCHANGED <<rowVars, deleteVars>>
    BY <2>1, <1>2
  <2>2. CASE UNCHANGED <<requestVars, rowVars, deleteVars>>
    BY <2>2 DEF requestVars, rowVars, deleteVars
  <2>3. CASE /\ UNCHANGED <<requestVars, allSessions, deleteVars>> /\ skeleton' = FALSE
             /\ screen' = [by |-> "cache", rows |-> allSessions]
    BY <2>3 DEF requestVars, deleteVars
  <2> QED
    BY <1>4, <2>1, <2>2, <2>3
    DEF SwitchStep, SwitchAccepted, SwitchOwnedRender, UpdateDone, CreateDone,
        SwitchFailed, SwitchFinally, RenderFromCache, rowVars
<1>5. CASE Serve
  BY <1>5 DEF Serve, rowVars, deleteVars, RowsOf, FlightType
<1>6. ASSUME NEW h, DrainNext(h), NEW rows, told \cap rows = {},
             UNCHANGED <<listGen, told, stored>>,
          h.on /\ h.gen = listGen => told \cap h.rows = {},
          \/ UNCHANGED rowVars
          \/ skeleton' = FALSE /\ allSessions' = rows \ removed /\ screen'.rows = allSessions'
          \/ skeleton' = FALSE /\ allSessions' \subseteq allSessions /\ screen'.rows = allSessions'
      PROVE DeleteInv'
  <2>1. /\ flight'.phase # "answered"
        /\ held' \in {h, NoHeld}
        /\ \/ UNCHANGED <<removed, deletion>>
           \/ deletion' = NoDelete
    BY <1>6 DEF DrainNext, Asked, Idle, HeldAfterStart
  <2>2. /\ \/ allSessions' = rows \ removed
           \/ allSessions' \subseteq allSessions
        /\ \/ skeleton' = skeleton /\ screen' = screen /\ allSessions' = allSessions
           \/ skeleton' = FALSE /\ screen'.rows = allSessions'
    <3>1. CASE UNCHANGED rowVars
      BY ONLY <3>1 DEF rowVars
    <3>2. CASE skeleton' = FALSE /\ allSessions' = rows \ removed /\ screen'.rows = allSessions'
      BY ONLY <3>2
    <3>3. CASE skeleton' = FALSE /\ allSessions' \subseteq allSessions /\ screen'.rows = allSessions'
      BY ONLY <3>3
    <3> QED
      BY ONLY <1>6, <3>1, <3>2, <3>3
  <2>3. told' = told /\ stored' = stored /\ listGen' = listGen
    BY ONLY <1>6
  <2>4. (told \cap stored = {} /\ told \cap allSessions = {})'
    BY ONLY <1>6, <2>2, <2>3, DeleteInv DEF DeleteInv
  <2>5. (screen.rows \subseteq allSessions /\ (skeleton => screen.rows = {}))'
    BY ONLY <2>2, DeleteInv DEF DeleteInv
  <2>6. (held.on /\ held.gen = listGen => told \cap held.rows = {})'
    BY ONLY <1>6, <2>1, <2>3 DEF NoHeld
  <2>7. (deletion.phase = "waiting" =>
           deletion.sid \subseteq removed /\ deletion.sid \cap allSessions = {})'
    <3>1. CASE deletion' = NoDelete
      BY ONLY <3>1 DEF NoDelete
    <3>2. CASE UNCHANGED <<removed, deletion>>
      BY ONLY <1>6, <2>2, <3>2, DeleteInv DEF DeleteInv
    <3> QED
      BY <2>1, <3>1, <3>2
  <2>8. (/\ deletion.phase \in {"holding", "waiting"} => told \cap deletion.before = {}
         /\ deletion.reply = "ok" => deletion.sid \cap stored = {})'
    <3>1. CASE deletion' = NoDelete
      BY ONLY <3>1 DEF NoDelete
    <3>2. CASE deletion' = deletion
      BY ONLY <2>3, <3>2, DeleteInv DEF DeleteInv
    <3> QED
      BY <2>1, <3>1, <3>2
  <2> QED
    BY ONLY <2>1, <2>4, <2>5, <2>6, <2>7, <2>8 DEF DeleteInv, HeldLive
<1>7. CASE TakeAnswer
  <2>1. flight.phase = "answered" /\ UNCHANGED <<listGen, told, stored>>
    BY <1>7 DEF TakeAnswer
  <2>2. CASE Droppable
    BY <1>6, <1>7, <2>1, <2>2 DEF TakeAnswer
  <2>3. CASE ~Droppable
    <3>1. told \cap flight.rows = {} 
      BY <2>1, <2>3 DEF Droppable
    <3> DEFINE h == [on |-> TRUE, gen |-> flight.gen, of |-> flight.of, rows |-> flight.rows]
    <3>2. CASE DrainNext(h) /\ UNCHANGED rowVars
      <4>1. h.rows = flight.rows
        OBVIOUS
      <4> HIDE DEF h
      <4> QED
        BY ONLY <1>6, <2>1, <3>1, <3>2, <4>1
    <3>3. CASE DrainNext(held) /\ ApplySessionListPayload(flight.of, flight.rows)
      <4>1. /\ skeleton' = FALSE /\ allSessions' = flight.rows \ removed
            /\ screen'.rows = allSessions'
        BY ONLY <3>3 DEF ApplySessionListPayload, RenderFromCache
      <4>2. held.on /\ held.gen = listGen => told \cap held.rows = {}
        OBVIOUS
      <4> QED
        BY ONLY <1>6, <2>1, <3>1, <3>3, <4>1, <4>2
    <3> QED
      BY ONLY <1>7, <2>3, <3>2, <3>3 DEF TakeAnswer
  <2> QED
    BY <2>2, <2>3
<1>8. CASE TakeFailure
  <2>1. told \cap {} = {}
    OBVIOUS
  <2>2. \/ UNCHANGED rowVars
        \/ skeleton' = FALSE /\ allSessions' \subseteq allSessions /\ screen'.rows = allSessions'
    <3>1. CASE Droppable
      BY ONLY <1>8, <3>1 DEF TakeFailure, rowVars
    <3>2. CASE ~Droppable
      <4>1. /\ skeleton' = FALSE /\ allSessions' \in {allSessions, {}}
            /\ screen' = [by |-> "error", rows |-> allSessions']
        BY ONLY <1>8, <3>2 DEF TakeFailure, RenderFromCache
      <4> QED
        BY ONLY <4>1
    <3> QED
      BY <3>1, <3>2
  <2> QED
    BY <1>6, <1>8, <2>1, <2>2 DEF TakeFailure
<1>9. CASE ApplyHeld
  BY <1>9
  DEF ApplyHeld, NoHeld, ApplySessionListPayload, RenderFromCache, deleteVars,
      rowVars
<1>10. CASE \E s \in ListSessions : StartDelete(s)
  BY <1>10 DEF StartDelete, requestVars, rowVars
<1>11. CASE ServeDelete
  BY <1>11 DEF ServeDelete, requestVars, rowVars, DeletionType
<1>12. CASE RemoveRow
  BY <1>12 DEF RemoveRow, RenderFromCache, requestVars, rowVars, DeletionType
<1>13. CASE DeleteConfirmed
  BY <1>13
  DEF DeleteConfirmed, RenderSessionList, QueueInv, Asked, HeldAfterStart,
      NoHeld, rowVars, DeletionType, FlightType
<1>14. CASE DeleteRolledBack
  BY <1>14 DEF DeleteRolledBack, RenderFromCache, requestVars, NoDelete
<1>15. CASE Refresh
  BY <1>15, <1>2 DEF Refresh
<1> QED
  BY ONLY [ListNext]_listVars, <1>1, <1>3, <1>4, <1>5, <1>7, <1>8, <1>9, <1>10,
          <1>11, <1>12, <1>13, <1>14, <1>15
  DEF ListNext, ListProgress

-----------------------------------------------------------------------------
(* What a run keeps whose switches neither overlap nor fail half-way *)

\* Without deletes, the cached rows are of the profile they were loaded for;
\* an answer and a held payload always are.
ScopeInv ==
  /\ left.deletes <= ListDeletes
  /\ left.deletes = ListDeletes =>
       deletion.phase = "idle" /\ \A s \in allSessions : ListOwner[s] = rowScope
  /\ \A s \in flight.rows : ListOwner[s] = flight.of
  /\ \A s \in held.rows : ListOwner[s] = held.of

Switching == \E k \in DOMAIN switches : Running(k)
Replacing == \E k \in DOMAIN switches : switches[k].phase \in {"updating", "creating"}

\* At most the newest switch is not over.  While it runs, nothing can paint
\* over the skeleton; before and after, what was asked for is of the profile
\* the page says is active.
AloneInv ==
  /\ \A k \in DOMAIN switches : k < Len(switches) => switches[k].phase = "over"
  /\ cookie = pageProfile
  /\ Switching => embargo /\ skeleton /\ screen.by = "skeleton" /\ ~held.on
  /\ Answering /\ ~Replacing => flight.of = pageProfile
  /\ HeldLive => held.of = pageProfile
  /\ screen.by = "server" => \A s \in screen.rows : ListOwner[s] = pageProfile
  /\ screen.by = "error" /\ left.deletes = ListDeletes =>
       \A s \in screen.rows : ListOwner[s] = pageProfile

LEMMA ScopeStep ==
  ASSUME ListTypeOK, ScopeInv, [ListNext]_listVars PROVE ScopeInv'
<1>0. /\ flight \in FlightType /\ held \in HeldType /\ deletion \in DeletionType
      /\ left \in [events: Nat, deletes: Nat]
  BY DEF ListTypeOK, FlightType, HeldType, DeletionType
<1>n. ListDeletes \in Nat
  BY ListAssumption DEF ListAssumption
<1>1. /\ left'.deletes \in Nat /\ left'.deletes <= left.deletes
      /\ (\E s \in ListSessions : StartDelete(s)) => left'.deletes < left.deletes
  <2>1. \/ left' = left
        \/ left.events > 0 /\ left' = [left EXCEPT !.events = @ - 1]
        \/ /\ left.events > 0 /\ left.deletes > 0
           /\ left' = [events |-> left.events - 1, deletes |-> left.deletes - 1]
    BY DEF ListNext, listVars, ListProgress, Refresh, StartSwitch, StartDelete, Serve,
       TakeAnswer, TakeFailure, ApplyHeld, SwitchStep, SwitchAccepted, UpdateDone, CreateDone,
       SwitchFailed, SwitchFinally, ServeDelete, RemoveRow, DeleteConfirmed, DeleteRolledBack
  <2>2. (\E s \in ListSessions : StartDelete(s)) =>
          left.deletes > 0 /\ left' = [events |-> left.events - 1, deletes |-> left.deletes - 1]
    BY DEF StartDelete
  <2> QED
    BY <1>0, <2>1, <2>2
<1>2. left'.deletes <= ListDeletes /\ (left'.deletes = ListDeletes => left.deletes = ListDeletes)
  BY <1>0, <1>n, <1>1 DEF ScopeInv
<1>3. left'.deletes = ListDeletes => deletion'.phase = "idle"
  <2>1. \/ \E s \in ListSessions : StartDelete(s)
        \/ deletion.phase = "idle" => deletion' \in {deletion, NoDelete}
    BY DEF ListNext, listVars, deleteVars, ListProgress, Refresh, StartSwitch, Serve,
       TakeAnswer, TakeFailure, ApplyHeld, DrainNext, SwitchStep, SwitchAccepted, UpdateDone,
       CreateDone, SwitchFailed, SwitchFinally, ServeDelete, RemoveRow, DeleteConfirmed,
       DeleteRolledBack
  <2>2. (\E s \in ListSessions : StartDelete(s)) => left'.deletes # ListDeletes
    BY <1>0, <1>1, <1>n DEF ScopeInv
  <2> QED
    BY <1>2, <2>1, <2>2 DEF ScopeInv, NoDelete
<1>4. left'.deletes = ListDeletes => \A s \in allSessions' : ListOwner[s] = rowScope'
  <2>1. \/ UNCHANGED <<allSessions, rowScope>>
        \/ deletion.phase # "idle"
        \/ allSessions' = flight.rows \ removed /\ rowScope' = flight.of /\ flight.phase = "answered"
        \/ allSessions' = held.rows \ removed /\ rowScope' = held.of /\ held.on
        \/ /\ allSessions' = IF rowScope = pageProfile THEN allSessions ELSE {}
           /\ rowScope' = pageProfile
    BY DEF ListNext, listVars, rowVars, ListProgress, Refresh, StartSwitch, StartDelete, Serve,
       TakeAnswer, TakeFailure, ApplyHeld, SwitchStep, SwitchAccepted, UpdateDone,
       CreateDone, SwitchFailed, SwitchFinally, ServeDelete, RemoveRow, DeleteConfirmed,
       DeleteRolledBack, ApplySessionListPayload
  <2> QED
    BY <1>2, <2>1 DEF ScopeInv
<1> DEFINE Owned(r) == \A s \in r.rows : ListOwner[s] = r.of
<1>5. Owned(flight') /\ Owned(held')
  <2>0. Owned(flight) /\ Owned(held) /\ Owned(NoHeld) /\ Owned(Idle)
        /\ \A gen, defer, jar : Owned(Asked(gen, defer, jar))
    BY DEF ScopeInv, NoHeld, Idle, Asked
  <2>1. CASE UNCHANGED requestVars
    BY <2>0, <2>1 DEF requestVars
  <2>2. ASSUME NEW d \in Defer, NEW jar, RenderSessionList(d, jar)
        PROVE  Owned(flight') /\ Owned(held')
    <3>1. /\ flight' = flight \/ flight' = Asked(listGen', d, jar)
          /\ held' = held \/ held' = NoHeld
      BY <2>2 DEF RenderSessionList, HeldAfterStart
    <3> QED
      BY ONLY <2>0, <3>1
  <2>3. CASE InvalidateSessionListRenders
    BY <2>0, <2>3 DEF InvalidateSessionListRenders
  <2>4. CASE Serve
    <3>1. \/ flight' = [flight EXCEPT !.phase = "answered", !.rows = RowsOf(flight.of)]
          \/ flight' = [flight EXCEPT !.phase = "failed"]
      BY <2>4 DEF Serve
    <3>2. held' = held
      BY <2>4 DEF Serve
    <3>3. Owned([flight EXCEPT !.phase = "answered", !.rows = RowsOf(flight.of)])
      BY <1>0 DEF FlightType, RowsOf
    <3>4. Owned([flight EXCEPT !.phase = "failed"])
      BY <1>0, <2>0 DEF FlightType
    <3> QED
      BY <2>0, <3>1, <3>2, <3>3, <3>4
  <2>5. ASSUME NEW h \in {held, [on |-> TRUE, gen |-> flight.gen, of |-> flight.of,
                                 rows |-> flight.rows]}, DrainNext(h)
        PROVE  Owned(flight') /\ Owned(held')
    <3>1. Owned(h)
      BY <2>0
    <3>2. /\ flight' = Idle \/ \E gen, defer, jar : flight' = Asked(gen, defer, jar)
          /\ held' = h \/ held' = NoHeld
      BY <2>5 DEF DrainNext, HeldAfterStart
    <3> QED
      BY ONLY <2>0, <3>1, <3>2
  <2>6. CASE ApplyHeld
    BY <2>0, <2>6 DEF ApplyHeld
  <2> QED
    BY <2>1, <2>2, <2>3, <2>4, <2>5, <2>6, RequestStep
<1> QED
  BY <1>2, <1>3, <1>4, <1>5 DEF ScopeInv

\* A run that is undisturbed after a step was so before it.
LEMMA StillAlone ==
  ASSUME ListTypeOK, [ListNext]_listVars, ~Disturbed'
  PROVE  /\ ~Disturbed
         /\ \/ switches' = switches
            \/ \E k \in DOMAIN switches : SwitchStep(k)
            \/ /\ \E kind \in ListKinds, p \in ListProfiles : StartSwitch(kind, p)
               /\ \A k \in DOMAIN switches : switches[k].phase = "over"
<1>0. switches \in Seq(SwitchType) /\ Len(switches) \in Nat /\ DOMAIN switches = 1 .. Len(switches)
  BY DEF ListTypeOK, SwitchType, SwitchPhase
<1>1. \/ switches' = switches
      \/ \E k \in DOMAIN switches : SwitchStep(k)
      \/ \E kind \in ListKinds, p \in ListProfiles : StartSwitch(kind, p)
  BY DEF ListNext, listVars, switchVars, ListProgress, Refresh, StartDelete, Serve,
     TakeAnswer, ApplyHeld, TakeFailure, ServeDelete, RemoveRow, DeleteConfirmed, DeleteRolledBack
<1>2. CASE switches' = switches
  BY <1>2 DEF Disturbed
<1>3. ASSUME NEW k \in DOMAIN switches, SwitchStep(k) PROVE ~Disturbed
  <2>1. switches[k].phase # "broken" /\ \E p : Become(k, p)
    BY <1>3 DEF SwitchStep, SwitchAccepted, UpdateDone, CreateDone, SwitchFailed, SwitchFinally
  <2>2. PICK p : Become(k, p)
    BY <2>1
  <2>3. \A j \in DOMAIN switches : switches'[j].alone = switches[j].alone
    BY <2>2, SwitchAt DEF Become, SwitchType
  <2>4. DOMAIN switches' = DOMAIN switches
        /\ \A j \in DOMAIN switches : j # k => switches'[j].phase = switches[j].phase
    BY <2>2, BecomeKeeps
  <2> QED
    BY <2>1, <2>3, <2>4 DEF Disturbed
<1>4. ASSUME NEW kind \in ListKinds, NEW p \in ListProfiles, StartSwitch(kind, p)
      PROVE  ~Disturbed /\ \A k \in DOMAIN switches : switches[k].phase = "over"
  <2> DEFINE older == [k \in DOMAIN switches |-> [switches[k] EXCEPT !.alone = @ /\ Ended(k)]]
  <2>1. \A j \in DOMAIN switches : switches'[j] = older[j]
    <3>1. \E newer : switches' = Append(older, newer)
      BY <1>4 DEF StartSwitch
    <3>2. Len(older) = Len(switches) /\ older \in Seq({older[k] : k \in DOMAIN switches})
      <4>1. older \in [1 .. Len(switches) -> {older[k] : k \in DOMAIN switches}]
        BY <1>0
      <4> QED
        BY <1>0, <4>1
    <3> HIDE DEF older
    <3>3. PICK newer : switches' = Append(older, newer)
      BY <3>1
    <3> QED
      BY <1>0, <3>2, <3>3, AppendProperties
  <2>2. \A j \in DOMAIN switches :
          /\ switches'[j].alone = (switches[j].alone /\ Ended(j))
          /\ switches'[j].phase = switches[j].phase
    BY <2>1, SwitchAt DEF SwitchType
  <2>3. \A j \in DOMAIN switches : j \in DOMAIN switches'
    BY <1>0, <1>4, NewActs
  <2>4. \A j \in DOMAIN switches : /\ switches[j].alone /\ Ended(j)
                                  /\ switches[j].phase # "broken"
    BY <2>2, <2>3 DEF Disturbed
  <2> QED
    BY <2>4 DEF Disturbed, Ended
<1> QED
  BY <1>1, <1>2, <1>3, <1>4

\* The switch that takes a step is the newest, and the only one not over.
LEMMA LoneSwitch ==
  ASSUME ListTypeOK, AloneInv, NEW k \in DOMAIN switches, switches[k].phase # "over"
  PROVE  /\ k = Len(switches) /\ Current(k) /\ MayAct(k)
         /\ \A j \in DOMAIN switches : j # k => switches[j].phase = "over"
<1>1. Len(switches) \in Nat /\ DOMAIN switches = 1 .. Len(switches)
  BY DEF ListTypeOK
<1>2. k = Len(switches)
  BY <1>1 DEF AloneInv
<1> QED
  BY <1>1, <1>2 DEF AloneInv, Current, MayAct

\* A new request leaves with the cookie of the page's profile, and overtakes
\* what was asked for before.
LEMMA RenderAlone ==
  ASSUME ListTypeOK, QueueInv, NEW d, NEW jar, RenderSessionList(d, jar)
  PROVE  (Answering' => flight'.of = jar) /\ ~HeldLive'
         /\ (~held.on => ~held'.on)
<1>1. listGen \in Nat /\ flight.gen \in Nat /\ held.gen \in Nat
  BY DEF ListTypeOK
<1> QED
  BY <1>1 DEF RenderSessionList, QueueInv, Answering, HeldLive, Asked, HeldAfterStart, NoHeld

\* The loop's next request, or none; h is what is held.
LEMMA DrainAlone ==
  ASSUME NEW h, DrainNext(h), listGen' = listGen
  PROVE  (Answering' => flight'.of = cookie) /\ (held' = h \/ held' = NoHeld)
BY DEF DrainNext, Answering, Asked, Idle, HeldAfterStart

LEMMA PageAlone ==
  ASSUME ListTypeOK, QueueInv, ScopeInv, AloneInv, [ListNext]_listVars, switches' = switches,
         ~\E k \in DOMAIN switches : SwitchStep(k),
         ~\E kind \in ListKinds, p \in ListProfiles : StartSwitch(kind, p)
  PROVE  AloneInv'
<1>0. /\ listGen \in Nat /\ flight \in FlightType /\ held \in HeldType
      /\ screen \in ScreenType /\ left \in [events: Nat, deletes: Nat]
  BY DEF ListTypeOK, FlightType, HeldType, ScreenType
<1>1. /\ UNCHANGED <<embargo, cookie, pageProfile>>
      /\ Switching' = Switching /\ Replacing' = Replacing
  <2>1. UNCHANGED <<embargo, cookie, pageProfile>>
    BY DEF ListNext, listVars, switchVars, ListProgress, Refresh, StartDelete, Serve,
       TakeAnswer, ApplyHeld, TakeFailure, ServeDelete, RemoveRow, DeleteConfirmed, DeleteRolledBack
  <2> QED
    BY <2>1 DEF Switching, Replacing, Running
<1>2. /\ \A k \in DOMAIN switches' : k < Len(switches') => switches'[k].phase = "over"
      /\ cookie' = pageProfile'
  BY <1>1 DEF AloneInv
<1>3. Replacing => Switching
  BY DEF Replacing, Switching, Running
<1>4. ASSUME UNCHANGED rowVars, left'.deletes = ListDeletes => left.deletes = ListDeletes,
             Answering' /\ ~Replacing => flight'.of = pageProfile,
             HeldLive' => held'.of = pageProfile,
             Switching => ~held'.on
      PROVE  AloneInv'
  BY <1>1, <1>2, <1>4 DEF AloneInv, rowVars
<1>5. CASE UNCHANGED listVars
  BY <1>4, <1>5 DEF listVars, rowVars, AloneInv, Answering, HeldLive
<1>6. ASSUME NEW d, RenderSessionList(d, cookie), UNCHANGED rowVars,
             left'.deletes = left.deletes
      PROVE  AloneInv'
  BY <1>4, <1>6, RenderAlone DEF AloneInv
<1>7. CASE Serve
  <2>1. /\ UNCHANGED <<listGen, held, rowVars, left>>
        /\ flight'.gen = flight.gen /\ flight'.of = flight.of /\ flight.phase = "asked"
    BY <1>0, <1>7 DEF Serve, FlightType
  <2> QED
    BY <1>4, <2>1 DEF AloneInv, Answering, HeldLive
<1>8. CASE TakeAnswer
  <2>0. flight.phase = "answered" /\ UNCHANGED <<listGen, left>>
    BY <1>8 DEF TakeAnswer
  <2>1. CASE DrainNext(held) /\ UNCHANGED rowVars
    <3>1. /\ Answering' => flight'.of = cookie
          /\ held' = held \/ held' = NoHeld
      BY <2>0, <2>1, DrainAlone
    <3> QED
      BY <1>4, <2>0, <2>1, <3>1 DEF AloneInv, HeldLive, NoHeld
  <2>2. ASSUME ~Droppable
        PROVE  ~Switching /\ flight.of = pageProfile
    <3>1. ~embargo /\ flight.gen = listGen
      BY <2>2 DEF Droppable
    <3>2. ~Switching
      BY <3>1 DEF AloneInv
    <3> QED
      BY <1>3, <2>0, <3>1, <3>2 DEF AloneInv, Answering
  <2>3. CASE /\ ~Droppable /\ UNCHANGED rowVars
             /\ DrainNext([on |-> TRUE, gen |-> flight.gen, of |-> flight.of,
                           rows |-> flight.rows])
    <3> DEFINE h == [on |-> TRUE, gen |-> flight.gen, of |-> flight.of, rows |-> flight.rows]
    <3>0. h.of = flight.of
      OBVIOUS
    <3> HIDE DEF h
    <3>1. /\ Answering' => flight'.of = cookie
          /\ held' = h \/ held' = NoHeld
      BY <2>0, <2>3, DrainAlone DEF h
    <3> QED
      BY <1>4, <2>0, <2>2, <2>3, <3>0, <3>1 DEF AloneInv, HeldLive, NoHeld
  <2>4. CASE ~Droppable /\ DrainNext(held) /\ ApplySessionListPayload(flight.of, flight.rows)
    <3>1. /\ Answering' => flight'.of = cookie
          /\ held' = held \/ held' = NoHeld
      BY <2>0, <2>4, DrainAlone
    <3>2. HeldLive' => held'.of = pageProfile
      BY <2>0, <3>1 DEF AloneInv, HeldLive, NoHeld
    <3>3. screen' = [by |-> "server", rows |-> flight.rows \ removed]
      BY <2>4 DEF ApplySessionListPayload, RenderFromCache
    <3>4. screen'.by = "server" /\ \A s \in screen'.rows : ListOwner[s] = pageProfile
      BY <2>2, <2>4, <3>3 DEF ScopeInv
    <3> QED
      BY <1>1, <1>2, <2>2, <2>4, <3>1, <3>2, <3>4 DEF AloneInv
  <2> QED
    BY <1>8, <2>1, <2>3, <2>4 DEF TakeAnswer
<1>9. CASE TakeFailure
  <2>0. flight.phase = "failed" /\ UNCHANGED <<listGen, left>> /\ DrainNext(held)
    BY <1>9 DEF TakeFailure
  <2>1. /\ Answering' => flight'.of = cookie
        /\ held' = held \/ held' = NoHeld
    BY <2>0, DrainAlone
  <2>2. CASE Droppable
    BY <1>4, <1>9, <2>0, <2>1, <2>2 DEF TakeFailure, AloneInv, HeldLive, NoHeld
  <2>3. CASE ~Droppable
    <3>1. ~Switching
      BY <2>3 DEF AloneInv, Droppable
    <3>2. /\ allSessions' = IF rowScope = pageProfile THEN allSessions ELSE {}
          /\ screen' = [by |-> "error", rows |-> allSessions']
      BY <1>9, <2>3 DEF TakeFailure, RenderFromCache
    <3>3. /\ screen'.by = "error"
          /\ left.deletes = ListDeletes => \A s \in screen'.rows : ListOwner[s] = pageProfile
      BY <3>2 DEF ScopeInv
    <3>4. HeldLive' => held'.of = pageProfile
      BY <2>0, <2>1 DEF AloneInv, HeldLive, NoHeld
    <3> QED
      BY <1>1, <1>2, <2>0, <2>1, <3>1, <3>3, <3>4 DEF AloneInv
  <2> QED
    BY <2>2, <2>3
<1>10. CASE ApplyHeld
  <2>0. held.on /\ held' = NoHeld /\ UNCHANGED <<listGen, flight, left>>
    BY <1>10 DEF ApplyHeld
  <2>1. ~Switching /\ ~held'.on
    BY <2>0 DEF AloneInv, NoHeld
  <2>2. CASE UNCHANGED rowVars
    BY <1>4, <2>0, <2>1, <2>2 DEF AloneInv, HeldLive, Answering
  <2>3. CASE held.gen = listGen /\ ApplySessionListPayload(held.of, held.rows)
    <3>1. held.of = pageProfile
      BY <2>0, <2>3 DEF AloneInv, HeldLive
    <3>2. screen' = [by |-> "server", rows |-> held.rows \ removed]
      BY <2>3 DEF ApplySessionListPayload, RenderFromCache
    <3>3. screen'.by = "server" /\ \A s \in screen'.rows : ListOwner[s] = pageProfile
      BY <3>1, <3>2 DEF ScopeInv
    <3> QED
      BY <1>1, <1>2, <2>0, <2>1, <3>3 DEF AloneInv, HeldLive, Answering
  <2> QED
    BY <1>10, <2>2, <2>3 DEF ApplyHeld
<1>11. ASSUME NEW s \in ListSessions, StartDelete(s) PROVE AloneInv'
  <2>1. /\ UNCHANGED <<listGen, flight, held, rowVars>>
        /\ left'.deletes = left.deletes - 1 /\ left.deletes > 0
    BY <1>11 DEF StartDelete, requestVars
  <2>2. ListDeletes \in Nat /\ left.deletes \in Nat /\ left.deletes <= ListDeletes
    BY <1>0, ListAssumption DEF ListAssumption, ScopeInv
  <2>3. left'.deletes # ListDeletes
    BY <2>1, <2>2
  <2> QED
    BY <1>4, <2>1, <2>3 DEF AloneInv, Answering, HeldLive
<1>12. CASE ServeDelete
  BY <1>4, <1>12 DEF ServeDelete, requestVars, AloneInv, Answering, HeldLive
<1>13. CASE RemoveRow \/ DeleteRolledBack
  <2>1. /\ UNCHANGED <<listGen, flight, held, skeleton, left>>
        /\ screen' = screen \/ (~skeleton /\ \E rows : screen' = [by |-> "cache", rows |-> rows])
    BY <1>13 DEF RemoveRow, DeleteRolledBack, requestVars, RenderFromCache
  <2> QED
    BY <1>1, <1>2, <2>1 DEF AloneInv, Answering, HeldLive
<1>14. CASE DeleteConfirmed
  BY <1>6, <1>14 DEF DeleteConfirmed
<1>15. CASE Refresh
  <2>1. left'.deletes = left.deletes
    BY <1>0, <1>15 DEF Refresh
  <2> QED
    BY <1>6, <1>15, <2>1 DEF Refresh
<1> QED
  BY ONLY [ListNext]_listVars, ~\E k \in DOMAIN switches : SwitchStep(k),
          ~\E kind \in ListKinds, p \in ListProfiles : StartSwitch(kind, p),
          <1>5, <1>7, <1>8, <1>9, <1>10, <1>11, <1>12, <1>13, <1>14, <1>15
  DEF ListNext, ListProgress

LEMMA StartAlone ==
  ASSUME ListTypeOK, QueueInv, AloneInv, NEW kind \in ListKinds, NEW p \in ListProfiles,
         StartSwitch(kind, p), \A k \in DOMAIN switches : switches[k].phase = "over"
  PROVE  AloneInv'
<1>0. /\ listGen \in Nat /\ flight \in FlightType /\ held \in HeldType
      /\ Len(switches) \in Nat /\ DOMAIN switches = 1 .. Len(switches)
  BY DEF ListTypeOK, FlightType, HeldType
<1>1. /\ DOMAIN switches' = 1 .. Len(switches) + 1
      /\ \A j \in DOMAIN switches : switches'[j].phase = switches[j].phase
  BY NewActs
<1>2. Len(switches') = Len(switches) + 1
  <2>1. switches' \in Seq(SwitchType)
    <3>1. [ListNext]_listVars
      BY DEF ListNext
    <3> QED
      BY <3>1, ListTypeStep DEF ListTypeOK, SwitchType, SwitchPhase
  <2>2. Len(switches') \in Nat /\ DOMAIN switches' = 1 .. Len(switches')
    BY <2>1
  <2> QED
    BY <1>0, <1>1, <2>2
<1>3. \A k \in DOMAIN switches' : k < Len(switches') => switches'[k].phase = "over"
  BY <1>0, <1>1, <1>2
<1>4. /\ listGen' = listGen + 1 /\ held' = NoHeld /\ flight' = flight /\ embargo' /\ skeleton'
      /\ screen' = [by |-> "skeleton", rows |-> {}] /\ UNCHANGED <<cookie, pageProfile>>
  BY DEF StartSwitch, InvalidateSessionListRenders
<1>5. ~Answering' /\ ~HeldLive' /\ ~held'.on
  BY <1>0, <1>4 DEF Answering, HeldLive, NoHeld, QueueInv, FlightType
<1> QED
  BY <1>3, <1>4, <1>5 DEF AloneInv

LEMMA SwitchAlone ==
  ASSUME ListTypeOK, QueueInv, AloneInv, NEW k \in DOMAIN switches, SwitchStep(k), ~Disturbed'
  PROVE  AloneInv'
<1>0. switches[k].phase # "over"
  BY DEF SwitchStep, SwitchAccepted, UpdateDone, CreateDone, SwitchFailed, SwitchFinally
<1>1. /\ k = Len(switches) /\ Current(k) /\ MayAct(k)
      /\ \A j \in DOMAIN switches : j # k => switches[j].phase = "over"
  BY <1>0, LoneSwitch
<1>2. PICK p : Become(k, p)
  BY DEF SwitchStep, SwitchAccepted, UpdateDone, CreateDone, SwitchFailed, SwitchFinally
<1>3. /\ DOMAIN switches' = DOMAIN switches /\ Len(switches') = Len(switches)
      /\ \A j \in DOMAIN switches : j # k => switches'[j].phase = "over"
      /\ switches'[k].phase = p
  BY <1>1, <1>2, BecomeKeeps
<1>4. \A j \in DOMAIN switches' : j < Len(switches') => switches'[j].phase = "over"
  <2>1. Len(switches) \in Nat /\ DOMAIN switches = 1 .. Len(switches)
    BY DEF ListTypeOK
  <2> QED
    BY <1>1, <1>3, <2>1
<1>5. p \in {"listing", "over", "broken"} => ~Switching' /\ ~Replacing'
  BY <1>3 DEF Switching, Replacing, Running
<1>6. Switching <=> switches[k].phase \in {"posting", "updating", "creating"}
  BY <1>1 DEF Switching, Running
<1>7. Replacing <=> switches[k].phase \in {"updating", "creating"}
  BY <1>1 DEF Replacing
\* The switch asks for its own list, with the cookie of the new profile.
<1>8. ASSUME NEW jar, RenderSessionList("unset", jar), cookie' = jar, pageProfile' = jar,
             UNCHANGED rowVars, left' = left, Become(k, "listing") \/ Become(k, "over"),
             switches[k].phase \in {"posting", "updating", "creating"}
      PROVE  AloneInv'
  <2>1. ~Switching' /\ ~Replacing'
    <3>1. switches'[k].phase \in {"listing", "over"}
      BY <1>8, BecomeKeeps
    <3> QED
      BY <1>3, <1>5, <3>1
  <2>2. (Answering' => flight'.of = jar) /\ ~HeldLive'
    BY <1>8, RenderAlone
  <2>3. screen' = screen /\ screen.by = "skeleton"
    BY <1>6, <1>8 DEF AloneInv, rowVars
  <2> QED
    BY <1>4, <1>8, <2>1, <2>2, <2>3 DEF AloneInv
<1>9. CASE SwitchAccepted(k)
  <2>1. /\ switches[k].phase = "posting" /\ cookie' = switches[k].to
        /\ pageProfile' = switches[k].to /\ UNCHANGED rowVars /\ left' = left
        /\ \/ /\ RenderSessionList("unset", switches[k].to)
              /\ Become(k, "over") \/ Become(k, "listing")
           \/ /\ \E next \in {"updating", "creating"} : Become(k, next)
              /\ UNCHANGED <<requestVars, embargo>>
    BY <1>1, <1>9 DEF SwitchAccepted, SwitchOwnedRender
  <2>2. CASE /\ RenderSessionList("unset", switches[k].to)
             /\ Become(k, "over") \/ Become(k, "listing")
    BY <1>8, <2>1, <2>2
  <2>3. CASE /\ \E next \in {"updating", "creating"} : Become(k, next)
             /\ UNCHANGED <<requestVars, embargo>>
    <3>1. PICK next \in {"updating", "creating"} : Become(k, next)
      BY <2>3
    <3>2. switches'[k].phase = next /\ k \in DOMAIN switches'
      BY <1>3, <3>1, BecomeKeeps
    <3>3. Replacing'
      BY <3>2 DEF Replacing
    <3>4. embargo /\ skeleton /\ screen.by = "skeleton" /\ ~held.on
      BY <1>6, <2>1 DEF AloneInv
    <3>5. embargo' /\ skeleton' /\ screen' = screen /\ held' = held
      BY <2>1, <2>3, <3>4 DEF rowVars, requestVars
    <3> QED
      BY <1>4, <2>1, <3>3, <3>4, <3>5 DEF AloneInv, HeldLive
  <2> QED
    BY <2>1, <2>2, <2>3
<1>10. CASE UpdateDone(k)
  <2>1. cookie = pageProfile
    BY DEF AloneInv
  <2> QED
    BY <1>8, <1>10, <2>1 DEF UpdateDone, SwitchOwnedRender
<1>11. CASE CreateDone(k)
  <2>1. cookie = pageProfile
    BY DEF AloneInv
  <2> QED
    BY <1>1, <1>8, <1>11, <2>1 DEF CreateDone, SwitchOwnedRender
<1>12. CASE SwitchFailed(k)
  <2>1. Become(k, IF switches[k].phase = "posting" THEN "over" ELSE "broken")
    BY <1>12 DEF SwitchFailed
  <2>2. switches[k].phase = "posting"
    <3>1. CASE switches[k].phase # "posting"
      <4>1. Become(k, "broken")
        BY <2>1, <3>1
      <4>2. switches'[k].phase = "broken" /\ k \in DOMAIN switches'
        BY <1>3, <4>1, BecomeKeeps
      <4> QED
        BY <4>2 DEF Disturbed
    <3> QED
      BY <3>1
  <2>3. /\ UNCHANGED <<requestVars, pageProfile, cookie, left>>
        /\ screen' = [by |-> "cache", rows |-> allSessions]
    BY <1>1, <1>12 DEF SwitchFailed, RenderFromCache
  <2>4. ~Switching' /\ ~Replacing
    <3>1. switches'[k].phase = "over"
      BY <2>1, <2>2, BecomeKeeps
    <3> QED
      BY <1>3, <1>5, <1>7, <2>2, <3>1
  <2> QED
    BY <1>4, <2>3, <2>4 DEF AloneInv, requestVars, Answering, HeldLive
<1>13. CASE SwitchFinally(k)
  <2>1. /\ switches[k].phase = "listing" /\ Become(k, "over")
        /\ UNCHANGED <<requestVars, rowVars, pageProfile, cookie, left>>
    BY <1>13 DEF SwitchFinally
  <2>2. ~Switching' /\ ~Replacing
    <3>1. switches'[k].phase = "over"
      BY <2>1, BecomeKeeps
    <3> QED
      BY <1>3, <1>5, <1>7, <2>1, <3>1
  <2> QED
    BY <1>4, <2>1, <2>2 DEF AloneInv, requestVars, rowVars, Answering, HeldLive
<1> QED
  BY <1>9, <1>10, <1>11, <1>12, <1>13 DEF SwitchStep

ProfileInv == ScopeInv /\ (~Disturbed => AloneInv)

LEMMA ProfileStep ==
  ASSUME ListTypeOK, QueueInv, ProfileInv, [ListNext]_listVars
  PROVE  ProfileInv'
<1>1. ScopeInv'
  BY ScopeStep DEF ProfileInv
<1>2. ASSUME ~Disturbed' PROVE AloneInv'
  <2>1. ~Disturbed /\ AloneInv /\ ScopeInv
    BY <1>2, StillAlone DEF ProfileInv
  <2>2. CASE \E k \in DOMAIN switches : SwitchStep(k)
    BY <1>2, <2>1, <2>2, SwitchAlone
  <2>3. CASE /\ \E kind \in ListKinds, p \in ListProfiles : StartSwitch(kind, p)
             /\ \A k \in DOMAIN switches : switches[k].phase = "over"
    BY <2>1, <2>3, StartAlone
  <2>4. CASE /\ switches' = switches /\ ~\E k \in DOMAIN switches : SwitchStep(k)
             /\ ~\E kind \in ListKinds, p \in ListProfiles : StartSwitch(kind, p)
    BY <2>1, <2>4, PageAlone
  <2>5. CASE \E kind \in ListKinds, p \in ListProfiles : StartSwitch(kind, p)
    <3>1. \/ switches' = switches
          \/ \E k \in DOMAIN switches : SwitchStep(k)
          \/ \A k \in DOMAIN switches : switches[k].phase = "over"
      BY <1>2, StillAlone
    <3>2. switches' # switches
      <4>1. DOMAIN switches' = 1 .. Len(switches) + 1 /\ DOMAIN switches = 1 .. Len(switches)
            /\ Len(switches) \in Nat
        BY <2>5, NewActs DEF ListTypeOK
      <4> QED
        BY <4>1
    <3> QED
      BY <2>2, <2>3, <2>5, <3>1, <3>2
  <2> QED
    BY <1>2, <2>2, <2>3, <2>4, <2>5, StillAlone
<1> QED
  BY <1>1, <1>2 DEF ProfileInv

-----------------------------------------------------------------------------
(* Theorems *)

LEMMA ListInitInv == ListInit => ListIInv
<1> SUFFICES ASSUME ListInit PROVE ListIInv
  OBVIOUS
<1>1. ListTypeOK
  BY ListInitType
<1>2. QueueInv
  BY DEF ListInit, QueueInv, Idle, NoQueue, NoHeld
<1>3. KindInv /\ EmbargoInv /\ SkeletonInv
  BY DEF ListInit, KindInv, EmbargoInv, SkeletonInv
<1>4. DeleteInv
  BY DEF ListInit, DeleteInv, HeldLive, Idle, NoHeld, NoDelete
<1> QED
  BY <1>1, <1>2, <1>3, <1>4 DEF ListIInv

LEMMA ListInvStep == ListIInv /\ [ListNext]_listVars => ListIInv'
BY ListTypeStep, QueueStep, KindStep, EmbargoStep, SkeletonStep, DeleteStep
DEF ListIInv

LEMMA ListInvariant == ListSpec => []ListIInv
BY ListInitInv, ListInvStep, PTL DEF ListSpec

\* The variables of the session list have their types in every state.
THEOREM ListTypeCorrect == ListSpec => []ListTypeOK
<1>1. ListIInv => ListTypeOK
  BY DEF ListIInv
<1> QED
  BY <1>1, ListInvariant, PTL

\* The embargo is never up without a switch that still has to lift it, so the
\* sidebar cannot freeze (static/panels.js 8138-8145).
THEOREM EmbargoIsOwned == ListSpec => []EmbargoOwned
<1>1. ListIInv => EmbargoOwned
  BY DEF ListIInv, EmbargoInv, EmbargoOwned, Acting
<1> QED
  BY <1>1, ListInvariant, PTL

\* Whenever the skeleton is shown, a running switch or a refresh that will not
\* be dropped still has to replace it (static/panels.js 7821-7832).
THEOREM SkeletonIsOwed == ListSpec => []SkeletonOwed
<1>1. ListIInv => SkeletonOwed
  BY DEF ListIInv, SkeletonInv, SkeletonOwed, Acting, Answering, HeldLive
<1> QED
  BY <1>1, ListInvariant, PTL

\* A conversation whose delete the server confirmed is never painted again,
\* whatever refreshes were under way, queued or held, and whatever switches
\* and failures fall between (static/sessions.js 9130-9197).
THEOREM DeletedStaysGone == ListSpec => []NoResurrection
<1>1. ListIInv => NoResurrection
  BY DEF ListIInv, DeleteInv, NoResurrection
<1> QED
  BY <1>1, ListInvariant, PTL
LEMMA ProfileInit == ListInit => ProfileInv
<1> SUFFICES ASSUME ListInit PROVE ProfileInv
  OBVIOUS
<1>1. ListDeletes \in Nat
  BY ListAssumption DEF ListAssumption
<1>2. ScopeInv
  BY <1>1 DEF ListInit, ScopeInv, RowsOf, Idle, NoHeld, NoDelete
<1>3. DOMAIN switches = {}
  BY DEF ListInit
<1>4. AloneInv
  BY <1>3 DEF ListInit, AloneInv, RowsOf, Switching, Answering, HeldLive, Idle, NoHeld
<1> QED
  BY <1>2, <1>4 DEF ProfileInv

\* A list painted from an answer of the server, or when a refresh failed, is
\* of the profile the page says is active, with any number of refreshes,
\* deletes and switches that do not overlap (static/sessions.js 5657-5707).
THEOREM FetchedRowsStayActive == ListSpec => []FetchedRowsAreActive
<1>1. ListIInv /\ ProfileInv /\ [ListNext]_listVars => ProfileInv'
  BY ProfileStep DEF ListIInv
<1>2. ProfileInv => FetchedRowsAreActive
  BY DEF ProfileInv, AloneInv, FetchedRowsAreActive
<1> QED
  BY <1>1, <1>2, ProfileInit, ListInvariant, PTL DEF ListSpec
=============================================================================
