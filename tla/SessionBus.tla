----------------------------- MODULE SessionBus -----------------------------
(***************************************************************************)
(* The session-list bus (internal/httpserver/session_events_sse.go): a     *)
(* publisher numbers a change and copies the subscribers under the mutex,  *)
(* and sends to their channels, of one item each, after it has released    *)
(* it.  Reason, profile and session of an item are left out.  What a page  *)
(* does with an item is module ListEvents.                                 *)
(***************************************************************************)
EXTENDS Naturals

CONSTANTS
  BusPublishers,   \* the requests that publish a change, one after another
  BusViewers,      \* the connections to /api/sessions/events
  BusChanges       \* bound: changes published

ASSUME BusAssumption == BusChanges \in Nat

VARIABLES
  busVer,     \* ver
  busSub,     \* a connection: not made yet, in subs, or gone
  busChan,    \* its channel: the version in it, 0 when it is empty
  busItem,    \* the version a publisher is sending
  busStep,    \* the select a publisher is at, for each channel it copied
  busOwed     \* a change was published since the connection took an item

busVars == <<busVer, busSub, busChan, busItem, busStep, busOwed>>

BusTypeOK ==
  /\ busVer \in Nat
  /\ busSub \in [BusViewers -> {"new", "on", "gone"}]
  /\ busChan \in [BusViewers -> Nat]
  /\ busItem \in [BusPublishers -> Nat]
  /\ busStep \in [BusPublishers ->
                    [BusViewers -> {"done", "send", "drop", "again"}]]
  /\ busOwed \in [BusViewers -> BOOLEAN]

BusInit ==
  /\ busVer = 0
  /\ busSub = [v \in BusViewers |-> "new"]
  /\ busChan = [v \in BusViewers |-> 0]
  /\ busItem = [p \in BusPublishers |-> 0]
  /\ busStep = [p \in BusPublishers |-> [v \in BusViewers |-> "done"]]
  /\ busOwed = [v \in BusViewers |-> FALSE]

---------------------------------------------------------------------------
(* publish *)

\* Under the mutex: the number, and the subscribers of this moment.
BusPublish(p) ==
  /\ \A v \in BusViewers : busStep[p][v] = "done"
  /\ busVer < BusChanges
  /\ busVer' = busVer + 1
  /\ busItem' = [busItem EXCEPT ![p] = busVer']
  /\ busStep' = [busStep EXCEPT ![p] =
       [v \in BusViewers |-> IF busSub[v] = "on" THEN "send" ELSE "done"]]
  /\ busOwed' = [v \in BusViewers |-> busOwed[v] \/ busSub[v] = "on"]
  /\ UNCHANGED <<busSub, busChan>>

\* The copied channels are served in any order, one at a time.
At(p, v, step) ==
  /\ busStep[p][v] = step
  /\ \A u \in BusViewers \ {v} : busStep[p][u] \in {"done", "send"}

Go(p, v, step) == busStep' = [busStep EXCEPT ![p][v] = step]

\* A select with a default: the channel takes the item, or is full.
TryPut(p, v, full) ==
  \/ /\ busChan[v] = 0
     /\ busChan' = [busChan EXCEPT ![v] = busItem[p]]
     /\ Go(p, v, "done")
  \/ busChan[v] # 0 /\ Go(p, v, full) /\ UNCHANGED busChan

\* Mutant: the item taken off a full channel is not replaced.
DropOldest_forgets(p, v) ==
  /\ At(p, v, "drop") /\ busChan' = [busChan EXCEPT ![v] = 0] /\ Go(p, v, "done")
  /\ UNCHANGED <<busVer, busSub, busItem, busOwed>>

Send(p, v) ==
  /\ At(p, v, "send") /\ TryPut(p, v, "drop")
  /\ UNCHANGED <<busVer, busSub, busItem, busOwed>>

\* The oldest item goes; by now the channel may be empty.
DropOldest(p, v) ==
  /\ At(p, v, "drop")
  /\ busChan' = [busChan EXCEPT ![v] = 0]
  /\ Go(p, v, "again")
  /\ UNCHANGED <<busVer, busSub, busItem, busOwed>>

\* The second attempt gives up when another publisher was faster.
SendAgain(p, v) ==
  /\ At(p, v, "again") /\ TryPut(p, v, "done")
  /\ UNCHANGED <<busVer, busSub, busItem, busOwed>>

---------------------------------------------------------------------------
(* sessionsEventsHandler *)

BusSubscribe(v) ==
  /\ busSub[v] = "new"
  /\ busSub' = [busSub EXCEPT ![v] = "on"]
  /\ UNCHANGED <<busVer, busChan, busItem, busStep, busOwed>>

\* The handler takes an item and writes it: the page then asks for the list.
TakeItem(v) ==
  /\ busSub[v] = "on" /\ busChan[v] # 0
  /\ busChan' = [busChan EXCEPT ![v] = 0]
  /\ busOwed' = [busOwed EXCEPT ![v] = FALSE]
  /\ UNCHANGED <<busVer, busSub, busItem, busStep>>

\* The page closes the connection, or a write fails.  A publisher may still
\* hold the channel.
BusLeave(v) ==
  /\ busSub[v] = "on"
  /\ busSub' = [busSub EXCEPT ![v] = "gone"]
  /\ UNCHANGED <<busVer, busChan, busItem, busStep, busOwed>>

---------------------------------------------------------------------------
Deliver(p, v) == Send(p, v) \/ DropOldest(p, v) \/ SendAgain(p, v)

BusNext ==
  \/ \E p \in BusPublishers : BusPublish(p)
  \/ \E p \in BusPublishers, v \in BusViewers : Deliver(p, v)
  \/ \E v \in BusViewers : BusSubscribe(v) \/ TakeItem(v) \/ BusLeave(v)

BusSpec == BusInit /\ [][BusNext]_busVars

---------------------------------------------------------------------------
(* Properties *)

\* A change is never lost on a page that stays: after every publish it finds
\* an item in its channel, or a publisher has not finished with the channel,
\* however publishers and the page overlap (session_events_sse.go 69-85).
\* This is what ListEvents relies on.
NoChangeLost ==
  \A v \in BusViewers :
    busSub[v] = "on" /\ busOwed[v] =>
      \/ busChan[v] # 0
      \/ \E p \in BusPublishers : busStep[p][v] # "done"
=============================================================================
