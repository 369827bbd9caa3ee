---------------------------- MODULE MCPageLists ----------------------------
(***************************************************************************)
(* The session list, the events that keep it up to date and the bus that   *)
(* sends them share no state in these models, so one run checks them side  *)
(* by side: a behaviour is one of one part.  Fairness of one part says     *)
(* nothing of a behaviour of another, so that two fairness conditions can  *)
(* share a WF_.                                                            *)
(***************************************************************************)
EXTENDS SessionList, ListEvents, SessionBus

VARIABLE part
vars == <<part, listVars, evVars, busVars>>

Owners == [s \in {"a1", "b1"} |-> IF s = "a1" THEN "a" ELSE "b"]

ListPart(A) == part = "list"   /\ A /\ UNCHANGED <<part, evVars, busVars>>
EvPart(A)   == part = "events" /\ A /\ UNCHANGED <<part, listVars, busVars>>
BusPart(A)  == part = "bus"    /\ A /\ UNCHANGED <<part, listVars, evVars>>

Init == part \in {"list", "events", "bus"} /\ ListInit /\ EvInit /\ BusInit
Next == ListPart(ListNext) \/ EvPart(EvNext) \/ BusPart(BusNext)
Spec == Init /\ [][Next]_vars
  /\ WF_vars(ListPart(ListProgress) \/ EvPart(StreamProgress))
  /\ WF_vars(EvPart(RefreshProgress))
  /\ WF_vars(EvPart(BlurTimer)) /\ WF_vars(EvPart(ProbeAnswers))
=============================================================================
