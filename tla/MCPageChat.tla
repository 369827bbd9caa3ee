----------------------------- MODULE MCPageChat -----------------------------
(***************************************************************************)
(* The composer and the follower of a live turn, each with a server of its *)
(* own: a behaviour is one of one part, and two fairness conditions of     *)
(* different parts can share a WF_.                                        *)
(***************************************************************************)
EXTENDS ChatPage, LiveStream

CONSTANT Parts    \* the parts of the run
VARIABLE part
vars == <<part, cpVars, lvVars>>

Script == <<"m1", "m2">>

CpPart(A) == part = "chat"   /\ A /\ UNCHANGED <<part, lvVars>>
LvPart(A) == part = "stream" /\ A /\ UNCHANGED <<part, cpVars>>

Init == part \in Parts /\ CpInit /\ LvInit
Next == CpPart(CpNext) \/ LvPart(LvNext)
Spec == Init /\ [][Next]_vars
  /\ WF_vars(CpPart(CpLoading) \/ LvPart(LvFollowing))
  /\ WF_vars(CpPart(CpSending) \/ LvPart(LvReading))
  /\ WF_vars(CpPart(CpStopping) \/ LvPart(LvServing))
  /\ WF_vars(CpPart(CpDraining) \/ LvPart(LvLoading))
  /\ WF_vars(CpPart(ListAsked)) /\ WF_vars(CpPart(ListReconciles))
  /\ \A s \in CpSessions : /\ WF_vars(CpPart(TurnEnds(s)))
                           /\ WF_vars(CpPart(TurnEndShown(s)))
---------------------------------------------------------------------------
\* The page is not left busy when its turn is over, by the composer's paths
\* (terminal event, list, loadSession, Stop) or by those of a lost stream.
PageGoesIdle == BusyEnds /\ LvBusyEnds
=============================================================================
