--------------------------- MODULE MCPagePrompts ---------------------------
(***************************************************************************)
(* The approval card and the clarification card share no state, so one run *)
(* checks them side by side: a behaviour is one of one part, and two       *)
(* fairness conditions of different parts can share a WF_.                 *)
(***************************************************************************)
EXTENDS Approvals, Clarify

VARIABLE part
vars == <<part, apVars, clVars>>

OfOne  == [q \in {"q1", "q2"} |-> "s"]
InTurn == <<"q1", "q2">>

ApPart(A) == part = "approvals" /\ A /\ UNCHANGED <<part, clVars>>
ClPart(A) == part = "clarify"   /\ A /\ UNCHANGED <<part, apVars>>

Init == part \in {"approvals", "clarify"} /\ ApInit /\ ClInit
Next == ApPart(ApNext) \/ ClPart(ClNext)
Spec == Init /\ [][Next]_vars
  /\ WF_vars(ApPart(HideTimer) \/ ClPart(ClHideTimer))
  /\ WF_vars(ApPart(PollTick) \/ ClPart(ClPollTick))
  /\ WF_vars(ApPart(LoadStep) \/ ClPart(ClLoadStep))
  /\ WF_vars(ApPart(ServePosts) \/ ClPart(ServeClarifyPosts))
  /\ WF_vars(ApPart(TakeReplies) \/ ClPart(TakeClarifyReplies))
  /\ \A s \in ApSessions :
       /\ WF_vars(ApPart(ServeAsks(s)) \/ ClPart(ServeClarifyAsks(s)))
       /\ WF_vars(ApPart(TakeAsks(s)) \/ ClPart(TakeClarifyAsks(s)))
---------------------------------------------------------------------------
\* A card on the screen, of either kind, belongs to the session on the screen
\* (loadSession, the polls and the late replies of another session).
CardsOfView == CardOfView /\ QuestionOfView

\* The reply to an answer leaves a newer card or question alone, whether it is
\* a confirmation, a 409 or an error (respondApproval, respondClarify).
AnswersKeepNewer == AnswerKeepsNewerCard /\ AnswerKeepsNewerQuestion

\* What the agent waits for is shown in its session, whatever polls, answers
\* and session changes overlap (the two fallback polls).
PromptsShown == PendingIsShown /\ QuestionIsShown

\* The controls that an answer locked come back, or their card goes
\* (_restoreFailedApprovalResponse, showClarifyCard).
ControlsReturn == ButtonsComeBack /\ ControlsComeBack
=============================================================================
