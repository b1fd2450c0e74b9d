------------------------------- MODULE Assistant -------------------------------
(***************************************************************************)
(* Chat, Insights and Answers around the one generation slot, with any     *)
(* number of requests of each kind and the process crashing at any time.   *)
(***************************************************************************)
EXTENDS Chat, Answers

ASSUME AssistantAssumption ==
  /\ Nobody \notin Turns
  /\ Turns \cap Requests = {} /\ Turns \cap Askers = {} /\ Requests \cap Askers = {}
  /\ MaxRevision \in Nat \ {0}

assistantVars == <<chatVars, insightVars, answerVars, holders>>

Init == ChatInit /\ InsightInit /\ AnswerInit /\ SlotInit

ChatActions(t) == Look(t) \/ ChatStep(t) \/ Locked(t)
InsightActions(r) == ReadFile(r) \/ ListFiles(r) \/ InsightStep(r) \/ Again(r)
AnswerActions(a) == Search(a) \/ ReadTexts(a) \/ AnswerStep(a) \/ NoPrompt(a) \/ ModelAnswers(a)

(* Who else changes what they read: users, the clock, and the indexing threads. *)
ChatOthers == RenameConversation \/ DeleteConversation \/ Tick
InsightOthers == Reindex \/ RemoveFolder

Crash == ChatCrash /\ InsightCrash /\ AnswersLost /\ holders' = {}

Next ==
  \/ ((\E t \in Turns : ChatActions(t)) \/ ChatOthers) /\ UNCHANGED <<insightVars, answerVars>>
  \/ ((\E r \in Requests : InsightActions(r)) \/ InsightOthers) /\ UNCHANGED <<chatVars, answerVars>>
  \/ ((\E a \in Askers : AnswerActions(a)) \/ SelectModel) /\ UNCHANGED chatVars
  \/ Crash

Spec == Init /\ [][Next]_assistantVars

-----------------------------------------------------------------------------
(* The types of Chat and Insights. *)
AssistantTypeOK == ChatTypeOK /\ InsightTypeOK

(* The slot is held by the requests that are talking to the model, by no more than Capacity of
   them, and comes back on every way out (acquire's finally). *)
SlotSound ==
  /\ Cardinality(holders) <= Capacity
  /\ \A t \in Turns : t \in holders <=> At(t, "generating")
  /\ \A r \in Requests :
       r \in holders <=> request[r].stage \in {"document generating", "folder generating"}
  /\ \A a \in Askers : a \in holders <=> On(a, "generating")
=============================================================================
