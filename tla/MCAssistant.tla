------------------------------ MODULE MCAssistant ------------------------------
(***************************************************************************)
(* Assistant on small instances.  Scenarios says how many requests of each *)
(* kind are made and how often each other event happens.                   *)
(***************************************************************************)
EXTENDS Assistant

CONSTANTS
  Scenarios, \* the initial budgets
  FirstText  \* what the file contains at first

VARIABLE budget

mcvars == <<assistantVars, budget>>

BudgetOf(turns, rename, delete, tick, insights, asks, select, index, remove, crash) ==
  [turn |-> turns, rename |-> rename, delete |-> delete, tick |-> tick, insight |-> insights,
   ask |-> asks, select |-> select, index |-> index, remove |-> remove, crash |-> crash]

Spend(e) == budget[e] > 0 /\ budget' = [budget EXCEPT ![e] = @ - 1]
Free == UNCHANGED budget

MCInit == Init /\ texts = <<FirstText>> /\ budget \in Scenarios

ChatMoves(t) == ChatStep(t) /\ UNCHANGED <<insightVars, answerVars>> /\ Free
InsightMoves(r) == InsightStep(r) /\ UNCHANGED <<chatVars, answerVars>> /\ Free
AnswerMoves(a) == AnswerStep(a) /\ UNCHANGED chatVars /\ Free

MCNext ==
  \/ \E t \in Turns :
       \/ Look(t) /\ UNCHANGED <<insightVars, answerVars>> /\ Spend("turn")
       \/ ChatMoves(t)
       \/ Locked(t) /\ UNCHANGED <<insightVars, answerVars>> /\ Free
  \/ \E r \in Requests :
       \/ (ReadFile(r) \/ ListFiles(r)) /\ UNCHANGED <<chatVars, answerVars>> /\ Spend("insight")
       \/ InsightMoves(r)
       \/ Again(r) /\ UNCHANGED <<chatVars, answerVars>> /\ Free
  \/ \E a \in Askers :
       \/ (Search(a) \/ ReadTexts(a)) /\ UNCHANGED chatVars /\ Spend("ask")
       \/ AnswerMoves(a)
       \/ (NoPrompt(a) \/ ModelAnswers(a)) /\ UNCHANGED chatVars /\ Free
  \/ SelectModel /\ UNCHANGED chatVars /\ Spend("select")
  \/ RenameConversation /\ UNCHANGED <<insightVars, answerVars>> /\ Spend("rename")
  \/ DeleteConversation /\ UNCHANGED <<insightVars, answerVars>> /\ Spend("delete")
  \/ Tick /\ UNCHANGED <<insightVars, answerVars>> /\ Spend("tick")
  \/ Reindex /\ UNCHANGED <<chatVars, answerVars>> /\ Spend("index")
  \/ RemoveFolder /\ UNCHANGED <<chatVars, answerVars>> /\ Spend("remove")
  \/ Crash /\ Spend("crash")

MCSpec == MCInit /\ [][MCNext]_mcvars

(* The threads are scheduled.  A call to the model for a chat or an insight ends, for the
   provider has a time-out; of the questions that is not even assumed. *)
MCFairness ==
  /\ \A t \in Turns : WF_mcvars(ChatMoves(t))
  /\ \A r \in Requests : WF_mcvars(InsightMoves(r))
  /\ \A a \in Askers : WF_mcvars(AnswerMoves(a))

MCFairSpec == MCSpec /\ MCFairness

(* Two clients of one conversation, which may be deleted; two insights while the text changes
   and comes back; three while it changes and the folder is removed; two questions while files
   change; a question next to an insight; next to a turn, a renaming, a choice of the model and
   a crash; a turn next to an insight, a deletion and a crash. *)
TwoClients == BudgetOf(2, 0, 1, 1, 0, 0, 0, 0, 0, 1)
Comebacks == BudgetOf(0, 0, 0, 0, 2, 0, 0, 2, 0, 0)
Summaries == BudgetOf(0, 0, 0, 0, 3, 0, 0, 1, 1, 0)
Questions == BudgetOf(0, 0, 0, 0, 0, 2, 0, 1, 1, 0)
QuestionAndSummary == BudgetOf(0, 0, 0, 0, 1, 1, 0, 1, 1, 0)
QuestionAndTurn == BudgetOf(1, 1, 0, 0, 0, 1, 1, 0, 0, 1)
TurnAndSummary == BudgetOf(1, 0, 1, 0, 1, 0, 0, 0, 0, 1)
AllScenarios ==
  {TwoClients, Comebacks, Summaries, Questions, QuestionAndSummary, QuestionAndTurn, TurnAndSummary}
=============================================================================
