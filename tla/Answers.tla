-------------------------------- MODULE Answers --------------------------------
(***************************************************************************)
(* The questions that are answered from the files and stored nowhere: ask  *)
(* (AskService), and compare and synthesize (KnowledgeSynthesisService).   *)
(* They read their evidence from the text that Insights is about, and take *)
(* the same generation slot.                                               *)
(*                                                                         *)
(* ask gets its evidence from one search; the other two read the chunks of *)
(* the files they name and then, statement by statement, the files' rows.  *)
(* The file of Insights stands for all the files that are named.           *)
(***************************************************************************)
EXTENDS Insights

CONSTANTS
  Askers,       \* the questions
  Models,       \* the models installed
  DefaultModel  \* the one in OllamaProvider's signature

VARIABLES
  question,
  selected      \* default_ollama_provider.model

answerVars == <<question, selected>>

Unasked == [stage |-> "new", kind |-> "none", began |-> 0, there |-> FALSE, evidence |-> {},
            status |-> "none", model |-> "none", wanted |-> "none"]

AnswerInit ==
  /\ question = [a \in Askers |-> Unasked]
  /\ selected = DefaultModel

On(a, stage) == question[a].stage = stage
To(a, stage) == question' = [question EXCEPT ![a].stage = stage]
Ends(a, status) == question' = [question EXCEPT ![a].stage = "ended", ![a].status = status]

(* The chunks of the file, or none. *)
Text == IF indexed /\ Current \notin Blank THEN {revision} ELSE {}

Begins(a, kind, stage, evidence) ==
  /\ On(a, "new")
  /\ question' = [question EXCEPT ![a] =
       [Unasked EXCEPT !.stage = stage, !.kind = kind, !.began = revision, !.there = indexed,
                       !.evidence = evidence, !.wanted = selected]]
  /\ UNCHANGED <<insightVars, holders, selected>>

-----------------------------------------------------------------------------
(* The evidence *)

(* The search may find the text, or find nothing, or fail. *)
Search(a) ==
  \/ Begins(a, "ask", "answer", Text)
  \/ Begins(a, "ask", "answer", {})
  \/ Begins(a, "ask", "raised", {})

ReadTexts(a) ==
  \/ Begins(a, "compare", "rows", Text)
  \/ Begins(a, "synthesize", "rows", Text)

(* The chunks of a file that is not found are used all the same. *)
M_KeepTexts(a) ==
  /\ On(a, "rows")
  /\ question' = [question EXCEPT ![a].there = indexed, ![a].stage = "answer"]
  /\ UNCHANGED <<insightVars, holders, selected>>

(* A file whose row is not found is left out, its chunks with it; a comparison of no files is
   refused. *)
ReadRows(a) ==
  /\ On(a, "rows")
  /\ \/ indexed /\ To(a, "answer")
     \/ /\ ~indexed
        /\ question' = [question EXCEPT ![a].evidence = {}, ![a].there = FALSE,
             ![a].stage = IF question[a].kind = "compare" THEN "raised" ELSE "answer"]
  /\ UNCHANGED <<insightVars, holders, selected>>

-----------------------------------------------------------------------------
(* generate_answer *)

(* Waiting for the slot, instead of being turned away. *)
M_WaitForSlot(a) ==
  /\ On(a, "answer")
  /\ \/ question[a].evidence = {} /\ Ends(a, "NO_EVIDENCE") /\ UNCHANGED holders
     \/ question[a].evidence # {} /\ To(a, "generating") /\ Acquire(a)
  /\ UNCHANGED <<insightVars, selected>>

(* The model is asked about evidence only, and a busy slot is an answer too. *)
AskModel(a) ==
  /\ On(a, "answer")
  /\ \/ question[a].evidence = {} /\ Ends(a, "NO_EVIDENCE") /\ UNCHANGED holders
     \/ question[a].evidence # {} /\ To(a, "generating") /\ Acquire(a)
     \/ question[a].evidence # {} /\ Busy /\ Ends(a, "GENERATION_FAILED") /\ UNCHANGED holders
  /\ UNCHANGED <<insightVars, selected>>

(* Or the prompt cannot be built. *)
NoPrompt(a) ==
  /\ On(a, "answer")
  /\ question[a].evidence # {}
  /\ Ends(a, "GENERATION_FAILED")
  /\ UNCHANGED <<insightVars, holders, selected>>

(* The service has a provider of its own, made with the default model. *)
ModelAnswers(a) ==
  /\ On(a, "generating")
  /\ Release(a)
  /\ \E outcome \in Outcomes : \E status \in Statuses[outcome] :
       question' = [question EXCEPT ![a].stage = "ended", ![a].status = status,
                                    ![a].model = DefaultModel]
  /\ UNCHANGED <<insightVars, selected>>

AnswerStep(a) == ReadRows(a) \/ AskModel(a)

(* select_model *)
SelectModel ==
  /\ selected' \in Models
  /\ UNCHANGED <<insightVars, holders, question>>

AnswersLost ==
  /\ question' = [a \in Askers |-> Unasked]
  /\ selected' = DefaultModel

-----------------------------------------------------------------------------
(* Properties *)

(* A finished answer is a grounded one: what the model was given was the text of the file at
   some moment since the question was asked, of a file that was there when its row was read;
   and an answer that came from the model had something to be grounded on. *)
AnswersGrounded ==
  \A a \in Askers :
    On(a, "ended") =>
      /\ question[a].evidence \subseteq question[a].began..revision
      /\ question[a].status \in {"READY", "BUDGET_LIMITED"} => question[a].evidence # {}
      /\ ~question[a].there => question[a].status = "NO_EVIDENCE"

(* Nobody waits for the slot: a question with its evidence goes to the model, or is answered
   without it, even if the one who talks to the model never ends (acquire does not block). *)
NobodyWaits == \A a \in Askers : On(a, "answer") ~> ~On(a, "answer")

(* select_model says that it switches the model that generates: a question asked after the
   choice is answered by the chosen model. *)
SelectedAnswers ==
  \A a \in Askers :
    On(a, "ended") /\ question[a].status = "READY" => question[a].model = question[a].wanted
=============================================================================
