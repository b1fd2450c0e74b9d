-------------------------------- MODULE Evidence --------------------------------
(***************************************************************************)
(* From retrieved chunks to a cited answer: ContextBuilder.build_context   *)
(* fills the evidence budget, PromptBuilder.build_prompt adds as much of   *)
(* the conversation as its window allows, and CitationValidator resolves   *)
(* the marks of the answer.  A chunk is its id (0 when it has none) and    *)
(* its estimated cost (0 for blank content); a message is its size.        *)
(***************************************************************************)
EXTENDS Naturals, Sequences, FiniteSets, SequencesExt, Lists

CONSTANTS
  Retrieved,      \* the chunks retrieval may return
  MaxRetrieved,   \* bound: results of one retrieval
  ContextTokens, SystemTokens, OutputTokens,  \* ContextBudgetConfig
  MaxChunks,
  Conversations,  \* the messages before the question, as sequences of sizes
  ListLimit,      \* rows send_message lists, 20 in the program
  Window,         \* messages looked at, 6 in the program
  MaxHistory,     \* MAX_HIST_CHARS, 3000 in the program
  QueryTokens,    \* the sizes of questions
  SystemPrompt,   \* the size of SYSTEM_GROUNDING_INSTRUCTIONS
  PerToken        \* characters per token

ASSUME EvidenceAssumption ==
  /\ {MaxRetrieved, ContextTokens, SystemTokens, OutputTokens, MaxChunks, ListLimit, Window,
      MaxHistory, SystemPrompt, PerToken} \subseteq Nat
  /\ Retrieved \subseteq [id : Nat, cost : Nat] /\ Conversations \subseteq Seq(Nat)

VARIABLES
  considered,  \* the candidates so far
  fates,       \* what became of each: "included" or the reason of its omission
  used,        \* evidence_used
  prompt,      \* phase, history (positions of messages), tokens
  talk,        \* the conversation
  answer       \* marks, citations, unresolved

evidenceVars == <<considered, fates, used, prompt, talk, answer>>

EvidenceInit ==
  /\ considered = <<>> /\ fates = <<>> /\ used = 0
  /\ talk \in Conversations
  /\ prompt = [phase |-> "context", history |-> <<>>, tokens |-> 0]
  /\ answer = [marks |-> <<>>, citations |-> <<>>, unresolved |-> <<>>]

EvidenceBudget == IF ContextTokens > SystemTokens + OutputTokens
                  THEN ContextTokens - SystemTokens - OutputTokens ELSE 0

Included == Kept(LAMBDA i : fates[i] = "included", [i \in DOMAIN fates |-> i])
Ids(places) == {considered[i].id : i \in ToSet(places)}

-----------------------------------------------------------------------------
(* build_context *)

Seen(id) == id \in Ids(Included)

M_Fits(cost) == used <= EvidenceBudget

Fits(cost) == used + cost <= EvidenceBudget

(* What the extraction finds no text in, wherever the chunk keeps it. *)
Blank(chunk) == chunk.cost = 0

(* The checks in their order. *)
Fate(chunk) ==
  IF chunk.id = 0 THEN "invalid_empty_content"
  ELSE IF Seen(chunk.id) THEN "duplicate_chunk"
  ELSE IF Blank(chunk) THEN "invalid_empty_content"
  ELSE IF Len(Included) >= MaxChunks THEN "max_chunks_reached"
  ELSE IF chunk.cost > EvidenceBudget THEN "oversized_single_chunk"
  ELSE IF Fits(chunk.cost) THEN "included"
  ELSE "budget_exceeded"

Consider ==
  /\ prompt.phase = "context" /\ Len(considered) < MaxRetrieved
  /\ \E chunk \in Retrieved :
       /\ considered' = Append(considered, chunk)
       /\ fates' = Append(fates, Fate(chunk))
       /\ used' = IF Fate(chunk) = "included" THEN used + chunk.cost ELSE used
  /\ UNCHANGED <<prompt, talk, answer>>

-----------------------------------------------------------------------------
(* list_chat_messages, and the history part of build_prompt *)

(* The listing is oldest first and cut at ListLimit. *)
Listed == [i \in 1..Min({ListLimit, Len(talk)}) |-> i]

CharsOf(places) == SumOf([k \in DOMAIN places |-> talk[places[k]]])

(* The last messages of the listing, from the newest back until one does not fit. *)
M_OldestFirst ==
  LET last == SubSeq(Listed, Max({1, Len(Listed) - Window + 1}), Len(Listed))
      most == CHOOSE n \in 0..Len(last) :
                CharsOf(SubSeq(last, 1, n)) <= MaxHistory
                /\ \A m \in (n + 1)..Len(last) : CharsOf(SubSeq(last, 1, m)) > MaxHistory
  IN SubSeq(last, 1, most)

History ==
  LET last == SubSeq(Listed, Max({1, Len(Listed) - Window + 1}), Len(Listed))
      newest(n) == SubSeq(last, Len(last) - n + 1, Len(last))
      most == CHOOSE n \in 0..Len(last) :
                CharsOf(newest(n)) <= MaxHistory
                /\ \A m \in (n + 1)..Len(last) : CharsOf(newest(m)) > MaxHistory
  IN newest(most)

(* generate_answer does not ask the model when nothing is included. *)
BuildPrompt ==
  /\ prompt.phase = "context"
  /\ \E query \in QueryTokens :
       prompt' = IF Included = <<>> THEN [prompt EXCEPT !.phase = "no evidence"]
                 ELSE [phase |-> "ask", history |-> History,
                       tokens |-> SystemPrompt + CharsOf(History) \div PerToken + used + query]
  /\ UNCHANGED <<considered, fates, used, talk, answer>>

-----------------------------------------------------------------------------
(* extract_and_validate: each mark once, E1 .. En are the included chunks *)

Distinct(marks) ==
  FoldLeft(LAMBDA seen, mark : IF mark \in ToSet(seen) THEN seen ELSE Append(seen, mark), <<>>, marks)

M_Resolves(mark) == mark \in 1..(Len(Included) - 1)

Resolves(mark) == mark \in DOMAIN Included

Answer ==
  /\ prompt.phase = "ask"
  /\ \E marks \in UNION {[1..n -> 0..MaxRetrieved] : n \in 0..2} :
       LET distinct == Distinct(marks)
           good == Kept(Resolves, distinct)
       IN answer' = [marks |-> marks,
                     citations |-> [i \in DOMAIN good |-> considered[Included[good[i]]].id],
                     unresolved |-> Kept(LAMBDA mark : ~Resolves(mark), distinct)]
  /\ prompt' = [prompt EXCEPT !.phase = "answered"]
  /\ UNCHANGED <<considered, fates, used, talk>>

EvidenceNext == Consider \/ BuildPrompt \/ Answer

EvidenceSpec == EvidenceInit /\ [][EvidenceNext]_evidenceVars

-----------------------------------------------------------------------------
(* The accounting is right at every moment: what is used is the cost of what is included, within
   the budget, no chunk twice; and nothing is left out that has content and would still fit, so
   greedy filling wastes no room (build_context). *)
BudgetKept ==
  /\ used = SumOf([k \in DOMAIN Included |-> considered[Included[k]].cost])
  /\ used <= EvidenceBudget /\ Len(Included) <= MaxChunks
  /\ Cardinality(Ids(Included)) = Len(Included)
  /\ \A i \in DOMAIN considered :
       \/ considered[i].id = 0 \/ considered[i].cost = 0
       \/ Seen(considered[i].id)
       \/ Len(Included) = MaxChunks
       \/ used + considered[i].cost > EvidenceBudget

(* What an answer cites was in its prompt, under the number it is cited by, once; and every mark
   that stands for nothing is reported, so that no citation is invented or dropped. *)
CitationsGrounded ==
  prompt.phase = "answered" =>
    /\ Included # <<>>
    /\ IsInjective(answer.citations)
    /\ ToSet(answer.citations) =
         {considered[Included[m]].id : m \in ToSet(answer.marks) \cap DOMAIN Included}
    /\ ToSet(answer.unresolved) = ToSet(answer.marks) \ DOMAIN Included

Newest(n) == SubSeq([i \in DOMAIN talk |-> i], Len(talk) - n + 1, Len(talk))

(* The prompt carries as many of the newest messages as its window and its characters allow. *)
NewestRemembered ==
  \A n \in 1..Min({Window, Len(talk)}) :
    CharsOf(Newest(n)) <= MaxHistory => ToSet(Newest(n)) \subseteq ToSet(prompt.history)

(* In a conversation short enough to be listed whole, the model sees its newest messages: as
   many as the window and the characters allow, none of them skipped (build_prompt). *)
ShortTalkRemembered ==
  prompt.phase = "ask" /\ Len(talk) <= ListLimit =>
    NewestRemembered /\ CharsOf(prompt.history) <= MaxHistory

(* A "sliding window" (chat_service.py:7) holds the newest messages of a long conversation too. *)
HistorySlides == prompt.phase = "ask" => NewestRemembered

(* The prompt leaves the room reserved for the answer, as docs/architecture.md:125 says. *)
PromptFits == prompt.phase = "ask" => prompt.tokens <= ContextTokens - OutputTokens
=============================================================================
