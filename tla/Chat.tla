--------------------------------- MODULE Chat ---------------------------------
(***************************************************************************)
(* ChatService: a conversation, the requests that send messages to it, and *)
(* renaming or deleting it meanwhile.  A turn is two database sessions     *)
(* with the generation between them.  The first one inserts the user's     *)
(* message and then retrieves evidence inside the open write transaction,  *)
(* so it keeps every other writer out; the message is seen by others, and  *)
(* survives a crash, from its commit on.                                   *)
(*                                                                         *)
(* A message is listed by its time stamp, and messages of one stamp in     *)
(* the order of their identifiers, which are random.  A stamp is taken     *)
(* when the message is made, before the INSERT has to wait for the lock.   *)
(* The clock is that of the machine: it advances in steps, so that several *)
(* messages may have one stamp, and it is taken not to be set back.        *)
(*                                                                         *)
(* The text of a message is left out: a turn is the identity of a request. *)
(* Which of the earlier messages go into the prompt is in Evidence.        *)
(***************************************************************************)
EXTENDS GenerationSlot, Sequences

CONSTANTS
  Turns,     \* the messages users send
  Nobody

VARIABLES
  exists,    \* the conversation's row
  title,
  messages,  \* the committed rows of chat_messages, in the order of their commits
  turn,      \* where the request of each turn is
  writer,    \* the request whose transaction holds the write lock
  lost,      \* turns that ended without their answer being stored
  clock      \* what _utcnow_iso returns

chatVars == <<exists, title, messages, turn, writer, lost, clock>>

(* Of a turn: the stamp of its question, and since when the next stamp may have been taken. *)
Idle == [stage |-> "new", oldTitle |-> "default", status |-> "none", asked |-> 0, since |-> 0]

ChatInit ==
  /\ exists = TRUE
  /\ title = "default"
  /\ messages = <<>>
  /\ turn = [t \in Turns |-> Idle]
  /\ writer = Nobody
  /\ lost = {}
  /\ clock = 0

Message(role, t, status, at) == [role |-> role, turn |-> t, status |-> status, at |-> at]

At(t, stage) == turn[t].stage = stage
Goto(t, stage) == turn' = [turn EXCEPT ![t].stage = stage]

(* With a request its locals end. *)
Finish(t, stage) == turn' = [turn EXCEPT ![t] = [Idle EXCEPT !.stage = stage]]

Question(t) == Message("user", t, "none", turn[t].asked)
Stamps(t) == turn[t].since..clock

Asked(t) == \E i \in DOMAIN messages : messages[i].role = "user" /\ messages[i].turn = t
Answered(t) == \E i \in DOMAIN messages : messages[i].role = "assistant" /\ messages[i].turn = t

-----------------------------------------------------------------------------
(* send_message, first session *)

(* The conversation is read before the transaction begins. *)
Look(t) ==
  /\ At(t, "new")
  /\ \/ exists /\ turn' = [turn EXCEPT ![t] =
                   [Idle EXCEPT !.stage = "looked", !.oldTitle = title, !.since = clock]]
     \/ ~exists /\ Finish(t, "raised")
  /\ UNCHANGED <<exists, title, messages, writer, lost, clock, holders>>

(* The question is stamped, and the INSERT takes the write lock; without the conversation the
   foreign key refuses it. *)
Record(t) ==
  /\ At(t, "looked")
  /\ writer = Nobody
  /\ IF exists
     THEN /\ writer' = t
          /\ \E stamp \in Stamps(t) :
               turn' = [turn EXCEPT ![t].stage = "recorded", ![t].asked = stamp, ![t].since = clock]
     ELSE /\ Finish(t, "raised")
          /\ UNCHANGED writer
  /\ UNCHANGED <<exists, title, messages, lost, clock, holders>>

(* The default title is replaced, as it was read. *)
AutoTitle(t) == IF turn[t].oldTitle = "default" THEN "auto" ELSE title

(* A greeting or an inventory question is answered by rules, in the same transaction; the two
   stamps may be equal. *)
ReplyByRule(t) ==
  /\ At(t, "recorded")
  /\ \E stamp \in Stamps(t) :
       messages' = messages \o <<Question(t), Message("assistant", t, "COMPLETED", stamp)>>
  /\ title' = AutoTitle(t)
  /\ writer' = Nobody
  /\ Finish(t, "done")
  /\ UNCHANGED <<exists, lost, clock, holders>>

M_CommitFirst(t) ==
  /\ At(t, "recorded")
  /\ \/ Goto(t, "generate")
     \/ Finish(t, "raised")
  /\ messages' = Append(messages, Question(t))
  /\ title' = AutoTitle(t)
  /\ writer' = Nobody
  /\ UNCHANGED <<exists, lost, clock, holders>>

(* After an exception the transaction stays open. *)
M_LeaveOpen(t) ==
  /\ At(t, "recorded")
  /\ \/ /\ messages' = Append(messages, Question(t))
        /\ title' = AutoTitle(t)
        /\ writer' = Nobody
        /\ Goto(t, "generate")
     \/ /\ Finish(t, "raised")
        /\ UNCHANGED <<messages, title, writer>>
  /\ UNCHANGED <<exists, lost, clock, holders>>

(* Retrieval within the transaction, then the commit; or an exception and the roll-back. *)
Retrieve(t) ==
  /\ At(t, "recorded")
  /\ writer' = Nobody
  /\ \/ /\ messages' = Append(messages, Question(t))
        /\ title' = AutoTitle(t)
        /\ Goto(t, "generate")
     \/ /\ Finish(t, "raised")
        /\ UNCHANGED <<messages, title>>
  /\ UNCHANGED <<exists, lost, clock, holders>>

-----------------------------------------------------------------------------
(* generate_answer: every way out of it is a status, none is an exception *)

Conclude(t, status) ==
  turn' = [turn EXCEPT ![t].stage = "save", ![t].status = status, ![t].since = clock]

(* Without evidence the model is not asked, nor when the prompt cannot be built; a busy slot is
   an answer too. *)
Generate(t) ==
  /\ At(t, "generate")
  /\ \/ Conclude(t, "NO_EVIDENCE") /\ UNCHANGED holders
     \/ Conclude(t, "GENERATION_FAILED") /\ UNCHANGED holders
     \/ Goto(t, "generating") /\ Acquire(t)
     \/ Busy /\ Conclude(t, "GENERATION_FAILED") /\ UNCHANGED holders
  /\ UNCHANGED <<exists, title, messages, writer, lost, clock>>

(* A failed call is an exception of the turn. *)
M_RaiseOnFailure(t) ==
  /\ At(t, "generating")
  /\ \E outcome \in Outcomes :
       IF outcome = "text" THEN Conclude(t, "READY") ELSE Finish(t, "raised")
  /\ Release(t)
  /\ UNCHANGED <<exists, title, messages, writer, lost, clock>>

Generated(t) ==
  /\ At(t, "generating")
  /\ \E outcome \in Outcomes : \E status \in Statuses[outcome] : Conclude(t, status)
  /\ Release(t)
  /\ UNCHANGED <<exists, title, messages, writer, lost, clock>>

-----------------------------------------------------------------------------
(* The foreign key is not enforced. *)
M_SaveOrphan(t) ==
  /\ At(t, "save")
  /\ writer = Nobody
  /\ \E stamp \in Stamps(t) :
       messages' = Append(messages, Message("assistant", t, turn[t].status, stamp))
  /\ Finish(t, "done")
  /\ UNCHANGED <<exists, title, writer, lost, clock, holders>>

(* send_message, second session *)
Save(t) ==
  /\ At(t, "save")
  /\ writer = Nobody
  /\ IF exists
     THEN /\ \E stamp \in Stamps(t) :
               messages' = Append(messages, Message("assistant", t, turn[t].status, stamp))
          /\ Finish(t, "done")
     ELSE /\ Finish(t, "raised")
          /\ UNCHANGED messages
  /\ UNCHANGED <<exists, title, writer, lost, clock, holders>>

(* busy_timeout runs out on a writer that found the lock taken, by another turn or by a thread
   of another component. *)
Locked(t) ==
  /\ turn[t].stage \in {"looked", "save"}
  /\ Finish(t, "raised")
  /\ lost' = IF At(t, "save") THEN lost \cup {t} ELSE lost
  /\ UNCHANGED <<exists, title, messages, writer, clock, holders>>

ChatStep(t) ==
  \/ Record(t) \/ ReplyByRule(t) \/ Retrieve(t)
  \/ Generate(t) \/ Generated(t) \/ Save(t)

-----------------------------------------------------------------------------
(* Other requests, and the process *)

RenameConversation ==
  /\ exists /\ writer = Nobody
  /\ title' = "named"
  /\ UNCHANGED <<exists, messages, turn, writer, lost, clock, holders>>

(* The messages go with their conversation (ON DELETE CASCADE). *)
DeleteConversation ==
  /\ exists /\ writer = Nobody
  /\ exists' = FALSE
  /\ messages' = <<>>
  /\ UNCHANGED <<title, turn, writer, lost, clock, holders>>

Unsaved == {t \in Turns : turn[t].stage \in {"generate", "generating", "save"}}

(* The open transaction is rolled back when the database is opened again. *)
ChatCrash ==
  /\ turn' = [t \in Turns |-> IF turn[t].stage \in {"new", "done", "raised"} THEN turn[t]
                              ELSE [Idle EXCEPT !.stage = "raised"]]
  /\ lost' = lost \cup Unsaved
  /\ writer' = Nobody
  /\ UNCHANGED <<exists, title, messages, clock>>

Tick ==
  /\ clock' = clock + 1
  /\ UNCHANGED <<exists, title, messages, turn, writer, lost, holders>>

-----------------------------------------------------------------------------
(* Types; and a writer is a request inside its first session. *)
ChatTypeOK ==
  /\ exists \in BOOLEAN
  /\ title \in {"default", "auto", "named"}
  /\ clock \in Nat
  /\ \A i \in DOMAIN messages :
       /\ messages[i].role \in {"user", "assistant"} /\ messages[i].turn \in Turns
       /\ messages[i].at \in 0..clock
  /\ lost \subseteq Turns
  /\ \A t \in Turns : writer = t <=> At(t, "recorded")

(* What list_chat_messages (ORDER BY created_at, message_id) does with two messages: the later
   stamp is listed after the earlier one, and equal stamps in either order. *)
MayPrecede(m, n) == m.at <= n.at

(* Whoever reads the conversation, and whenever, finds the question of every answer; the answer
   is not listed before it, unless both have the same stamp; there is one of each for a turn,
   however the turns of two clients interleave; and nothing is left of a deleted conversation.
   (Stamps are taken before the write lock is waited for, so messages are not committed in the
   order of their stamps.) *)
AnswersFollowQuestions ==
  /\ ~exists => messages = <<>>
  /\ \A i \in DOMAIN messages :
       /\ messages[i].role = "assistant" =>
            \E j \in 1..(i - 1) :
              /\ messages[j].role = "user" /\ messages[j].turn = messages[i].turn
              /\ MayPrecede(messages[j], messages[i])
       /\ \A j \in DOMAIN messages :
            messages[i].role = messages[j].role /\ messages[i].turn = messages[j].turn => i = j

(* The same with no tie: an answer is always listed after its question ("Lists chat messages in
   deterministic chronological order"). *)
NeverTied ==
  \A i, j \in DOMAIN messages :
    messages[i].role = "user" /\ messages[j].role = "assistant" /\ messages[i].turn = messages[j].turn
      => ~MayPrecede(messages[j], messages[i])

(* A turn that failed before its first commit leaves no trace: every stored question has been
   answered, will be, or lost its answer after the commit (session's roll-back). *)
QuestionsAccountedFor ==
  \A t \in Turns : Asked(t) => Answered(t) \/ t \in Unsaved \cup lost

(* A stored question gets an answer, at worst one that says what went wrong, unless the
   conversation is deleted, or the process or the database fails before it is stored
   (generate_answer returns a status for every failure). *)
QuestionsAnswered ==
  \A t \in Turns : Asked(t) ~> (Answered(t) \/ ~exists \/ t \in lost)
=============================================================================
