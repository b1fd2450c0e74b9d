---------------------------- MODULE AssistantProofs ----------------------------
(***************************************************************************)
(* The invariants of Assistant, for any number of turns, requests,         *)
(* questions and revisions, any capacity of the slot and any number of     *)
(* crashes.  Each of the parts has an inductive invariant about its own    *)
(* variables; the slot has one about where everybody is.                   *)
(***************************************************************************)
EXTENDS MCAssistant, TLAPS, FiniteSetTheorems, SequenceTheorems

-----------------------------------------------------------------------------
(* The conversation *)

TurnStages == {"new", "looked", "recorded", "generate", "generating", "save", "done", "raised"}
AnswerStatuses ==
  {"none", "COMPLETED", "NO_EVIDENCE", "READY", "BUDGET_LIMITED", "INVALID_RESPONSE",
   "MODEL_UNAVAILABLE", "TIMEOUT", "GENERATION_FAILED"}
Titles == {"default", "auto", "named"}
TurnRecords == [stage : TurnStages, oldTitle : Titles, status : AnswerStatuses, asked : Nat, since : Nat]

(* The rows of chat_messages *)
Rows == [role : {"user", "assistant"}, turn : Turns, status : AnswerStatuses, at : Nat]

IsQuestion(row, t) == row.role = "user" /\ row.turn = t
IsAnswer(row, t) == row.role = "assistant" /\ row.turn = t

AskedIn(rows, t) == \E i \in DOMAIN rows : IsQuestion(rows[i], t)
AnsweredIn(rows, t) == \E i \in DOMAIN rows : IsAnswer(rows[i], t)

(* The stamps that are not after n: of the question, and of everything. *)
AskedBy(rows, t, n) == \A i \in DOMAIN rows : IsQuestion(rows[i], t) => rows[i].at <= n
StampedBy(rows, n) == \A i \in DOMAIN rows : rows[i].at <= n

(* Every answer after its question, and not stamped before it; and nothing twice. *)
Tidy(rows) ==
  \A i \in DOMAIN rows :
    /\ rows[i].role = "assistant" =>
         \E j \in 1..(i - 1) : IsQuestion(rows[j], rows[i].turn) /\ rows[j].at <= rows[i].at
    /\ \A j \in DOMAIN rows : rows[i].role = rows[j].role /\ rows[i].turn = rows[j].turn => i = j

ChatTypes ==
  /\ exists \in BOOLEAN
  /\ title \in Titles
  /\ messages \in Seq(Rows)
  /\ turn \in [Turns -> TurnRecords]
  /\ writer \in Turns \cup {Nobody}
  /\ lost \subseteq Turns
  /\ clock \in Nat

(* Where a turn is says which of its messages are stored, and when it took its stamps. *)
TurnInv(t) ==
  /\ writer = t <=> At(t, "recorded")
  /\ AskedIn(messages, t) =>
       \/ turn[t].stage \in {"generate", "generating", "save", "done"}
       \/ At(t, "raised") /\ t \in lost
  /\ AnsweredIn(messages, t) => At(t, "done")
  /\ AskedIn(messages, t) /\ At(t, "done") => AnsweredIn(messages, t)
  /\ exists /\ turn[t].stage \in {"generate", "generating", "save"} => AskedIn(messages, t)
  /\ turn[t].since <= clock
  /\ At(t, "recorded") => turn[t].asked <= turn[t].since
  /\ turn[t].stage \in {"generate", "generating", "save"} => AskedBy(messages, t, turn[t].since)

ChatInv ==
  /\ ChatTypes
  /\ Tidy(messages)
  /\ StampedBy(messages, clock)
  /\ ~exists => messages = <<>> /\ writer = Nobody
  /\ \A t \in Turns : TurnInv(t)

(* Nothing of turn t is new. *)
NothingOf(t, old, new) ==
  /\ AskedIn(new, t) <=> AskedIn(old, t)
  /\ AnsweredIn(new, t) <=> AnsweredIn(old, t)
  /\ \A n \in Nat : AskedBy(new, t, n) <=> AskedBy(old, t, n)

(* What appending a row does to what is asked, answered and stamped. *)
LEMMA Appended ==
  ASSUME NEW rows \in Seq(Rows), NEW row \in Rows
  PROVE  /\ Append(rows, row) \in Seq(Rows)
         /\ \A t \in Turns \ {row.turn} : NothingOf(t, rows, Append(rows, row))
         /\ row.role = "user" =>
              /\ AskedIn(Append(rows, row), row.turn)
              /\ AnsweredIn(Append(rows, row), row.turn) <=> AnsweredIn(rows, row.turn)
              /\ \A n \in Nat : AskedBy(rows, row.turn, n) /\ row.at <= n
                                  => AskedBy(Append(rows, row), row.turn, n)
         /\ row.role = "assistant" =>
              /\ AnsweredIn(Append(rows, row), row.turn)
              /\ AskedIn(Append(rows, row), row.turn) <=> AskedIn(rows, row.turn)
         /\ \A n \in Nat : StampedBy(rows, n) /\ row.at <= n => StampedBy(Append(rows, row), n)
<1> DEFINE n == Len(rows)
           more == Append(rows, row)
<1>1. /\ n \in Nat /\ DOMAIN rows = 1..n /\ more \in Seq(Rows) /\ DOMAIN more = 1..(n + 1)
      /\ \A i \in 1..n : more[i] = rows[i]
      /\ more[n + 1] = row
  BY AppendProperties, LenProperties
<1>2. \A i \in 1..(n + 1) : i \in 1..n \/ i = n + 1
  BY <1>1
<1>3. 1..n \subseteq 1..(n + 1) /\ n + 1 \in 1..(n + 1)
  BY <1>1
<1> HIDE DEF n, more
<1>4. \A t : AskedIn(more, t) <=> AskedIn(rows, t) \/ IsQuestion(row, t)
  BY <1>1, <1>2, <1>3 DEF AskedIn
<1>5. \A t : AnsweredIn(more, t) <=> AnsweredIn(rows, t) \/ IsAnswer(row, t)
  BY <1>1, <1>2, <1>3 DEF AnsweredIn
<1>6. \A t, m : AskedBy(more, t, m) <=> AskedBy(rows, t, m) /\ (IsQuestion(row, t) => row.at <= m)
  BY <1>1, <1>2, <1>3 DEF AskedBy
<1>7. \A m : StampedBy(more, m) <=> StampedBy(rows, m) /\ row.at <= m
  BY <1>1, <1>2, <1>3 DEF StampedBy
<1>8. \A t \in Turns \ {row.turn} : NothingOf(t, rows, more)
  BY <1>4, <1>5, <1>6 DEF NothingOf, IsQuestion, IsAnswer
<1>9. row.role = "user" =>
        /\ AskedIn(more, row.turn)
        /\ AnsweredIn(more, row.turn) <=> AnsweredIn(rows, row.turn)
        /\ \A m \in Nat : AskedBy(rows, row.turn, m) /\ row.at <= m => AskedBy(more, row.turn, m)
  BY <1>4, <1>5, <1>6 DEF IsQuestion, IsAnswer
<1>10. row.role = "assistant" =>
         /\ AnsweredIn(more, row.turn)
         /\ AskedIn(more, row.turn) <=> AskedIn(rows, row.turn)
  BY <1>4, <1>5 DEF IsQuestion, IsAnswer
<1> QED
  BY <1>1, <1>7, <1>8, <1>9, <1>10 DEF more

(* A conversation in order stays so by a first question, and by the first answer to a question
   that is stamped no earlier. *)
LEMMA AppendedInOrder ==
  ASSUME NEW rows \in Seq(Rows), NEW row \in Rows, Tidy(rows),
         row.role = "user" => ~AskedIn(rows, row.turn),
         row.role = "assistant" =>
           AskedIn(rows, row.turn) /\ AskedBy(rows, row.turn, row.at) /\ ~AnsweredIn(rows, row.turn)
  PROVE  Tidy(Append(rows, row))
<1> DEFINE n == Len(rows)
           more == Append(rows, row)
<1>1. /\ n \in Nat /\ DOMAIN rows = 1..n /\ DOMAIN more = 1..(n + 1)
      /\ \A i \in 1..n : more[i] = rows[i] /\ rows[i] \in Rows
      /\ more[n + 1] = row
  BY AppendProperties, LenProperties, ElementOfSeq
<1> HIDE DEF n, more
<1>2. \A i \in 1..n : ~(rows[i].role = row.role /\ rows[i].turn = row.turn)
  <2>1. CASE row.role = "user"
    BY <1>1, <2>1 DEF AskedIn, IsQuestion
  <2>2. CASE row.role = "assistant"
    BY <1>1, <2>2 DEF AnsweredIn, IsAnswer
  <2> QED
    BY <2>1, <2>2 DEF Rows
<1>3. ASSUME NEW i \in 1..(n + 1), more[i].role = "assistant"
      PROVE  \E j \in 1..(i - 1) : IsQuestion(more[j], more[i].turn) /\ more[j].at <= more[i].at
  <2>1. CASE i = n + 1
    <3>1. PICK j \in 1..n : IsQuestion(rows[j], row.turn)
      BY <1>1, <1>3, <2>1 DEF AskedIn
    <3>2. rows[j].at <= row.at
      BY <1>1, <1>3, <2>1, <3>1 DEF AskedBy
    <3> QED
      BY <1>1, <2>1, <3>1, <3>2
  <2>2. CASE i # n + 1
    <3>1. i \in 1..n
      BY <1>1, <2>2
    <3>2. PICK j \in 1..(i - 1) : IsQuestion(rows[j], rows[i].turn) /\ rows[j].at <= rows[i].at
      BY <1>1, <1>3, <3>1 DEF Tidy
    <3>3. j \in 1..n
      BY <1>1, <3>1, <3>2
    <3> QED
      BY <1>1, <3>1, <3>2, <3>3
  <2> QED
    BY <2>1, <2>2
<1>4. ASSUME NEW i \in 1..(n + 1), NEW j \in 1..(n + 1),
             more[i].role = more[j].role, more[i].turn = more[j].turn
      PROVE  i = j
  <2>1. CASE i \in 1..n /\ j \in 1..n
    BY <1>1, <1>4, <2>1 DEF Tidy
  <2>2. CASE i = n + 1 \/ j = n + 1
    <3>1. i = n + 1 => j = n + 1
      BY <1>1, <1>2, <1>4
    <3>2. j = n + 1 => i = n + 1
      BY <1>1, <1>2, <1>4
    <3> QED
      BY <2>2, <3>1, <3>2
  <2> QED
    BY <1>1, <2>1, <2>2
<1>5. Tidy(more)
  BY <1>1, <1>3, <1>4 DEF Tidy
<1> QED
  BY <1>5 DEF more

LEMMA IdleTurn == Idle \in TurnRecords /\ Idle.stage = "new" /\ Idle.since = 0
BY DEF Idle, TurnRecords, TurnStages, Titles, AnswerStatuses

LEMMA ChatInitInv ==
  ASSUME ChatInit
  PROVE  ChatInv
<1>1. Idle \in TurnRecords /\ Idle.stage = "new" /\ Idle.since = 0
  BY IdleTurn
<1>2. messages \in Seq(Rows) /\ DOMAIN messages = {}
  BY EmptySeq, LenProperties DEF ChatInit
<1> QED
  BY <1>1, <1>2, AssistantAssumption
     DEF ChatInit, ChatInv, ChatTypes, Tidy, StampedBy, TurnInv, AskedIn, AnsweredIn, At, Titles

(* The requests that did not move keep what is true of them, while rows are only added and the
   added ones are not theirs. *)
LEMMA OthersKeepTurnInv ==
  ASSUME ChatInv, NEW t \in Turns, exists' = exists, clock' = clock,
         \/ writer' = writer
         \/ writer' = Nobody /\ At(t, "recorded")
         \/ writer' = t /\ writer = Nobody,
         NEW s \in Turns \ {t}, turn'[s] = turn[s], lost \subseteq lost',
         NothingOf(s, messages, messages')
  PROVE  TurnInv(s)'
<1>1. TurnInv(s) /\ TurnInv(t) /\ turn[s].since \in Nat
  BY DEF ChatInv, ChatTypes, TurnRecords
<1>2. writer' = s <=> writer = s
  BY <1>1, AssistantAssumption DEF TurnInv
<1> QED
  BY <1>1, <1>2 DEF TurnInv, At, NothingOf

(* A request that moves without storing anything. *)
LEMMA MovesInv ==
  ASSUME ChatInv, NEW t \in Turns, UNCHANGED <<exists, title, messages, clock>>,
         NEW new \in TurnRecords, turn' = [turn EXCEPT ![t] = new],
         lost \subseteq lost', lost' \subseteq Turns,
         \/ /\ writer' = writer /\ turn[t].stage # "recorded" /\ new.stage # "recorded"
         \/ /\ writer = Nobody /\ writer' = t /\ new.stage = "recorded" /\ exists
         \/ /\ writer' = Nobody /\ turn[t].stage = "recorded" /\ new.stage # "recorded",
         AskedIn(messages, t) =>
           \/ new.stage \in {"generate", "generating", "save"}
           \/ new.stage = "done" /\ At(t, "done")
           \/ new.stage = "raised" /\ t \in lost',
         AnsweredIn(messages, t) => new.stage = "done",
         exists /\ new.stage \in {"generate", "generating", "save"} => AskedIn(messages, t),
         new.since <= clock, new.stage = "recorded" => new.asked <= new.since,
         new.stage \in {"generate", "generating", "save"} => AskedBy(messages, t, new.since)
  PROVE  ChatInv'
<1>1. turn'[t] = new /\ \A s \in Turns \ {t} : turn'[s] = turn[s]
  BY DEF ChatInv, ChatTypes
<1>2. ChatTypes'
  BY DEF ChatInv, ChatTypes
<1>3. \A s \in Turns \ {t} : TurnInv(s)'
  BY <1>1, OthersKeepTurnInv, AssistantAssumption DEF At, NothingOf
<1>4. TurnInv(t)'
  BY <1>1, AssistantAssumption DEF ChatInv, TurnInv, At
<1>5. ~exists' => messages' = <<>> /\ writer' = Nobody
  BY DEF ChatInv
<1>6. Tidy(messages') /\ StampedBy(messages', clock')
  BY DEF ChatInv
<1> QED
  BY <1>2, <1>3, <1>4, <1>5, <1>6 DEF ChatInv

(* A request that is over. *)
LEMMA Finished ==
  ASSUME NEW t \in Turns, NEW stage \in TurnStages, Finish(t, stage)
  PROVE  \E new \in TurnRecords :
           turn' = [turn EXCEPT ![t] = new] /\ new.stage = stage /\ new.since = 0
<1> DEFINE new == [Idle EXCEPT !.stage = stage]
<1>1. new \in TurnRecords /\ new.stage = stage /\ new.since = 0
  BY IdleTurn DEF TurnRecords
<1> QED
  BY <1>1 DEF Finish

LEMMA LookInv ==
  ASSUME ChatInv, NEW t \in Turns, Look(t)
  PROVE  ChatInv'
<1>1. PICK new \in TurnRecords :
        /\ turn' = [turn EXCEPT ![t] = new] /\ new.stage \in {"looked", "raised"}
        /\ new.since \in {0, clock}
  <2>1. CASE exists
    <3> DEFINE new == [Idle EXCEPT !.stage = "looked", !.oldTitle = title, !.since = clock]
    <3>1. new \in TurnRecords /\ new.stage = "looked" /\ new.since = clock
      BY IdleTurn DEF ChatInv, ChatTypes, TurnRecords, TurnStages
    <3> QED
      BY <2>1, <3>1 DEF Look
  <2>2. CASE ~exists
    BY <2>2, Finished DEF Look, TurnStages
  <2> QED
    BY <2>1, <2>2
<1>2. ~AskedIn(messages, t) /\ ~AnsweredIn(messages, t) /\ turn[t].stage = "new" /\ clock \in Nat
  BY DEF ChatInv, ChatTypes, TurnInv, Look, At
<1>3. UNCHANGED <<exists, title, messages, writer, lost, clock>> /\ lost \subseteq Turns
  BY DEF Look, ChatInv, ChatTypes
<1>4. new.since <= clock /\ new.stage \notin {"recorded", "generate", "generating", "save"}
  BY <1>1, <1>2
<1>5. UNCHANGED <<exists, title, messages, clock>> /\ writer' = writer /\ lost' = lost
  BY <1>3
<1> QED
  BY <1>1, <1>2, <1>3, <1>4, <1>5, MovesInv

LEMMA RecordInv ==
  ASSUME ChatInv, NEW t \in Turns, Record(t)
  PROVE  ChatInv'
<1>1. /\ ~AskedIn(messages, t) /\ ~AnsweredIn(messages, t) /\ turn[t].stage = "looked"
      /\ turn[t] \in TurnRecords /\ clock \in Nat /\ lost \subseteq Turns
      /\ UNCHANGED <<exists, title, messages, lost, clock>>
  BY DEF ChatInv, ChatTypes, TurnInv, Record, At
<1>2. CASE exists
  <2>1. PICK stamp \in Stamps(t) :
          turn' = [turn EXCEPT ![t].stage = "recorded", ![t].asked = stamp, ![t].since = clock]
    BY <1>2 DEF Record
  <2>2. stamp \in Nat /\ stamp <= clock
    BY <1>1, <2>1 DEF Stamps, TurnRecords
  <2> DEFINE new == [turn[t] EXCEPT !.stage = "recorded", !.asked = stamp, !.since = clock]
  <2>3. /\ new \in TurnRecords /\ new.stage = "recorded" /\ new.asked = stamp /\ new.since = clock
        /\ turn' = [turn EXCEPT ![t] = new]
    BY <1>1, <2>1, <2>2 DEF TurnRecords, TurnStages, ChatInv, ChatTypes
  <2>4. writer = Nobody /\ writer' = t
    BY <1>2 DEF Record
  <2> HIDE DEF new
  <2>5. new.since <= clock /\ new.asked <= new.since
    BY <1>1, <2>2, <2>3
  <2>6. UNCHANGED <<exists, title, messages, clock>> /\ lost' = lost
    BY <1>1
  <2> QED
    BY <1>1, <1>2, <2>3, <2>4, <2>5, <2>6, MovesInv
<1>3. CASE ~exists
  <2>1. PICK new \in TurnRecords :
          turn' = [turn EXCEPT ![t] = new] /\ new.stage = "raised" /\ new.since = 0
    BY <1>3, Finished DEF Record, TurnStages
  <2>2. writer' = writer
    BY <1>3 DEF Record
  <2>3. UNCHANGED <<exists, title, messages, clock>> /\ lost' = lost
    BY <1>1
  <2>4. new.since <= clock
    BY <1>1, <2>1
  <2> QED
    BY <1>1, <2>1, <2>2, <2>3, <2>4, MovesInv
<1> QED
  BY <1>2, <1>3

LEMMA GenerateInv ==
  ASSUME ChatInv, NEW t \in Turns, Generate(t) \/ Generated(t)
  PROVE  ChatInv'
<1>1. /\ turn[t].stage \in {"generate", "generating"} /\ turn[t].stage # "recorded"
      /\ turn[t] \in TurnRecords /\ clock \in Nat /\ lost \subseteq Turns
      /\ UNCHANGED <<exists, title, messages, writer, lost, clock>>
  BY DEF Generate, Generated, At, ChatInv, ChatTypes
<1>2. AskedBy(messages, t, clock) /\ AskedBy(messages, t, turn[t].since) /\ turn[t].since <= clock
  BY <1>1 DEF ChatInv, TurnInv, StampedBy, AskedBy
<1>3. ~AnsweredIn(messages, t) /\ (exists => AskedIn(messages, t))
  BY <1>1 DEF ChatInv, TurnInv, At
<1>4. PICK new \in TurnRecords :
        /\ turn' = [turn EXCEPT ![t] = new] /\ new.stage \in {"generating", "save"}
        /\ new.since \in {turn[t].since, clock}
  <2>1. ASSUME NEW status \in AnswerStatuses, Conclude(t, status)
        PROVE  \E new \in TurnRecords :
                 /\ turn' = [turn EXCEPT ![t] = new] /\ new.stage \in {"generating", "save"}
                 /\ new.since \in {turn[t].since, clock}
    <3> DEFINE new == [turn[t] EXCEPT !.stage = "save", !.status = status, !.since = clock]
    <3>1. new \in TurnRecords /\ new.stage = "save" /\ new.since = clock
      BY <1>1 DEF TurnRecords, TurnStages
    <3>2. turn' = [turn EXCEPT ![t] = new]
      BY <2>1 DEF Conclude, ChatInv, ChatTypes
    <3> QED
      BY <3>1, <3>2
  <2>2. ASSUME Goto(t, "generating")
        PROVE  \E new \in TurnRecords :
                 /\ turn' = [turn EXCEPT ![t] = new] /\ new.stage \in {"generating", "save"}
                 /\ new.since \in {turn[t].since, clock}
    <3> DEFINE new == [turn[t] EXCEPT !.stage = "generating"]
    <3>1. new \in TurnRecords /\ new.stage = "generating" /\ new.since = turn[t].since
      BY <1>1 DEF TurnRecords, TurnStages
    <3>2. turn' = [turn EXCEPT ![t] = new]
      BY <2>2 DEF Goto, ChatInv, ChatTypes
    <3> QED
      BY <3>1, <3>2
  <2>3. \A outcome \in Outcomes : Statuses[outcome] \subseteq AnswerStatuses
    BY DEF Outcomes, Statuses, AnswerStatuses
  <2>4. {"NO_EVIDENCE", "GENERATION_FAILED"} \subseteq AnswerStatuses
    BY DEF AnswerStatuses
  <2>5. (\E status \in AnswerStatuses : Conclude(t, status)) \/ Goto(t, "generating")
    BY <2>3, <2>4 DEF Generate, Generated
  <2> QED
    BY <2>1, <2>2, <2>5
<1>5. new.since <= clock /\ AskedBy(messages, t, new.since)
  BY <1>1, <1>2, <1>4
<1>6. UNCHANGED <<exists, title, messages, clock>> /\ writer' = writer /\ lost' = lost
  BY <1>1
<1> QED
  BY <1>1, <1>3, <1>4, <1>5, <1>6, MovesInv

LEMMA LockedInv ==
  ASSUME ChatInv, NEW t \in Turns, Locked(t)
  PROVE  ChatInv'
<1>1. PICK new \in TurnRecords :
        turn' = [turn EXCEPT ![t] = new] /\ new.stage = "raised" /\ new.since = 0
  BY Finished DEF Locked, TurnStages
<1>2. turn[t].stage \in {"looked", "save"} /\ clock \in Nat /\ lost \subseteq Turns
  BY DEF Locked, ChatInv, ChatTypes
<1>3. ~AnsweredIn(messages, t) /\ (AskedIn(messages, t) => t \in lost')
  BY <1>2 DEF ChatInv, TurnInv, Locked, At
<1>4. /\ UNCHANGED <<exists, title, messages, clock>> /\ writer' = writer
      /\ lost \subseteq lost' /\ lost' \subseteq Turns
  BY <1>2 DEF Locked
<1>5. new.since <= clock
  BY <1>1, <1>2
<1> QED
  BY <1>1, <1>2, <1>3, <1>4, <1>5, MovesInv

LEMMA RetrieveInv ==
  ASSUME ChatInv, NEW t \in Turns, Retrieve(t) \/ ReplyByRule(t)
  PROVE  ChatInv'
<1>1. /\ At(t, "recorded") /\ writer = t /\ exists /\ writer' = Nobody
      /\ ~AskedIn(messages, t) /\ ~AnsweredIn(messages, t)
      /\ UNCHANGED <<exists, lost, clock>> /\ title' \in Titles
  BY AssistantAssumption DEF Retrieve, ReplyByRule, ChatInv, ChatTypes, TurnInv, At, AutoTitle, Titles
<1>2. /\ turn[t] \in TurnRecords /\ clock \in Nat
      /\ turn[t].asked <= turn[t].since /\ turn[t].since <= clock
      /\ messages \in Seq(Rows) /\ Tidy(messages) /\ StampedBy(messages, clock)
  BY <1>1 DEF ChatInv, ChatTypes, TurnInv
<1>3. PICK new \in TurnRecords, stamp \in Stamps(t) :
        /\ turn' = [turn EXCEPT ![t] = new] /\ new.stage \in {"generate", "raised", "done"}
        /\ new.since \in {0, turn[t].since}
        /\ new.stage = "generate" =>
             messages' = Append(messages, Question(t)) /\ new.since = turn[t].since
        /\ new.stage = "raised" => messages' = messages
        /\ new.stage = "done" =>
             messages' = messages \o <<Question(t), Message("assistant", t, "COMPLETED", stamp)>>
  <2>1. turn[t].since \in Stamps(t)
    BY <1>2 DEF Stamps, TurnRecords
  <2>2. CASE ReplyByRule(t)
    <3>1. PICK new \in TurnRecords :
            turn' = [turn EXCEPT ![t] = new] /\ new.stage = "done" /\ new.since = 0
      BY <2>2, Finished DEF ReplyByRule, TurnStages
    <3>2. PICK stamp \in Stamps(t) :
            messages' = messages \o <<Question(t), Message("assistant", t, "COMPLETED", stamp)>>
      BY <2>2 DEF ReplyByRule
    <3> QED
      BY <3>1, <3>2
  <2>3. CASE Retrieve(t) /\ Finish(t, "raised")
    <3>1. PICK new \in TurnRecords :
            turn' = [turn EXCEPT ![t] = new] /\ new.stage = "raised" /\ new.since = 0
      BY <2>3, Finished DEF TurnStages
    <3>2. messages' = messages
      <4>1. ~Goto(t, "generate")
        BY <3>1 DEF Goto, ChatInv, ChatTypes, TurnRecords
      <4> QED
        BY <2>3, <4>1 DEF Retrieve
    <3> QED
      BY <2>1, <3>1, <3>2
  <2>4. CASE Retrieve(t) /\ ~Finish(t, "raised")
    <3> DEFINE new == [turn[t] EXCEPT !.stage = "generate"]
    <3>1. new \in TurnRecords /\ new.stage = "generate" /\ new.since = turn[t].since
      BY <1>2 DEF TurnRecords, TurnStages
    <3>2. turn' = [turn EXCEPT ![t] = new] /\ messages' = Append(messages, Question(t))
      BY <2>4 DEF Retrieve, Goto, ChatInv, ChatTypes
    <3> HIDE DEF new
    <3> QED
      BY <2>1, <3>1, <3>2
  <2> QED
    BY <2>2, <2>3, <2>4
<1> DEFINE question1 == Question(t)
           asked == Append(messages, question1)
           answer == Message("assistant", t, "COMPLETED", stamp)
<1>4. /\ turn'[t] = new /\ \A s \in Turns \ {t} : turn'[s] = turn[s]
      /\ turn' \in [Turns -> TurnRecords]
  BY <1>3 DEF ChatInv, ChatTypes
<1>5. stamp \in Nat /\ turn[t].since <= stamp /\ stamp <= clock
  BY <1>2 DEF Stamps, TurnRecords
<1>6. /\ question1 \in Rows /\ question1.role = "user" /\ question1.turn = t
      /\ question1.at = turn[t].asked
      /\ answer \in Rows /\ answer.role = "assistant" /\ answer.turn = t /\ answer.at = stamp
  BY <1>2, <1>5 DEF Rows, Question, Message, AnswerStatuses, TurnRecords
<1> HIDE DEF answer, question1
<1>7. /\ turn[t].since \in Nat /\ turn[t].asked \in Nat /\ turn[t].asked <= clock
      /\ turn[t].asked <= stamp
  BY <1>2, <1>5 DEF TurnRecords
<1>8. \A n \in Nat : AskedBy(messages, t, n)
  BY <1>1 DEF AskedIn, AskedBy
<1>9. /\ asked \in Seq(Rows) /\ Tidy(asked) /\ AskedIn(asked, t) /\ ~AnsweredIn(asked, t)
      /\ AskedBy(asked, t, turn[t].since) /\ AskedBy(asked, t, stamp) /\ StampedBy(asked, clock)
      /\ \A s \in Turns \ {t} : NothingOf(s, messages, asked)
  BY <1>1, <1>2, <1>5, <1>6, <1>7, <1>8, Appended, AppendedInOrder
<1>10. messages \o <<question1, answer>> = Append(asked, answer)
  BY <1>2, <1>6
<1>11. /\ Append(asked, answer) \in Seq(Rows) /\ Tidy(Append(asked, answer))
       /\ AskedIn(Append(asked, answer), t) /\ AnsweredIn(Append(asked, answer), t)
       /\ StampedBy(Append(asked, answer), clock)
       /\ \A s \in Turns \ {t} : NothingOf(s, messages, Append(asked, answer))
  <2> HIDE DEF asked
  <2>1. \A s \in Turns \ {t} : NothingOf(s, asked, Append(asked, answer))
    BY <1>6, <1>9, Appended
  <2>2. \A s \in Turns \ {t} : NothingOf(s, messages, Append(asked, answer))
    BY <1>9, <2>1 DEF NothingOf
  <2>3. Tidy(Append(asked, answer))
    BY <1>6, <1>9, AppendedInOrder
  <2> QED
    BY <1>2, <1>5, <1>6, <1>9, <2>2, <2>3, Appended
<1>12. /\ messages' \in Seq(Rows) /\ Tidy(messages') /\ StampedBy(messages', clock)
       /\ new.stage = "raised" => ~AskedIn(messages', t) /\ ~AnsweredIn(messages', t)
       /\ new.stage = "generate" => /\ AskedIn(messages', t) /\ ~AnsweredIn(messages', t)
                                    /\ AskedBy(messages', t, new.since)
       /\ new.stage = "done" => AskedIn(messages', t) /\ AnsweredIn(messages', t)
       /\ \A s \in Turns \ {t} : NothingOf(s, messages, messages')
  <2>1. CASE new.stage = "raised"
    BY <1>1, <1>2, <1>3, <2>1 DEF NothingOf
  <2>2. CASE new.stage = "generate"
    BY <1>3, <1>9, <2>2 DEF question1
  <2>3. CASE new.stage = "done"
    <3>1. messages' = Append(asked, answer)
      BY <1>3, <1>10, <2>3 DEF question1, answer
    <3> HIDE DEF asked
    <3> QED
      BY <1>11, <2>3, <3>1
  <2> QED
    BY <1>3, <2>1, <2>2, <2>3
<1>13. ChatTypes'
  BY <1>1, <1>4, <1>12 DEF ChatInv, ChatTypes
<1>14. \A s \in Turns \ {t} : TurnInv(s)'
  BY <1>1, <1>4, <1>12, OthersKeepTurnInv
<1>15. TurnInv(t)'
  <2>1. new.since <= clock' /\ new.stage # "recorded"
    BY <1>1, <1>2, <1>3
  <2> QED
    BY <1>1, <1>3, <1>4, <1>12, <2>1, AssistantAssumption DEF TurnInv, At
<1> QED
  BY <1>1, <1>12, <1>13, <1>14, <1>15 DEF ChatInv

LEMMA SaveInv ==
  ASSUME ChatInv, NEW t \in Turns, Save(t)
  PROVE  ChatInv'
<1>1. /\ At(t, "save") /\ writer = Nobody /\ clock \in Nat /\ lost \subseteq Turns
      /\ turn[t] \in TurnRecords /\ UNCHANGED <<exists, title, writer, lost, clock>>
  BY DEF Save, ChatInv, ChatTypes
<1>2. CASE ~exists
  <2>1. PICK new \in TurnRecords :
          turn' = [turn EXCEPT ![t] = new] /\ new.stage = "raised" /\ new.since = 0
    BY <1>2, Finished DEF Save, TurnStages
  <2>2. ~AnsweredIn(messages, t) /\ ~AskedIn(messages, t) /\ messages' = messages
    BY <1>2, EmptySeq DEF Save, ChatInv, AskedIn, AnsweredIn
  <2>3. UNCHANGED <<exists, title, messages, clock>> /\ writer' = writer /\ lost' = lost
    BY <1>1, <2>2
  <2>4. new.since <= clock /\ turn[t].stage = "save"
    BY <1>1, <2>1 DEF At
  <2> QED
    BY <1>1, <1>2, <2>1, <2>2, <2>3, <2>4, MovesInv
<1>3. CASE exists
  <2>1. PICK new \in TurnRecords :
          turn' = [turn EXCEPT ![t] = new] /\ new.stage = "done" /\ new.since = 0
    BY <1>3, Finished DEF Save, TurnStages
  <2>2. PICK stamp \in Stamps(t) :
          messages' = Append(messages, Message("assistant", t, turn[t].status, stamp))
    BY <1>3 DEF Save
  <2> DEFINE answer == Message("assistant", t, turn[t].status, stamp)
  <2>3. stamp \in Nat /\ turn[t].since <= stamp /\ stamp <= clock
    BY <1>1, <2>2 DEF Stamps, TurnRecords
  <2>4. /\ answer \in Rows /\ answer.role = "assistant" /\ answer.turn = t /\ answer.at = stamp
    BY <1>1, <2>3 DEF Rows, Message, TurnRecords
  <2>5. /\ turn'[t] = new /\ \A s \in Turns \ {t} : turn'[s] = turn[s]
        /\ turn' \in [Turns -> TurnRecords]
    BY <2>1 DEF ChatInv, ChatTypes
  <2>6. /\ messages \in Seq(Rows) /\ Tidy(messages) /\ StampedBy(messages, clock)
        /\ AskedIn(messages, t) /\ ~AnsweredIn(messages, t)
        /\ AskedBy(messages, t, turn[t].since)
    BY <1>1, <1>3 DEF ChatInv, ChatTypes, TurnInv, At
  <2>7. AskedBy(messages, t, stamp)
    <3>1. \A i \in DOMAIN messages : messages[i].at \in Nat
      <4>1. \A i \in DOMAIN messages : messages[i] \in Rows
        BY <2>6, LenProperties, ElementOfSeq
      <4> QED
        BY <4>1 DEF Rows
    <3>2. turn[t].since \in Nat
      BY <1>1 DEF TurnRecords
    <3> QED
      BY <2>3, <2>6, <3>1, <3>2 DEF AskedBy
  <2> HIDE DEF answer
  <2>8. /\ messages' \in Seq(Rows) /\ Tidy(messages') /\ AskedIn(messages', t)
        /\ AnsweredIn(messages', t) /\ StampedBy(messages', clock)
        /\ \A s \in Turns \ {t} : NothingOf(s, messages, messages')
    <3>1. messages' = Append(messages, answer)
      BY <2>2 DEF answer
    <3>2. Tidy(messages')
      BY <2>4, <2>6, <2>7, <3>1, AppendedInOrder
    <3> QED
      BY <1>1, <2>3, <2>4, <2>6, <3>1, <3>2, Appended
  <2>9. ChatTypes'
    BY <1>1, <2>5, <2>8 DEF ChatInv, ChatTypes
  <2>10. \A s \in Turns \ {t} : TurnInv(s)'
    BY <1>1, <2>5, <2>8, OthersKeepTurnInv
  <2>11. TurnInv(t)'
    BY <1>1, <2>1, <2>5, <2>8, AssistantAssumption DEF TurnInv, At
  <2> QED
    BY <1>1, <1>3, <2>8, <2>9, <2>10, <2>11 DEF ChatInv
<1> QED
  BY <1>2, <1>3

LEMMA ChatOthersInv ==
  ASSUME ChatInv, ChatOthers
  PROVE  ChatInv'
<1>1. CASE RenameConversation
  BY <1>1 DEF RenameConversation, ChatInv, ChatTypes, TurnInv, At, Titles
<1>2. CASE DeleteConversation
  <2>1. <<>> \in Seq(Rows) /\ DOMAIN <<>> = {}
    BY EmptySeq, LenProperties
  <2>2. /\ Tidy(<<>>) /\ StampedBy(<<>>, clock)
        /\ \A t \in Turns : ~AskedIn(<<>>, t) /\ ~AnsweredIn(<<>>, t) /\ AskedBy(<<>>, t, turn[t].since)
    BY <2>1 DEF Tidy, StampedBy, AskedIn, AnsweredIn, AskedBy
  <2>3. ChatTypes'
    BY <1>2, <2>1 DEF DeleteConversation, ChatInv, ChatTypes
  <2>4. \A t \in Turns : TurnInv(t)'
    BY <1>2, <2>2 DEF DeleteConversation, ChatInv, TurnInv, At
  <2> QED
    BY <1>2, <2>2, <2>3, <2>4 DEF DeleteConversation, ChatInv
<1>3. CASE Tick
  <2>1. clock \in Nat /\ clock' = clock + 1
    BY <1>3 DEF Tick, ChatInv, ChatTypes
  <2>2. StampedBy(messages', clock')
    <3>1. \A i \in DOMAIN messages : messages[i].at \in Nat
      <4>1. \A i \in DOMAIN messages : messages[i] \in Rows
        BY LenProperties, ElementOfSeq DEF ChatInv, ChatTypes
      <4> QED
        BY <4>1 DEF Rows
    <3> QED
      BY <1>3, <2>1, <3>1 DEF Tick, ChatInv, StampedBy
  <2>3. \A t \in Turns : TurnInv(t)'
    <3>1. \A t \in Turns : turn[t].since \in Nat
      BY DEF ChatInv, ChatTypes, TurnRecords
    <3>2. \A t \in Turns : turn[t].since <= clock'
      BY <2>1, <3>1 DEF ChatInv, TurnInv
    <3> QED
      BY <1>3, <3>2 DEF Tick, ChatInv, TurnInv, At
  <2>4. ChatTypes' /\ Tidy(messages')
    BY <1>3, <2>1 DEF Tick, ChatInv, ChatTypes
  <2> QED
    BY <1>3, <2>2, <2>3, <2>4 DEF Tick, ChatInv
<1> QED
  BY <1>1, <1>2, <1>3 DEF ChatOthers

LEMMA ChatCrashInv ==
  ASSUME ChatInv, ChatCrash
  PROVE  ChatInv'
<1>1. \A t \in Turns :
        /\ turn'[t] \in TurnRecords
        /\ turn[t].stage \in {"new", "done", "raised"} => turn'[t] = turn[t]
        /\ turn[t].stage \notin {"new", "done", "raised"} => turn'[t].stage = "raised" /\ turn'[t].since = 0
        /\ turn[t].stage \in {"generate", "generating", "save"} => t \in lost'
  BY IdleTurn DEF ChatCrash, Unsaved, ChatInv, ChatTypes, TurnRecords, TurnStages
<1>2. ChatTypes'
  BY <1>1 DEF ChatCrash, Unsaved, ChatInv, ChatTypes
<1>3. \A t \in Turns : TurnInv(t)'
  <2> SUFFICES ASSUME NEW t \in Turns PROVE TurnInv(t)'
    OBVIOUS
  <2>1. TurnInv(t) /\ clock \in Nat /\ UNCHANGED <<exists, messages, clock>>
    BY DEF ChatInv, ChatTypes, ChatCrash
  <2>2. turn'[t].since <= clock' /\ turn'[t].stage \notin {"recorded", "generate", "generating", "save"}
    BY <1>1, <2>1 DEF TurnInv
  <2>3. writer' = Nobody /\ lost \subseteq lost'
    BY DEF ChatCrash
  <2> QED
    BY <1>1, <2>1, <2>2, <2>3, AssistantAssumption DEF TurnInv, At
<1>4. UNCHANGED <<exists, messages, clock>> /\ writer' = Nobody
  BY DEF ChatCrash
<1> QED
  BY <1>2, <1>3, <1>4 DEF ChatInv
-----------------------------------------------------------------------------
(* The insights *)

InsightStatuses == {"NOT_GENERATED", "READY", "FAILED", "MODEL_UNAVAILABLE", "NO_EVIDENCE",
                    "GENERATING"}
Results == {"none", "READY", "FAILED", "MODEL_UNAVAILABLE"}
DocumentStages == {"document", "document generating", "document save"}
FolderStages == {"folder marked", "folder generating", "folder save"}
Over == {"new", "done", "raised"}
InsightStages ==
  Over \cup DocumentStages \cup FolderStages
    \cup {"hashed", "listed", "some chunks", "no chunks", "folder", "no evidence"}

Hashes == Texts \cup {None}
InsightRows == [status : InsightStatuses, hash : Hashes, hashed : Nat, read : Nat, made : SUBSET Nat]
InsightRequests == [stage : InsightStages, hash : Hashes, hashed : Nat, read : Nat,
                    made : SUBSET Nat, result : Results]

InsightTypes ==
  /\ indexed \in BOOLEAN
  /\ texts \in Seq(Texts) /\ revision \in 1..MaxRevision
  /\ document \in InsightRows /\ folder \in InsightRows
  /\ request \in [Requests -> InsightRequests]

(* Of a row or a request: it speaks of revisions that there were; its hash is that of the text
   it was hashed at; its evidence was read at that revision or at a later one. *)
Bounded(x) == x.hashed \in 0..revision /\ x.read \in 0..revision /\ x.made \subseteq 1..revision
HashKnown(x) == x.hashed \in 1..revision /\ x.hash = texts[x.hashed]
Traced(x) == HashKnown(x) /\ x.read \in 1..revision /\ x.hashed <= x.read

(* A document's summary is made from what was read, a folder's from that and from others. *)
FromDocument(x) == Traced(x) /\ x.made = {x.read}
FromFolder(x) == Traced(x) /\ (texts[x.read] \in Blank \/ x.read \in x.made)

SoundRequest(q) ==
  /\ Bounded(q)
  /\ q.stage \notin Over => HashKnown(q)
  /\ q.stage \in DocumentStages => FromDocument(q)
  /\ q.stage \in FolderStages => FromFolder(q)
  /\ q.stage \in {"document save", "folder save"} => q.result # "none"

SoundDocument(row) ==
  /\ Bounded(row)
  /\ row.status = "READY" => FromDocument(row)
  /\ row.made # {} => row.status = "READY"

SoundFolder(row) ==
  /\ Bounded(row)
  /\ row.status = "READY" => FromFolder(row)
  /\ row.made # {} => row.status = "READY"

InsightInv ==
  /\ InsightTypes
  /\ SoundDocument(document)
  /\ SoundFolder(folder)
  /\ ~indexed => document = NoInsight /\ folder = NoInsight
  /\ \A r \in Requests : SoundRequest(request[r])

LEMMA RevisionsAreNumbers ==
  ASSUME InsightInv
  PROVE  /\ revision \in Nat /\ revision \in 1..revision /\ DOMAIN texts = 1..revision
         /\ Current \in Texts /\ Current = texts[revision]
<1>1. revision \in 1..MaxRevision /\ MaxRevision \in Nat /\ texts \in Seq(Texts)
  BY AssistantAssumption DEF InsightInv, InsightTypes
<1>2. DOMAIN texts = 1..revision
  BY <1>1, LenProperties DEF revision
<1>3. revision \in Nat /\ revision \in 1..revision
  BY <1>1
<1> QED
  BY <1>1, <1>2, <1>3, ElementOfSeq DEF Current, revision

(* A row that says no more than its status, and a request that is over, are sound. *)
LEMMA RowSound ==
  ASSUME revision \in Nat, NEW status \in InsightStatuses \ {"READY"}, NEW hash \in Hashes
  PROVE  /\ Row(status, hash) \in InsightRows
         /\ SoundDocument(Row(status, hash)) /\ SoundFolder(Row(status, hash))
BY DEF Row, InsightRows, SoundDocument, SoundFolder, Bounded

LEMMA SummaryRow ==
  ASSUME NEW hash \in Hashes, NEW hashed \in Nat, NEW read \in Nat, NEW made \in SUBSET Nat
  PROVE  /\ Summary(hash, hashed, read, made) \in InsightRows
         /\ Summary(hash, hashed, read, made).status = "READY"
         /\ Summary(hash, hashed, read, made).hash = hash
         /\ Summary(hash, hashed, read, made).hashed = hashed
         /\ Summary(hash, hashed, read, made).read = read
         /\ Summary(hash, hashed, read, made).made = made
<1>1. "READY" \in InsightStatuses
  BY DEF InsightStatuses
<1> QED
  BY <1>1 DEF Summary, InsightRows

LEMMA SummaryOf ==
  ASSUME NEW q \in InsightRequests,
         NEW row, row = Summary(q.hash, q.hashed, q.read, q.made)
  PROVE  /\ row \in InsightRows /\ row.status = "READY"
         /\ row.hash = q.hash /\ row.hashed = q.hashed /\ row.read = q.read /\ row.made = q.made
<1>1. /\ q.hash \in Hashes /\ q.hashed \in Nat /\ q.read \in Nat
      /\ q.made \in SUBSET Nat
  BY DEF InsightRequests
<1>2. row \in InsightRows /\ row.made = q.made
  BY <1>1, SummaryRow
<1> QED
  BY <1>2 DEF Summary

LEMMA NoInsightSound ==
  ASSUME revision \in Nat
  PROVE  NoInsight \in InsightRows /\ SoundDocument(NoInsight) /\ SoundFolder(NoInsight)
BY RowSound DEF NoInsight, InsightStatuses, Hashes

LEMMA FreshSound ==
  ASSUME revision \in Nat, NEW stage \in Over
  PROVE  /\ [Fresh EXCEPT !.stage = stage] \in InsightRequests
         /\ [Fresh EXCEPT !.stage = stage].stage = stage
         /\ SoundRequest([Fresh EXCEPT !.stage = stage])
<1> DEFINE q == [Fresh EXCEPT !.stage = stage]
<1>1. q = [stage |-> stage, hash |-> None, hashed |-> 0, read |-> 0, made |-> {}, result |-> "none"]
  BY DEF Fresh
<1> HIDE DEF q
<1>2. stage \in InsightStages /\ None \in Hashes /\ "none" \in Results
  BY DEF InsightStages, Hashes, Results
<1>3. q \in InsightRequests /\ q.stage = stage
  BY <1>1, <1>2 DEF InsightRequests
<1>4. Bounded(q)
  BY <1>1 DEF Bounded
<1>5. stage \notin DocumentStages /\ stage \notin FolderStages
  BY DEF Over, DocumentStages, FolderStages
<1>6. SoundRequest(q)
  BY <1>3, <1>4, <1>5 DEF SoundRequest, DocumentStages, FolderStages
<1> QED
  BY <1>3, <1>6 DEF q

LEMMA FreshIsOver == Fresh = [Fresh EXCEPT !.stage = "new"] /\ "new" \in Over
BY DEF Fresh, Over

LEMMA InsightInitInv ==
  ASSUME InsightInit
  PROVE  InsightInv
<1>1. PICK text \in Texts : texts = <<text>>
  BY DEF InsightInit
<1>2. texts \in Seq(Texts) /\ revision = 1 /\ revision \in Nat /\ revision \in 1..MaxRevision
  BY <1>1, AssistantAssumption DEF revision
<1>3. NoInsight \in InsightRows /\ SoundDocument(NoInsight) /\ SoundFolder(NoInsight)
  BY <1>2, NoInsightSound
<1>4. Fresh \in InsightRequests /\ SoundRequest(Fresh)
  BY <1>2, FreshSound, FreshIsOver
<1>5. InsightTypes
  BY <1>2, <1>3, <1>4 DEF InsightInit, InsightTypes
<1> QED
  BY <1>3, <1>4, <1>5 DEF InsightInit, InsightInv

(* What is sound stays so while the texts do, and when there is one more. *)
LEMMA SameTexts ==
  ASSUME texts' = texts, NEW x
  PROVE  /\ SoundRequest(x) => SoundRequest(x)'
         /\ SoundDocument(x) => SoundDocument(x)'
         /\ SoundFolder(x) => SoundFolder(x)'
         /\ revision' = revision
<1>1. revision' = revision
  BY DEF revision
<1>2. /\ Bounded(x) => Bounded(x)'
      /\ HashKnown(x) => HashKnown(x)'
  BY <1>1 DEF Bounded, HashKnown
<1>3. Traced(x) => Traced(x)'
  BY <1>1, <1>2 DEF Traced
<1>4. /\ FromDocument(x) => FromDocument(x)'
      /\ FromFolder(x) => FromFolder(x)'
  BY <1>3 DEF FromDocument, FromFolder
<1> QED
  BY <1>1, <1>2, <1>4 DEF SoundRequest, SoundDocument, SoundFolder

LEMMA MoreTexts ==
  ASSUME InsightInv, NEW text \in Texts, texts' = Append(texts, text), NEW x
  PROVE  /\ SoundRequest(x) => SoundRequest(x)'
         /\ SoundDocument(x) => SoundDocument(x)'
         /\ SoundFolder(x) => SoundFolder(x)'
         /\ revision' = revision + 1
<1>1. texts \in Seq(Texts) /\ revision \in Nat
  BY RevisionsAreNumbers DEF InsightInv, InsightTypes
<1>2. revision' = revision + 1 /\ \A i \in 1..revision : texts'[i] = texts[i]
  BY <1>1, AppendProperties DEF revision
<1>3. 0..revision \subseteq 0..revision' /\ 1..revision \subseteq 1..revision'
  BY <1>1, <1>2
<1>4. /\ Bounded(x) => Bounded(x)'
      /\ HashKnown(x) => HashKnown(x)'
  BY <1>2, <1>3 DEF Bounded, HashKnown
<1>5. Traced(x) => Traced(x)' /\ texts'[x.read] = texts[x.read]
  BY <1>2, <1>3, <1>4 DEF Traced
<1>6. /\ FromDocument(x) => FromDocument(x)'
      /\ FromFolder(x) => FromFolder(x)'
  BY <1>5 DEF FromDocument, FromFolder
<1> QED
  BY <1>2, <1>4, <1>6 DEF SoundRequest, SoundDocument, SoundFolder

(* A request that moves, and may replace a row. *)
LEMMA RequestStepInv ==
  ASSUME InsightInv, NEW r \in Requests, UNCHANGED <<indexed, texts>>,
         NEW new \in InsightRequests, request' = [request EXCEPT ![r] = new], SoundRequest(new),
         document' \in InsightRows, SoundDocument(document'),
         folder' \in InsightRows, SoundFolder(folder'),
         ~indexed => UNCHANGED <<document, folder>>
  PROVE  InsightInv'
<1>1. /\ request'[r] = new /\ \A s \in Requests \ {r} : request'[s] = request[s]
      /\ request' \in [Requests -> InsightRequests]
  BY DEF InsightInv, InsightTypes
<1>2. revision' = revision
  BY SameTexts
<1>3. InsightTypes'
  BY <1>1, <1>2 DEF InsightInv, InsightTypes
<1>4. ASSUME NEW s \in Requests PROVE SoundRequest(request[s])'
  <2>1. SoundRequest(request'[s])
    BY <1>1 DEF InsightInv
  <2>2. \A x : SoundRequest(x) => SoundRequest(x)'
    BY SameTexts
  <2> QED
    BY <2>1, <2>2 DEF SoundRequest, Bounded, HashKnown, Traced, FromDocument, FromFolder, revision
<1>5. SoundDocument(document)' /\ SoundFolder(folder)'
  BY DEF SoundDocument, SoundFolder, Bounded, HashKnown, Traced, FromDocument, FromFolder, revision
<1>6. (~indexed => document = NoInsight /\ folder = NoInsight)'
  BY DEF InsightInv
<1> QED
  BY <1>3, <1>4, <1>5, <1>6 DEF InsightInv

LEMMA RequestMovesInv ==
  ASSUME InsightInv, NEW r \in Requests, UNCHANGED <<indexed, texts, document, folder>>,
         NEW new \in InsightRequests, request' = [request EXCEPT ![r] = new], SoundRequest(new)
  PROVE  InsightInv'
BY RequestStepInv DEF InsightInv, InsightTypes

(* A request that is over, and may have replaced a row. *)
LEMMA LeaveInv ==
  ASSUME InsightInv, NEW r \in Requests, UNCHANGED <<indexed, texts>>,
         NEW stage \in {"done", "raised"}, Leave(r, stage),
         document' \in InsightRows, SoundDocument(document'),
         folder' \in InsightRows, SoundFolder(folder'),
         ~indexed => UNCHANGED <<document, folder>>
  PROVE  InsightInv'
<1> DEFINE new == [Fresh EXCEPT !.stage = stage]
<1>1. new \in InsightRequests /\ SoundRequest(new)
  BY RevisionsAreNumbers, FreshSound DEF Over
<1>2. request' = [request EXCEPT ![r] = new]
  BY DEF Leave
<1> HIDE DEF new
<1> QED
  BY <1>1, <1>2, RequestStepInv

(* A request that leaves with nothing. *)
LEMMA LeaveOnlyInv ==
  ASSUME InsightInv, NEW r \in Requests, UNCHANGED <<indexed, texts, document, folder>>,
         NEW stage \in {"done", "raised"}, Leave(r, stage)
  PROVE  InsightInv'
BY LeaveInv DEF InsightInv, InsightTypes

(* Both kinds of request begin with the hash. *)
LEMMA ReadFileInv ==
  ASSUME InsightInv, NEW r \in Requests, ReadFile(r) \/ ListFiles(r)
  PROVE  InsightInv'
<1>1. PICK stage \in {"hashed", "listed", "raised"} :
        request' = [request EXCEPT ![r].stage = stage, ![r].hash = Current, ![r].hashed = revision]
  <2>1. CASE indexed
    BY <2>1 DEF ReadFile, ListFiles
  <2>2. CASE ~indexed
    BY <2>2 DEF ReadFile, ListFiles
  <2> QED
    BY <2>1, <2>2
<1>2. /\ request[r] \in InsightRequests /\ SoundRequest(request[r])
      /\ UNCHANGED <<indexed, texts, document, folder>>
  BY DEF InsightInv, InsightTypes, ReadFile, ListFiles
<1>3. /\ revision \in Nat /\ revision \in 1..revision /\ revision \in 0..revision
      /\ Current \in Hashes /\ Current = texts[revision]
  BY RevisionsAreNumbers DEF Hashes
<1> DEFINE new == [request[r] EXCEPT !.stage = stage, !.hash = Current, !.hashed = revision]
<1>4. /\ new \in InsightRequests /\ new.stage = stage /\ new.hash = Current /\ new.hashed = revision
      /\ new.read = request[r].read /\ new.made = request[r].made
      /\ request' = [request EXCEPT ![r] = new]
  BY <1>1, <1>2, <1>3 DEF InsightInv, InsightTypes, InsightRequests, InsightStages, Over
<1>5. SoundRequest(new)
  <2> HIDE DEF new
  <2>1. Bounded(new)
    BY <1>2, <1>3, <1>4 DEF SoundRequest, Bounded
  <2>2. HashKnown(new)
    BY <1>3, <1>4 DEF HashKnown
  <2>3. new.stage \notin DocumentStages /\ new.stage \notin FolderStages
    BY <1>4 DEF DocumentStages, FolderStages
  <2> QED
    BY <2>1, <2>2, <2>3 DEF SoundRequest, DocumentStages, FolderStages
<1> QED
  BY <1>2, <1>4, <1>5, RequestMovesInv

(* A request goes from one stage to a later one and takes nothing new with it. *)
LEMMA MoveInv ==
  ASSUME InsightInv, NEW r \in Requests, UNCHANGED <<indexed, texts, document, folder>>,
         NEW stage \in InsightStages, Move(r, stage),
         \/ request[r].stage \notin Over
              /\ stage \in {"some chunks", "no chunks", "folder", "no evidence"}
         \/ Stage(r, "document") /\ stage = "document generating"
         \/ Stage(r, "folder marked") /\ stage = "folder generating"
  PROVE  InsightInv'
<1> DEFINE new == [request[r] EXCEPT !.stage = stage]
<1>1. /\ new \in InsightRequests /\ new.stage = stage
      /\ new.hash = request[r].hash /\ new.hashed = request[r].hashed
      /\ new.read = request[r].read /\ new.made = request[r].made
      /\ request' = [request EXCEPT ![r] = new]
  BY DEF Move, InsightInv, InsightTypes, InsightRequests
<1>2. SoundRequest(request[r])
  BY DEF InsightInv
<1>3. /\ Bounded(new) /\ (HashKnown(request[r]) => HashKnown(new))
      /\ FromDocument(request[r]) => FromDocument(new)
      /\ FromFolder(request[r]) => FromFolder(new)
  <2> HIDE DEF new
  <2> QED
    BY <1>1, <1>2 DEF SoundRequest, Bounded, HashKnown, Traced, FromDocument, FromFolder
<1>4. SoundRequest(new)
  <2> HIDE DEF new
  <2> QED
    BY <1>1, <1>2, <1>3 DEF SoundRequest, Stage, Over, DocumentStages, FolderStages
<1> QED
  BY <1>1, <1>4, RequestMovesInv

LEMMA CountsChunks ==
  ASSUME NEW r \in Requests, CountChunks(r) \/ ReadFolder(r)
  PROVE  \E stage \in {"some chunks", "no chunks", "folder", "no evidence", "done"} :
           IF stage = "done" THEN Leave(r, stage) ELSE Move(r, stage)
<1>1. CASE CountChunks(r) /\ indexed /\ Current \notin Blank
  BY <1>1 DEF CountChunks
<1>2. CASE CountChunks(r) /\ ~(indexed /\ Current \notin Blank)
  BY <1>2 DEF CountChunks
<1>3. CASE ReadFolder(r)
  BY <1>3 DEF ReadFolder
<1> QED
  BY <1>1, <1>2, <1>3

LEMMA CountChunksInv ==
  ASSUME InsightInv, NEW r \in Requests, CountChunks(r) \/ ReadFolder(r)
  PROVE  InsightInv'
<1>1. PICK stage \in {"some chunks", "no chunks", "folder", "no evidence", "done"} :
        IF stage = "done" THEN Leave(r, stage) ELSE Move(r, stage)
  BY CountsChunks
<1>2. /\ UNCHANGED <<indexed, texts, document, folder>> /\ request[r].stage \notin Over
  BY DEF CountChunks, ReadFolder, Stage, Over
<1>3. {"some chunks", "no chunks", "folder", "no evidence"} \subseteq InsightStages
  BY DEF InsightStages
<1>4. CASE stage = "done"
  BY <1>1, <1>2, <1>4, LeaveOnlyInv
<1>5. CASE stage # "done"
  BY <1>1, <1>2, <1>3, <1>5, MoveInv
<1> QED
  BY <1>4, <1>5

LEMMA AskForInv ==
  ASSUME InsightInv, NEW r \in Requests,
         ReadGone(r) \/ AskForDocument(r) \/ MarkGone(r) \/ AskForFolder(r)
  PROVE  InsightInv'
<1>1. {"document generating", "folder generating"} \subseteq InsightStages
  BY DEF InsightStages, DocumentStages, FolderStages
<1>2. CASE ReadGone(r) \/ MarkGone(r)
  BY <1>2, LeaveOnlyInv DEF ReadGone, MarkGone
<1>3. CASE AskForDocument(r)
  BY <1>1, <1>3, MoveInv, LeaveOnlyInv DEF AskForDocument
<1>4. CASE AskForFolder(r)
  BY <1>1, <1>4, MoveInv, LeaveOnlyInv DEF AskForFolder
<1> QED
  BY <1>2, <1>3, <1>4

LEMMA ReadChunksInv ==
  ASSUME InsightInv, NEW r \in Requests, ReadChunks(r)
  PROVE  InsightInv'
<1>1. /\ indexed /\ UNCHANGED <<indexed, texts, folder>>
      /\ request[r] \in InsightRequests /\ SoundRequest(request[r]) /\ HashKnown(request[r])
      /\ folder \in InsightRows /\ SoundFolder(folder)
      /\ document \in InsightRows /\ SoundDocument(document)
  BY DEF ReadChunks, InsightInv, InsightTypes, SoundRequest, Stage, Over
<1>2. /\ revision \in Nat /\ revision \in 1..revision /\ revision \in 0..revision
      /\ request[r].hashed \in 1..revision /\ request[r].hashed <= revision
      /\ request[r].hashed \in 0..revision
  BY <1>1, RevisionsAreNumbers DEF HashKnown
<1>3. CASE Current \in Blank
  <2> DEFINE row == Summary(request[r].hash, request[r].hashed, revision, {revision})
  <2>1. /\ request[r].hash \in Hashes /\ request[r].hashed \in Nat /\ {revision} \in SUBSET Nat
        /\ revision \in Nat
    BY <1>1, <1>2 DEF InsightRequests
  <2>2. /\ row \in InsightRows /\ row.status = "READY" /\ row.hash = request[r].hash
        /\ row.hashed = request[r].hashed /\ row.read = revision /\ row.made = {revision}
    BY <2>1, SummaryRow
  <2> HIDE DEF row
  <2>3. SoundDocument(row)
    BY <1>1, <1>2, <2>2 DEF SoundDocument, FromDocument, Traced, HashKnown, Bounded
  <2>4. document' = row /\ Leave(r, "done")
    BY <1>3 DEF ReadChunks, row
  <2> QED
    BY <1>1, <2>2, <2>3, <2>4, LeaveInv
<1>4. CASE Current \notin Blank
  <2> DEFINE new == [request[r] EXCEPT !.stage = "document", !.read = revision, !.made = {revision}]
  <2>1. /\ new \in InsightRequests /\ new.stage = "document" /\ new.made = {revision}
        /\ new.read = revision /\ new.hash = request[r].hash /\ new.hashed = request[r].hashed
        /\ request' = [request EXCEPT ![r] = new] /\ UNCHANGED document
    BY <1>1, <1>2, <1>4
       DEF ReadChunks, InsightInv, InsightTypes, InsightRequests, InsightStages, DocumentStages
  <2>2. SoundRequest(new)
    <3> HIDE DEF new
    <3> QED
      BY <1>1, <1>2, <2>1
         DEF SoundRequest, FromDocument, Traced, HashKnown, Bounded, DocumentStages, FolderStages
  <2> QED
    BY <1>1, <2>1, <2>2, RequestMovesInv
<1> QED
  BY <1>3, <1>4

LEMMA CalledInv ==
  ASSUME InsightInv, NEW r \in Requests, DocumentCalled(r) \/ FolderCalled(r)
  PROVE  InsightInv'
<1>1. PICK stage \in {"document save", "folder save"}, result \in Results \ {"none"} :
        /\ request' = [request EXCEPT ![r].stage = stage, ![r].result = result]
        /\ stage = "document save" => Stage(r, "document generating")
        /\ stage = "folder save" => Stage(r, "folder generating")
  <2>1. ASSUME NEW outcome \in Outcomes, NEW parsed \in [Outcomes -> SUBSET (Results \ {"none"})]
        PROVE  ResultsOf(outcome, parsed[outcome]) \subseteq Results \ {"none"}
    BY DEF ResultsOf, Results, Outcomes
  <2>2. CASE DocumentCalled(r)
    <3>1. [o \in Outcomes |-> DocumentParsed(o)] \in [Outcomes -> SUBSET (Results \ {"none"})]
      BY DEF DocumentParsed, Results
    <3> QED
      BY <2>1, <2>2, <3>1 DEF DocumentCalled, Called
  <2>3. CASE FolderCalled(r)
    <3>1. [o \in Outcomes |-> FolderParsed(o)] \in [Outcomes -> SUBSET (Results \ {"none"})]
      BY DEF FolderParsed, Results
    <3> QED
      BY <2>1, <2>3, <3>1 DEF FolderCalled, Called
  <2> QED
    BY <2>2, <2>3
<1>2. /\ UNCHANGED <<indexed, texts, document, folder>>
      /\ request[r] \in InsightRequests /\ SoundRequest(request[r])
  BY DEF DocumentCalled, FolderCalled, Called, InsightInv, InsightTypes
<1> DEFINE new == [request[r] EXCEPT !.stage = stage, !.result = result]
<1>3. /\ new \in InsightRequests /\ new.stage = stage /\ new.result = result
      /\ new.hash = request[r].hash /\ new.hashed = request[r].hashed
      /\ new.read = request[r].read /\ new.made = request[r].made
      /\ request' = [request EXCEPT ![r] = new]
  BY <1>1, <1>2
     DEF InsightInv, InsightTypes, InsightRequests, InsightStages, DocumentStages, FolderStages
<1>4. /\ stage = "document save" => FromDocument(request[r])
      /\ stage = "folder save" => FromFolder(request[r])
      /\ HashKnown(request[r]) /\ Bounded(request[r])
  BY <1>1, <1>2 DEF SoundRequest, Stage, Over, DocumentStages, FolderStages
<1>5. SoundRequest(new)
  <2> HIDE DEF new
  <2>1. /\ stage = "document save" => FromDocument(new)
        /\ stage = "folder save" => FromFolder(new)
        /\ HashKnown(new) /\ Bounded(new)
    BY <1>3, <1>4 DEF FromDocument, FromFolder, Traced, HashKnown, Bounded
  <2> QED
    BY <1>3, <2>1 DEF SoundRequest, DocumentStages, FolderStages
<1> QED
  BY <1>2, <1>3, <1>5, RequestMovesInv

(* What a request stores. *)
LEMMA StoredRow ==
  ASSUME InsightInv, NEW r \in Requests, request[r].stage \in {"document save", "folder save"}
  PROVE  /\ Stored(r) \in InsightRows
         /\ Stage(r, "document save") => SoundDocument(Stored(r))
         /\ Stage(r, "folder save") => SoundFolder(Stored(r))
<1>1. /\ request[r] \in InsightRequests /\ SoundRequest(request[r])
      /\ request[r].result \in Results \ {"none"} /\ revision \in Nat
  BY RevisionsAreNumbers DEF InsightInv, InsightTypes, SoundRequest, InsightRequests
<1>2. Results \ {"none"} \subseteq InsightStatuses
  BY DEF Results, InsightStatuses
<1>3. CASE request[r].result = "READY"
  <2>1. Stored(r) = Summary(request[r].hash, request[r].hashed, request[r].read, request[r].made)
    BY <1>3 DEF Stored
  <2>2. /\ Stored(r) \in InsightRows /\ Stored(r).status = "READY"
        /\ Stored(r).hash = request[r].hash /\ Stored(r).hashed = request[r].hashed
        /\ Stored(r).read = request[r].read /\ Stored(r).made = request[r].made
    BY <1>1, <2>1, SummaryOf
  <2>3. /\ Stage(r, "document save") => FromDocument(Stored(r))
        /\ Stage(r, "folder save") => FromFolder(Stored(r))
        /\ Bounded(Stored(r)) /\ Stored(r).status = "READY"
    <3>1. /\ FromDocument(request[r]) => FromDocument(Stored(r))
          /\ FromFolder(request[r]) => FromFolder(Stored(r))
          /\ Bounded(request[r]) => Bounded(Stored(r))
      BY <2>2 DEF FromDocument, FromFolder, Traced, HashKnown, Bounded
    <3> QED
      BY <1>1, <2>2, <3>1 DEF SoundRequest, Stage, DocumentStages, FolderStages
  <2> QED
    BY <2>2, <2>3 DEF SoundDocument, SoundFolder
<1>4. CASE request[r].result # "READY"
  <2>1. Stored(r) = Row(request[r].result, request[r].hash)
    BY <1>4 DEF Stored
  <2>2. request[r].result \in InsightStatuses \ {"READY"} /\ request[r].hash \in Hashes
    BY <1>1, <1>2, <1>4 DEF InsightRequests
  <2> QED
    BY <1>1, <2>1, <2>2, RowSound
<1> QED
  BY <1>3, <1>4

(* A request that stores a row, or finds its file gone, and is over. *)
LEMMA SaveInsightInv ==
  ASSUME InsightInv, NEW r \in Requests, SaveDocument(r) \/ SaveFolder(r)
  PROVE  InsightInv'
<1>1. /\ document \in InsightRows /\ SoundDocument(document) /\ folder \in InsightRows
      /\ SoundFolder(folder) /\ UNCHANGED <<indexed, texts>>
  BY DEF InsightInv, InsightTypes, SaveDocument, SaveFolder
<1>2. CASE ~indexed
  BY <1>2, LeaveOnlyInv DEF SaveDocument, SaveFolder
<1>3. CASE indexed /\ SaveDocument(r)
  <2>1. document' = Stored(r) /\ folder' = folder /\ Leave(r, "done") /\ Stage(r, "document save")
    BY <1>3 DEF SaveDocument
  <2>2. Stored(r) \in InsightRows /\ SoundDocument(Stored(r))
    BY <2>1, StoredRow DEF Stage
  <2> QED
    BY <1>1, <1>3, <2>1, <2>2, LeaveInv
<1>4. CASE indexed /\ SaveFolder(r)
  <2>1. folder' = Stored(r) /\ document' = document /\ Leave(r, "done") /\ Stage(r, "folder save")
    BY <1>4 DEF SaveFolder
  <2>2. Stored(r) \in InsightRows /\ SoundFolder(Stored(r))
    BY <2>1, StoredRow DEF Stage
  <2> QED
    BY <1>1, <1>4, <2>1, <2>2, LeaveInv
<1> QED
  BY <1>2, <1>3, <1>4

LEMMA ReplaceInv ==
  ASSUME InsightInv, NEW r \in Requests, NoEvidence(r) \/ NotReady(r)
  PROVE  InsightInv'
<1>1. PICK status \in {"NO_EVIDENCE", "MODEL_UNAVAILABLE"}, stage \in {"no evidence", "folder"} :
        Replace(r, stage, status)
  BY DEF NoEvidence, NotReady
<1>2. /\ document \in InsightRows /\ SoundDocument(document) /\ UNCHANGED <<indexed, texts, document>>
      /\ request[r].hash \in Hashes /\ revision \in Nat
  BY <1>1, RevisionsAreNumbers DEF Replace, InsightInv, InsightTypes, InsightRequests
<1>3. Row(status, request[r].hash) \in InsightRows /\ SoundFolder(Row(status, request[r].hash))
  BY <1>2, RowSound DEF InsightStatuses
<1>4. CASE indexed
  <2>1. folder' = Row(status, request[r].hash) /\ Leave(r, "done")
    BY <1>1, <1>4 DEF Replace
  <2> QED
    BY <1>2, <1>3, <1>4, <2>1, LeaveInv
<1>5. CASE ~indexed
  BY <1>1, <1>2, <1>5, LeaveOnlyInv DEF Replace
<1> QED
  BY <1>4, <1>5

LEMMA MarkInv ==
  ASSUME InsightInv, NEW r \in Requests, Mark(r)
  PROVE  InsightInv'
<1> DEFINE evidence == (IF Current \in Blank THEN {} ELSE {revision}) \cup document.made
           row == Row("GENERATING", request[r].hash)
           stage == IF evidence = {} THEN "no evidence" ELSE "folder marked"
           new == [request[r] EXCEPT !.made = evidence, !.read = revision, !.stage = stage]
<1>1. /\ request[r] \in InsightRequests /\ SoundRequest(request[r]) /\ HashKnown(request[r])
      /\ document \in InsightRows /\ SoundDocument(document)
      /\ indexed /\ folder' = row /\ UNCHANGED <<indexed, texts, document>>
  BY DEF Mark, InsightInv, InsightTypes, SoundRequest, Stage, Over
<1>2. /\ revision \in Nat /\ revision \in 1..revision /\ revision \in 0..revision
      /\ Current = texts[revision]
      /\ request[r].hashed \in 1..revision /\ request[r].hashed <= revision
      /\ request[r].hashed \in 0..revision
  BY <1>1, RevisionsAreNumbers DEF HashKnown
<1>3. row \in InsightRows /\ SoundFolder(row)
  BY <1>1, <1>2, RowSound DEF InsightStatuses, InsightRequests
<1>4. evidence \subseteq 1..revision /\ (Current \in Blank \/ revision \in evidence)
  BY <1>1, <1>2 DEF SoundDocument, Bounded
<1>5. stage \in {"no evidence", "folder marked"} /\ evidence \in SUBSET Nat
  BY <1>4
<1>6. request' = [request EXCEPT ![r].made = evidence, ![r].read = revision, ![r].stage = stage]
  BY DEF Mark
<1> HIDE DEF row, evidence, stage
<1>7. /\ new \in InsightRequests /\ new.stage = stage /\ new.made = evidence /\ new.read = revision
      /\ new.hash = request[r].hash /\ new.hashed = request[r].hashed
      /\ request' = [request EXCEPT ![r] = new]
  BY <1>1, <1>2, <1>5, <1>6
     DEF InsightInv, InsightTypes, InsightRequests, InsightStages, FolderStages
<1>8. SoundRequest(new)
  <2> HIDE DEF new
  <2>1. Bounded(new) /\ HashKnown(new)
    BY <1>1, <1>2, <1>4, <1>7 DEF Bounded, HashKnown
  <2>2. FromFolder(new)
    BY <1>2, <1>4, <1>7, <2>1 DEF FromFolder, Traced
  <2> QED
    BY <1>5, <1>7, <2>1, <2>2 DEF SoundRequest, DocumentStages
<1> HIDE DEF new
<1> QED
  BY <1>1, <1>3, <1>7, <1>8, RequestStepInv

LEMMA AgainInv ==
  ASSUME InsightInv, NEW r \in Requests, Again(r)
  PROVE  InsightInv'
<1>1. Fresh \in InsightRequests /\ SoundRequest(Fresh)
  BY RevisionsAreNumbers, FreshSound, FreshIsOver
<1> QED
  BY <1>1, RequestMovesInv DEF Again

LEMMA InsightOthersInv ==
  ASSUME InsightInv, InsightOthers
  PROVE  InsightInv'
<1>1. revision \in Nat /\ revision \in 1..MaxRevision /\ MaxRevision \in Nat /\ texts \in Seq(Texts)
  BY RevisionsAreNumbers, AssistantAssumption DEF InsightInv, InsightTypes
<1>2. CASE Reindex
  <2>1. PICK text \in Texts : texts' = Append(texts, text)
    BY <1>2 DEF Reindex
  <2>2. UNCHANGED <<indexed, document, folder, request>> /\ revision < MaxRevision
    BY <1>2 DEF Reindex
  <2>3. /\ \A x : SoundRequest(x) => SoundRequest(x)'
        /\ \A x : SoundDocument(x) => SoundDocument(x)'
        /\ \A x : SoundFolder(x) => SoundFolder(x)'
        /\ revision' = revision + 1
    BY <2>1, MoreTexts
  <2>4. revision' \in 1..MaxRevision /\ texts' \in Seq(Texts)
    BY <1>1, <2>1, <2>2, <2>3, AppendProperties
  <2>5. InsightTypes'
    BY <2>2, <2>4 DEF InsightInv, InsightTypes
  <2>6. SoundDocument(document)'
    BY <2>2, <2>3 DEF InsightInv, SoundDocument, Bounded, FromDocument, Traced, HashKnown
  <2>7. SoundFolder(folder)'
    BY <2>2, <2>3 DEF InsightInv, SoundFolder, Bounded, FromFolder, Traced, HashKnown
  <2>8. ASSUME NEW r \in Requests PROVE SoundRequest(request[r])'
    <3>1. request'[r] = request[r] /\ SoundRequest(request[r])
      BY <2>2 DEF InsightInv
    <3> QED
      BY <2>3, <3>1 DEF SoundRequest, Bounded, FromDocument, FromFolder, Traced, HashKnown
  <2> QED
    BY <2>2, <2>5, <2>6, <2>7, <2>8 DEF InsightInv
<1>3. CASE RemoveFolder
  <2>1. /\ UNCHANGED <<texts, request>> /\ document' = NoInsight /\ folder' = NoInsight
        /\ indexed' = FALSE
    BY <1>3 DEF RemoveFolder
  <2>2. NoInsight \in InsightRows /\ SoundDocument(NoInsight) /\ SoundFolder(NoInsight)
    BY <1>1, NoInsightSound
  <2>3. revision' = revision
    BY <2>1 DEF revision
  <2>4. InsightTypes'
    BY <2>1, <2>2, <2>3 DEF InsightInv, InsightTypes
  <2>5. SoundDocument(document)' /\ SoundFolder(folder)'
    BY <2>1, <2>2, <2>3
       DEF SoundDocument, SoundFolder, Bounded, FromDocument, FromFolder, Traced, HashKnown
  <2>6. ASSUME NEW r \in Requests PROVE SoundRequest(request[r])'
    BY <2>1, <2>3
       DEF InsightInv, SoundRequest, Bounded, FromDocument, FromFolder, Traced, HashKnown
  <2> QED
    BY <2>1, <2>4, <2>5, <2>6 DEF InsightInv
<1> QED
  BY <1>2, <1>3 DEF InsightOthers

(* When nothing is done but to the requests, and they begin anew or stay. *)
LEMMA InsightRestInv ==
  ASSUME InsightInv, UNCHANGED <<indexed, texts, document, folder>>,
         request' \in {request, [r \in Requests |-> Fresh]}
  PROVE  InsightInv'
<1>1. Fresh \in InsightRequests /\ SoundRequest(Fresh) /\ revision' = revision
  BY RevisionsAreNumbers, FreshSound, FreshIsOver DEF revision
<1>2. InsightTypes'
  BY <1>1 DEF InsightInv, InsightTypes
<1>3. SoundDocument(document)' /\ SoundFolder(folder)'
  BY <1>1
     DEF InsightInv, SoundDocument, SoundFolder, Bounded, FromDocument, FromFolder, Traced, HashKnown
<1>4. ASSUME NEW r \in Requests PROVE SoundRequest(request[r])'
  <2>1. SoundRequest(request'[r])
    BY <1>1 DEF InsightInv
  <2> QED
    BY <1>1, <2>1
       DEF SoundRequest, Bounded, FromDocument, FromFolder, Traced, HashKnown
<1>5. (~indexed => document = NoInsight /\ folder = NoInsight)'
  BY DEF InsightInv
<1> QED
  BY <1>2, <1>3, <1>4, <1>5 DEF InsightInv
-----------------------------------------------------------------------------
(* The questions *)

QuestionStages == {"new", "rows", "answer", "generating", "ended", "raised"}
QuestionKinds == {"none", "ask", "compare", "synthesize"}
QuestionModels == Models \cup {DefaultModel, "none"}
QuestionRecords == [stage : QuestionStages, kind : QuestionKinds, began : Nat, there : BOOLEAN,
              evidence : SUBSET Nat, status : AnswerStatuses, model : QuestionModels,
              wanted : QuestionModels]

AnswerTypes ==
  /\ question \in [Askers -> QuestionRecords]
  /\ selected \in Models \cup {DefaultModel}

(* The evidence of a question is of the time since it was asked; a file that was not there, or
   went, leaves none; and the model is asked about evidence only. *)
Grounded(q) ==
  /\ q.evidence \subseteq q.began..revision
  /\ ~q.there => q.evidence = {}
  /\ q.stage = "generating" => q.evidence # {}
  /\ q.stage = "ended" /\ q.status # "NO_EVIDENCE" => q.evidence # {}

AnswerInv == AnswerTypes /\ \A a \in Askers : Grounded(question[a])

LEMMA AnswerInitInv ==
  ASSUME InsightInit, AnswerInit
  PROVE  AnswerInv
<1>1. Unasked \in QuestionRecords /\ Grounded(Unasked)
  BY DEF Unasked, QuestionRecords, QuestionStages, QuestionKinds, QuestionModels, AnswerStatuses, Grounded
<1> QED
  BY <1>1 DEF AnswerInit, AnswerInv, AnswerTypes

(* One question moves. *)
LEMMA QuestionMovesInv ==
  ASSUME AnswerInv, NEW a \in Askers, UNCHANGED <<revision, selected>>, NEW new \in QuestionRecords,
         question' = [question EXCEPT ![a] = new], Grounded(new)
  PROVE  AnswerInv'
<1>1. question'[a] = new /\ \A b \in Askers \ {a} : question'[b] = question[b]
  BY DEF AnswerInv, AnswerTypes
<1> QED
  BY <1>1 DEF AnswerInv, AnswerTypes, Grounded

LEMMA BeginsInv ==
  ASSUME InsightInv, AnswerInv, NEW a \in Askers, Search(a) \/ ReadTexts(a)
  PROVE  AnswerInv'
<1>1. PICK kind \in QuestionKinds, stage \in {"answer", "raised", "rows"}, evidence \in {Text, {}} :
        Begins(a, kind, stage, evidence)
  BY DEF Search, ReadTexts, QuestionKinds
<1> DEFINE new == [Unasked EXCEPT !.stage = stage, !.kind = kind, !.began = revision,
                                 !.there = indexed, !.evidence = evidence, !.wanted = selected]
<1>2. /\ revision \in Nat
      /\ indexed \in BOOLEAN /\ selected \in QuestionModels
  BY RevisionsAreNumbers DEF InsightInv, InsightTypes, AnswerInv, AnswerTypes, QuestionModels
<1>3. evidence \subseteq {revision} /\ (~indexed => evidence = {})
  BY <1>1 DEF Text
<1>4. new \in QuestionRecords
  BY <1>2, <1>3
     DEF Unasked, QuestionRecords, QuestionStages, QuestionKinds, QuestionModels, AnswerStatuses
<1>5. new.stage = stage /\ new.began = revision /\ new.there = indexed /\ new.evidence = evidence
  BY DEF Unasked
<1>6. revision \in revision..revision
  BY <1>2
<1>7. Grounded(new)
  <2> HIDE DEF new
  <2> QED
    BY <1>3, <1>5, <1>6 DEF Grounded
<1>8. question' = [question EXCEPT ![a] = new] /\ UNCHANGED <<revision, selected>>
  BY <1>1 DEF Begins, insightVars, revision
<1> QED
  BY <1>4, <1>7, <1>8, QuestionMovesInv

LEMMA ReadRowsInv ==
  ASSUME AnswerInv, NEW a \in Askers, ReadRows(a)
  PROVE  AnswerInv'
<1>1. question[a] \in QuestionRecords /\ Grounded(question[a]) /\ UNCHANGED <<revision, selected>>
  BY DEF AnswerInv, AnswerTypes, ReadRows, insightVars, revision
<1>2. CASE indexed
  <2> DEFINE new == [question[a] EXCEPT !.stage = "answer"]
  <2>1. new \in QuestionRecords /\ question' = [question EXCEPT ![a] = new]
    BY <1>1, <1>2 DEF ReadRows, To, AnswerInv, AnswerTypes, QuestionRecords, QuestionStages
  <2>2. Grounded(new)
    BY <1>1 DEF Grounded, QuestionRecords
  <2> QED
    BY <1>1, <2>1, <2>2, QuestionMovesInv
<1>3. CASE ~indexed
  <2> DEFINE stage == IF question[a].kind = "compare" THEN "raised" ELSE "answer"
             new == [question[a] EXCEPT !.evidence = {}, !.there = FALSE, !.stage = stage]
  <2>1. /\ new \in QuestionRecords /\ question' = [question EXCEPT ![a] = new]
        /\ new.evidence = {} /\ new.stage \in {"raised", "answer"}
    BY <1>1, <1>3 DEF ReadRows, AnswerInv, AnswerTypes, QuestionRecords, QuestionStages
  <2>2. Grounded(new)
    <3> HIDE DEF new
    <3> QED
      BY <2>1 DEF Grounded
  <2> QED
    BY <1>1, <2>1, <2>2, QuestionMovesInv
<1> QED
  BY <1>2, <1>3

LEMMA AskModelInv ==
  ASSUME AnswerInv, NEW a \in Askers, AskModel(a) \/ NoPrompt(a) \/ ModelAnswers(a)
  PROVE  AnswerInv'
<1>1. /\ question[a] \in QuestionRecords /\ Grounded(question[a]) /\ UNCHANGED <<revision, selected>>
  BY DEF AnswerInv, AnswerTypes, AskModel, NoPrompt, ModelAnswers, insightVars, revision
<1>2. CASE To(a, "generating") /\ question[a].evidence # {}
  <2> DEFINE new == [question[a] EXCEPT !.stage = "generating"]
  <2>1. new \in QuestionRecords /\ question' = [question EXCEPT ![a] = new]
    BY <1>1, <1>2 DEF To, AnswerInv, AnswerTypes, QuestionRecords, QuestionStages
  <2>2. Grounded(new)
    BY <1>1, <1>2 DEF Grounded, QuestionRecords
  <2> QED
    BY <1>1, <2>1, <2>2, QuestionMovesInv
<1>3. ASSUME NEW status \in AnswerStatuses, NEW model \in QuestionModels,
             question' = [question EXCEPT ![a].stage = "ended", ![a].status = status,
                                          ![a].model = model],
             status # "NO_EVIDENCE" => question[a].evidence # {}
      PROVE  AnswerInv'
  <2> DEFINE new == [question[a] EXCEPT !.stage = "ended", !.status = status, !.model = model]
  <2>1. /\ new \in QuestionRecords /\ question' = [question EXCEPT ![a] = new]
        /\ new.stage = "ended" /\ new.status = status /\ new.evidence = question[a].evidence
        /\ new.began = question[a].began /\ new.there = question[a].there
    BY <1>1, <1>3 DEF AnswerInv, AnswerTypes, QuestionRecords, QuestionStages
  <2>2. Grounded(new)
    <3> HIDE DEF new
    <3> QED
      BY <1>1, <1>3, <2>1 DEF Grounded
  <2> QED
    BY <1>1, <2>1, <2>2, QuestionMovesInv
<1>4. CASE NoPrompt(a) \/ (AskModel(a) /\ ~To(a, "generating"))
  <2>1. PICK status \in {"NO_EVIDENCE", "GENERATION_FAILED"} :
          Ends(a, status) /\ (status # "NO_EVIDENCE" => question[a].evidence # {})
    BY <1>4 DEF AskModel, NoPrompt
  <2>2. question' = [question EXCEPT ![a].stage = "ended", ![a].status = status,
                                     ![a].model = question[a].model]
    BY <1>1, <2>1 DEF Ends, AnswerInv, AnswerTypes, QuestionRecords
  <2>3. question[a].model \in QuestionModels /\ status \in AnswerStatuses
    BY <1>1 DEF QuestionRecords, AnswerStatuses
  <2> QED
    BY <1>3, <2>1, <2>2, <2>3
<1>5. CASE ModelAnswers(a)
  <2>1. PICK status \in AnswerStatuses :
          question' = [question EXCEPT ![a].stage = "ended", ![a].status = status,
                                       ![a].model = DefaultModel]
    <3>1. \A outcome \in Outcomes : Statuses[outcome] \subseteq AnswerStatuses
      BY DEF Outcomes, Statuses, AnswerStatuses
    <3> QED
      BY <1>5, <3>1 DEF ModelAnswers
  <2>2. question[a].evidence # {} /\ DefaultModel \in QuestionModels
    <3>1. question[a].stage = "generating"
      BY <1>5 DEF ModelAnswers, On
    <3> QED
      BY <1>1, <3>1 DEF Grounded, QuestionModels
  <2> QED
    BY <1>3, <2>1, <2>2
<1>6. AskModel(a) /\ To(a, "generating") => question[a].evidence # {}
  <2>1. ASSUME Ends(a, "NO_EVIDENCE"), To(a, "generating") PROVE FALSE
    BY <1>1, <2>1 DEF Ends, To, AnswerInv, AnswerTypes, QuestionRecords
  <2> QED
    BY <2>1 DEF AskModel
<1> QED
  BY <1>2, <1>4, <1>5, <1>6

(* The others of this world only let time pass for a question. *)
LEMMA AnswerOthersInv ==
  ASSUME InsightInv, AnswerInv, UNCHANGED answerVars,
         revision' \in Nat, revision <= revision'
  PROVE  AnswerInv'
<1>1. ASSUME NEW a \in Askers PROVE Grounded(question[a])'
  <2>1. question[a] \in QuestionRecords /\ Grounded(question[a]) /\ question' = question
    BY DEF AnswerInv, AnswerTypes, answerVars
  <2>2. question[a].began..revision \subseteq question[a].began..revision'
    <3>1. question[a].began \in Nat /\ revision \in Nat
      BY <2>1, RevisionsAreNumbers DEF QuestionRecords
    <3> QED
      BY <3>1
  <2> QED
    BY <2>1, <2>2 DEF Grounded
<1> QED
  BY <1>1 DEF AnswerInv, AnswerTypes, answerVars

LEMMA AnswersLostInv ==
  ASSUME AnswersLost, UNCHANGED revision
  PROVE  AnswerInv'
<1>1. Unasked \in QuestionRecords /\ Unasked.evidence = {} /\ Unasked.stage = "new"
  BY DEF Unasked, QuestionRecords, QuestionStages, QuestionKinds, QuestionModels, AnswerStatuses
<1> QED
  BY <1>1 DEF AnswersLost, AnswerInv, AnswerTypes, Grounded
-----------------------------------------------------------------------------
(* The slot *)

(* Who is talking to the model. *)
Talkers ==
  {t \in Turns : At(t, "generating")}
    \cup {r \in Requests : request[r].stage \in {"document generating", "folder generating"}}
    \cup {a \in Askers : On(a, "generating")}

SlotInv ==
  /\ IsFiniteSet(holders)
  /\ Cardinality(holders) <= Capacity
  /\ holders = Talkers

(* Everybody has a place of their own, so that one who moves is alone in moving. *)
SlotTypes ==
  /\ turn \in [Turns -> TurnRecords]
  /\ request \in [Requests -> InsightRequests]
  /\ question \in [Askers -> QuestionRecords]

LEMMA AcquireKeepsCapacity ==
  ASSUME SlotInv, NEW x, Acquire(x)
  PROVE  IsFiniteSet(holders') /\ Cardinality(holders') <= Capacity
<1>1. Cardinality(holders) \in Nat /\ Cardinality(holders) < Capacity
  BY CapacityAssumption, FS_CardinalityType DEF SlotInv, Acquire, Busy
<1>2. IsFiniteSet(holders') /\ Cardinality(holders') \in {Cardinality(holders), Cardinality(holders) + 1}
  BY FS_AddElement DEF SlotInv, Acquire
<1> QED
  BY <1>1, <1>2, CapacityAssumption

LEMMA ReleaseKeepsCapacity ==
  ASSUME SlotInv, NEW x, Release(x)
  PROVE  IsFiniteSet(holders') /\ Cardinality(holders') <= Capacity
<1>1. IsFiniteSet(holders') /\ Cardinality(holders') <= Cardinality(holders)
  BY FS_Subset DEF SlotInv, Release
<1>2. Cardinality(holders) \in Nat /\ Cardinality(holders') \in Nat
  BY <1>1, FS_CardinalityType DEF SlotInv
<1> QED
  BY <1>1, <1>2, CapacityAssumption DEF SlotInv

(* A turn, a request or a question that moves: it is in the slot after if and only if it talks
   to the model. *)
LEMMA TurnSlot ==
  ASSUME SlotTypes, SlotInv, NEW t \in Turns, UNCHANGED <<request, question>>,
         NEW new, turn' = [turn EXCEPT ![t] = new],
         \/ Acquire(t) /\ new.stage = "generating"
         \/ Release(t) /\ new.stage # "generating"
         \/ holders' = holders /\ (At(t, "generating") <=> new.stage = "generating")
  PROVE  SlotInv'
<1>1. turn'[t] = new /\ \A s \in Turns \ {t} : turn'[s] = turn[s]
  BY DEF SlotTypes
<1>2. t \notin Requests /\ t \notin Askers
  BY AssistantAssumption
<1>3. holders' = Talkers'
  BY <1>1, <1>2 DEF SlotInv, Talkers, At, On, Acquire, Release
<1>4. IsFiniteSet(holders') /\ Cardinality(holders') <= Capacity
  BY AcquireKeepsCapacity, ReleaseKeepsCapacity DEF SlotInv
<1> QED
  BY <1>3, <1>4 DEF SlotInv

LEMMA RequestSlot ==
  ASSUME SlotTypes, SlotInv, NEW r \in Requests, UNCHANGED <<turn, question>>,
         NEW new, request' = [request EXCEPT ![r] = new],
         \/ Acquire(r) /\ new.stage \in {"document generating", "folder generating"}
         \/ Release(r) /\ new.stage \notin {"document generating", "folder generating"}
         \/ /\ holders' = holders
            /\ request[r].stage \in {"document generating", "folder generating"}
                 <=> new.stage \in {"document generating", "folder generating"}
  PROVE  SlotInv'
<1>1. request'[r] = new /\ \A s \in Requests \ {r} : request'[s] = request[s]
  BY DEF SlotTypes
<1>2. r \notin Turns /\ r \notin Askers
  BY AssistantAssumption
<1>3. holders' = Talkers'
  BY <1>1, <1>2 DEF SlotInv, Talkers, At, On, Acquire, Release
<1>4. IsFiniteSet(holders') /\ Cardinality(holders') <= Capacity
  BY AcquireKeepsCapacity, ReleaseKeepsCapacity DEF SlotInv
<1> QED
  BY <1>3, <1>4 DEF SlotInv

LEMMA QuestionSlot ==
  ASSUME SlotTypes, SlotInv, NEW a \in Askers, UNCHANGED <<turn, request>>,
         NEW new, question' = [question EXCEPT ![a] = new],
         \/ Acquire(a) /\ new.stage = "generating"
         \/ Release(a) /\ new.stage # "generating"
         \/ holders' = holders /\ (On(a, "generating") <=> new.stage = "generating")
  PROVE  SlotInv'
<1>1. question'[a] = new /\ \A b \in Askers \ {a} : question'[b] = question[b]
  BY DEF SlotTypes
<1>2. a \notin Turns /\ a \notin Requests
  BY AssistantAssumption
<1>3. holders' = Talkers'
  BY <1>1, <1>2 DEF SlotInv, Talkers, At, On, Acquire, Release
<1>4. IsFiniteSet(holders') /\ Cardinality(holders') <= Capacity
  BY AcquireKeepsCapacity, ReleaseKeepsCapacity DEF SlotInv
<1> QED
  BY <1>3, <1>4 DEF SlotInv

(* Every action is one of those moves. *)
LEMMA ChatSlot ==
  ASSUME SlotTypes, SlotInv, NEW t \in Turns, ChatActions(t), UNCHANGED <<insightVars, answerVars>>
  PROVE  SlotInv'
<1>1. turn[t] \in TurnRecords /\ UNCHANGED <<request, question>>
  BY DEF SlotTypes, insightVars, answerVars
<1>2. \/ /\ holders' = holders /\ ~At(t, "generating")
         /\ \E new : turn' = [turn EXCEPT ![t] = new] /\ new.stage # "generating"
      \/ Acquire(t) /\ Goto(t, "generating")
      \/ Release(t) /\ \E status : Conclude(t, status)
  <2>1. ASSUME NEW stage, stage # "generating", Goto(t, stage)
        PROVE  \E new : turn' = [turn EXCEPT ![t] = new] /\ new.stage # "generating"
    <3>1. /\ turn' = [turn EXCEPT ![t] = [turn[t] EXCEPT !.stage = stage]]
          /\ [turn[t] EXCEPT !.stage = stage].stage = stage
      BY <1>1, <2>1 DEF Goto, SlotTypes, TurnRecords
    <3> QED
      BY <2>1, <3>1
  <2>2. ASSUME NEW stage \in TurnStages \ {"generating"}, Finish(t, stage)
        PROVE  \E new : turn' = [turn EXCEPT ![t] = new] /\ new.stage # "generating"
    BY <2>2, Finished
  <2>3. ASSUME NEW status, Conclude(t, status)
        PROVE  \E new : turn' = [turn EXCEPT ![t] = new] /\ new.stage # "generating"
    <3> DEFINE new == [turn[t] EXCEPT !.stage = "save", !.status = status, !.since = clock]
    <3>1. turn' = [turn EXCEPT ![t] = new] /\ new.stage = "save"
      BY <1>1, <2>3 DEF Conclude, SlotTypes, TurnRecords
    <3> QED
      BY <3>1
  <2>4. CASE Look(t)
    <3>1. CASE exists
      <4> DEFINE new == [Idle EXCEPT !.stage = "looked", !.oldTitle = title, !.since = clock]
      <4>1. turn' = [turn EXCEPT ![t] = new] /\ new.stage = "looked"
        BY <2>4, <3>1 DEF Look, Idle
      <4> QED
        BY <2>4, <4>1 DEF Look, At
    <3>2. CASE ~exists
      BY <2>2, <2>4, <3>2 DEF Look, At, TurnStages
    <3> QED
      BY <3>1, <3>2
  <2>5. CASE Record(t)
    <3>1. holders' = holders /\ ~At(t, "generating")
      BY <2>5 DEF Record, At
    <3>2. CASE exists
      <4>1. PICK stamp :
              turn' = [turn EXCEPT ![t].stage = "recorded", ![t].asked = stamp, ![t].since = clock]
        BY <2>5, <3>2 DEF Record
      <4> DEFINE new == [turn[t] EXCEPT !.stage = "recorded", !.asked = stamp, !.since = clock]
      <4>2. turn' = [turn EXCEPT ![t] = new] /\ new.stage = "recorded"
        BY <1>1, <4>1 DEF SlotTypes, TurnRecords
      <4> QED
        BY <3>1, <4>2
    <3>3. CASE ~exists
      BY <2>2, <2>5, <3>1, <3>3 DEF Record, TurnStages
    <3> QED
      BY <3>2, <3>3
  <2>6. CASE ReplyByRule(t)
    BY <2>2, <2>6 DEF ReplyByRule, At, TurnStages
  <2>7. CASE Retrieve(t)
    BY <2>1, <2>2, <2>7 DEF Retrieve, At, TurnStages
  <2>8. CASE Generate(t)
    BY <2>3, <2>8 DEF Generate, At
  <2>9. CASE Generated(t)
    BY <2>9 DEF Generated
  <2>10. CASE Save(t)
    BY <2>2, <2>10 DEF Save, At, TurnStages
  <2>11. CASE Locked(t)
    BY <2>2, <2>11 DEF Locked, At, TurnStages
  <2> QED
    BY <2>4, <2>5, <2>6, <2>7, <2>8, <2>9, <2>10, <2>11 DEF ChatActions, ChatStep
<1>3. ASSUME Goto(t, "generating")
      PROVE  \E new : turn' = [turn EXCEPT ![t] = new] /\ new.stage = "generating"
  <2>1. /\ turn' = [turn EXCEPT ![t] = [turn[t] EXCEPT !.stage = "generating"]]
        /\ [turn[t] EXCEPT !.stage = "generating"].stage = "generating"
    BY <1>1, <1>3 DEF Goto, SlotTypes, TurnRecords
  <2> QED
    BY <2>1
<1>4. ASSUME NEW status, Conclude(t, status)
      PROVE  \E new : turn' = [turn EXCEPT ![t] = new] /\ new.stage = "save"
  <2> DEFINE new == [turn[t] EXCEPT !.stage = "save", !.status = status, !.since = clock]
  <2>1. turn' = [turn EXCEPT ![t] = new] /\ new.stage = "save"
    BY <1>1, <1>4 DEF Conclude, SlotTypes, TurnRecords
  <2> QED
    BY <2>1
<1> QED
  BY <1>1, <1>2, <1>3, <1>4, TurnSlot

LEMMA InsightSlot ==
  ASSUME SlotTypes, SlotInv, NEW r \in Requests, InsightActions(r), UNCHANGED <<chatVars, answerVars>>
  PROVE  SlotInv'
<1> DEFINE Calling == {"document generating", "folder generating"}
<1>1. request[r] \in InsightRequests /\ UNCHANGED <<turn, question>>
  BY DEF SlotTypes, chatVars, answerVars
<1>2. ASSUME NEW stage, Move(r, stage)
      PROVE  \E new : request' = [request EXCEPT ![r] = new] /\ new.stage = stage
  <2>1. /\ request' = [request EXCEPT ![r] = [request[r] EXCEPT !.stage = stage]]
        /\ [request[r] EXCEPT !.stage = stage].stage = stage
    BY <1>1, <1>2 DEF Move, SlotTypes, InsightRequests
  <2> QED
    BY <2>1
<1>3. ASSUME holders' = holders, request[r].stage \notin Calling,
             NEW new, request' = [request EXCEPT ![r] = new], new.stage \notin Calling
      PROVE  SlotInv'
  BY <1>1, <1>3, RequestSlot
<1>4. ASSUME holders' = holders, request[r].stage \notin Calling,
             NEW stage \in InsightStages \ Calling, Move(r, stage)
      PROVE  SlotInv'
  BY <1>2, <1>3, <1>4
<1>5. ASSUME holders' = holders, request[r].stage \notin Calling,
              NEW stage \in {"done", "raised"}, Leave(r, stage)
       PROVE  SlotInv'
  <2> DEFINE new == [Fresh EXCEPT !.stage = stage]
  <2>1. request' = [request EXCEPT ![r] = new] /\ new.stage = stage
    BY <1>5 DEF Leave, Fresh
  <2> QED
    BY <1>3, <1>5, <2>1
<1>6. CASE ReadGone(r) \/ MarkGone(r) \/ SaveDocument(r) \/ SaveFolder(r)
  <2>1. /\ holders' = holders /\ request[r].stage \notin Calling
        /\ \E stage \in {"done", "raised"} : Leave(r, stage)
    BY <1>6 DEF ReadGone, MarkGone, SaveDocument, SaveFolder, Stage
  <2> QED
    BY <1>5, <2>1
<1>7. CASE NoEvidence(r) \/ NotReady(r)
  <2>1. PICK stage \in {"no evidence", "folder"}, status \in {"NO_EVIDENCE", "MODEL_UNAVAILABLE"} :
          Replace(r, stage, status)
    BY <1>7 DEF NoEvidence, NotReady
  <2>2. /\ holders' = holders /\ request[r].stage \notin Calling
        /\ \E next \in {"done", "raised"} : Leave(r, next)
    BY <2>1 DEF Replace, Stage
  <2> QED
    BY <1>5, <2>2
<1>8. CASE AskForDocument(r) \/ AskForFolder(r)
  <2>1. \/ /\ holders' = holders /\ request[r].stage \notin Calling /\ Leave(r, "raised")
        \/ Acquire(r) /\ \E stage \in Calling : Move(r, stage)
    BY <1>8 DEF AskForDocument, AskForFolder, Stage
  <2>2. ASSUME Acquire(r), NEW stage \in Calling, Move(r, stage)
        PROVE  SlotInv'
    BY <1>1, <1>2, <2>2, RequestSlot
  <2> QED
    BY <1>5, <2>1, <2>2
<1>9. CASE DocumentCalled(r) \/ FolderCalled(r)
  <2>1. PICK stage \in {"document save", "folder save"} :
          \E result : request' = [request EXCEPT ![r].stage = stage, ![r].result = result]
    BY <1>9 DEF DocumentCalled, FolderCalled, Called
  <2>2. PICK result : request' = [request EXCEPT ![r].stage = stage, ![r].result = result]
    BY <2>1
  <2>3. Release(r)
    BY <1>9 DEF DocumentCalled, FolderCalled, Called
  <2> DEFINE new == [request[r] EXCEPT !.stage = stage, !.result = result]
  <2>4. request' = [request EXCEPT ![r] = new] /\ new.stage = stage
    BY <1>1, <2>2 DEF SlotTypes, InsightRequests
  <2> QED
    BY <1>1, <2>3, <2>4, RequestSlot
<1>10. CASE ReadChunks(r)
  <2>1. holders' = holders /\ request[r].stage \notin Calling
    BY <1>10 DEF ReadChunks, Stage
  <2>2. CASE Leave(r, "done")
    BY <1>5, <2>1, <2>2
  <2>3. CASE ~Leave(r, "done")
    <3> DEFINE new == [request[r] EXCEPT !.stage = "document", !.read = revision, !.made = {revision}]
    <3>1. request' = [request EXCEPT ![r].stage = "document", ![r].read = revision,
                                     ![r].made = {revision}]
      BY <1>10, <2>3 DEF ReadChunks
    <3>2. request' = [request EXCEPT ![r] = new] /\ new.stage = "document"
      BY <1>1, <3>1 DEF SlotTypes, InsightRequests
    <3> QED
      BY <1>3, <2>1, <3>2
  <2> QED
    BY <2>2, <2>3
<1>11. CASE ReadFile(r) \/ ListFiles(r)
  <2>1. holders' = holders /\ request[r].stage \notin Calling
    BY <1>11 DEF ReadFile, ListFiles, Stage
  <2>2. PICK stage \in {"hashed", "listed", "raised"} :
          request' = [request EXCEPT ![r].stage = stage, ![r].hash = Current, ![r].hashed = revision]
    <3>1. CASE indexed
      BY <1>11, <3>1 DEF ReadFile, ListFiles
    <3>2. CASE ~indexed
      BY <1>11, <3>2 DEF ReadFile, ListFiles
    <3> QED
      BY <3>1, <3>2
  <2> DEFINE new == [request[r] EXCEPT !.stage = stage, !.hash = Current, !.hashed = revision]
  <2>3. request' = [request EXCEPT ![r] = new] /\ new.stage = stage
    BY <1>1, <2>2 DEF SlotTypes, InsightRequests
  <2> QED
    BY <1>3, <2>1, <2>3
<1>12. CASE CountChunks(r) \/ ReadFolder(r)
  <2>1. holders' = holders /\ request[r].stage \notin Calling
    BY <1>12 DEF CountChunks, ReadFolder, Stage
  <2>2. PICK stage \in {"some chunks", "no chunks", "folder", "no evidence", "done"} :
          IF stage = "done" THEN Leave(r, stage) ELSE Move(r, stage)
    BY <1>12, CountsChunks
  <2>3. CASE stage = "done"
    BY <1>5, <2>1, <2>2, <2>3
  <2>4. CASE stage # "done"
    BY <1>4, <2>1, <2>2, <2>4 DEF InsightStages
  <2> QED
    BY <2>3, <2>4
<1>13. CASE Mark(r)
  <2>1. holders' = holders /\ request[r].stage \notin Calling
    BY <1>13 DEF Mark, Stage
  <2> DEFINE evidence == (IF Current \in Blank THEN {} ELSE {revision}) \cup document.made
             stage == IF evidence = {} THEN "no evidence" ELSE "folder marked"
             new == [request[r] EXCEPT !.made = evidence, !.read = revision, !.stage = stage]
  <2>2. request' = [request EXCEPT ![r].made = evidence, ![r].read = revision, ![r].stage = stage]
    BY <1>13 DEF Mark
  <2>3. stage \notin Calling
    OBVIOUS
  <2> HIDE DEF evidence, stage
  <2>4. request' = [request EXCEPT ![r] = new] /\ new.stage = stage
    BY <1>1, <2>2 DEF SlotTypes, InsightRequests
  <2> QED
    BY <1>3, <2>1, <2>3, <2>4
<1>14. CASE Again(r)
  <2>1. /\ holders' = holders /\ request[r].stage \notin Calling
        /\ request' = [request EXCEPT ![r] = Fresh] /\ Fresh.stage = "new"
    BY <1>14 DEF Again, Fresh
  <2> QED
    BY <1>3, <2>1
<1> QED
  BY <1>6, <1>7, <1>8, <1>9, <1>10, <1>11, <1>12, <1>13, <1>14 DEF InsightActions, InsightStep

LEMMA AnswerSlot ==
  ASSUME SlotTypes, SlotInv, NEW a \in Askers, AnswerActions(a), UNCHANGED chatVars
  PROVE  SlotInv'
<1>1. question[a] \in QuestionRecords /\ UNCHANGED <<turn, request>>
  BY DEF SlotTypes, chatVars, AnswerActions, Search, ReadTexts, Begins, AnswerStep, ReadRows, AskModel,
         NoPrompt, ModelAnswers, insightVars
<1>2. CASE Search(a) \/ ReadTexts(a)
  <2>1. PICK kind \in QuestionKinds, stage \in {"answer", "raised", "rows"}, evidence \in {Text, {}} :
          Begins(a, kind, stage, evidence)
    BY <1>2 DEF Search, ReadTexts, QuestionKinds
  <2> DEFINE new == [Unasked EXCEPT !.stage = stage, !.kind = kind, !.began = revision,
                                   !.there = indexed, !.evidence = evidence, !.wanted = selected]
  <2>2. /\ question' = [question EXCEPT ![a] = new] /\ new.stage = stage
        /\ holders' = holders /\ ~On(a, "generating")
    BY <2>1 DEF Begins, Unasked, On
  <2> HIDE DEF new
  <2> QED
    BY <1>1, <2>2, QuestionSlot
<1>3. CASE ReadRows(a)
  <2>1. holders' = holders /\ ~On(a, "generating")
    BY <1>3 DEF ReadRows, On
  <2>2. CASE To(a, "answer")
    <3> DEFINE new == [question[a] EXCEPT !.stage = "answer"]
    <3>1. question' = [question EXCEPT ![a] = new] /\ new.stage = "answer"
      BY <1>1, <2>2 DEF To, SlotTypes, QuestionRecords
    <3> QED
      BY <1>1, <2>1, <3>1, QuestionSlot
  <2>3. CASE ~To(a, "answer")
    <3> DEFINE stage == IF question[a].kind = "compare" THEN "raised" ELSE "answer"
               new == [question[a] EXCEPT !.evidence = {}, !.there = FALSE, !.stage = stage]
    <3>1. question' = [question EXCEPT ![a] = new] /\ new.stage \in {"raised", "answer"}
      BY <1>1, <1>3, <2>3 DEF ReadRows, SlotTypes, QuestionRecords
    <3> HIDE DEF new
    <3> QED
      BY <1>1, <2>1, <3>1, QuestionSlot
  <2> QED
    BY <2>2, <2>3
<1>4. CASE AskModel(a) \/ NoPrompt(a)
  <2>1. ASSUME Acquire(a), To(a, "generating") PROVE SlotInv'
    <3> DEFINE new == [question[a] EXCEPT !.stage = "generating"]
    <3>1. question' = [question EXCEPT ![a] = new] /\ new.stage = "generating"
      BY <1>1, <2>1 DEF To, SlotTypes, QuestionRecords
    <3> QED
      BY <1>1, <2>1, <3>1, QuestionSlot
  <2>2. ASSUME holders' = holders, NEW status, Ends(a, status) PROVE SlotInv'
    <3> DEFINE new == [question[a] EXCEPT !.stage = "ended", !.status = status]
    <3>1. question' = [question EXCEPT ![a] = new] /\ new.stage = "ended"
      BY <1>1, <2>2 DEF Ends, SlotTypes, QuestionRecords
    <3>2. ~On(a, "generating")
      BY <1>4 DEF AskModel, NoPrompt, On
    <3> QED
      BY <1>1, <2>2, <3>1, <3>2, QuestionSlot
  <2> QED
    BY <1>4, <2>1, <2>2 DEF AskModel, NoPrompt
<1>5. CASE ModelAnswers(a)
  <2>1. PICK status :
          question' = [question EXCEPT ![a].stage = "ended", ![a].status = status,
                                       ![a].model = DefaultModel]
    BY <1>5 DEF ModelAnswers
  <2> DEFINE new == [question[a] EXCEPT !.stage = "ended", !.status = status, !.model = DefaultModel]
  <2>2. question' = [question EXCEPT ![a] = new] /\ new.stage = "ended" /\ Release(a)
    BY <1>1, <1>5, <2>1 DEF SlotTypes, QuestionRecords, ModelAnswers
  <2> QED
    BY <1>1, <2>2, QuestionSlot
<1> QED
  BY <1>2, <1>3, <1>4, <1>5 DEF AnswerActions, AnswerStep

LEMMA CrashSlot ==
  ASSUME ChatInv, Crash
  PROVE  SlotInv'
<1>1. \A t \in Turns : turn'[t].stage # "generating"
  BY IdleTurn DEF Crash, ChatCrash, ChatInv, ChatTypes, TurnRecords, TurnStages
<1>2. \A r \in Requests : request'[r].stage = "new"
  BY DEF Crash, InsightCrash, Fresh
<1>3. \A a \in Askers : question'[a].stage = "new"
  BY DEF Crash, AnswersLost, Unasked
<1>4. holders' = {} /\ Talkers' = {}
  BY <1>1, <1>2, <1>3 DEF Crash, Talkers, At, On
<1> QED
  BY <1>4, FS_EmptySet, CapacityAssumption DEF SlotInv
-----------------------------------------------------------------------------
(* The whole *)

AssistantInv == ChatInv /\ InsightInv /\ AnswerInv /\ SlotInv

LEMMA AssistantInitInv ==
  ASSUME Init
  PROVE  AssistantInv
<1>1. ChatInv /\ InsightInv /\ AnswerInv
  BY ChatInitInv, InsightInitInv, AnswerInitInv DEF Init
<1>2. SlotInv
  <2>1. Talkers = {}
    BY DEF Init, ChatInit, Idle, InsightInit, Fresh, AnswerInit, Unasked, Talkers, At, On
  <2> QED
    BY <2>1, FS_EmptySet, CapacityAssumption DEF Init, SlotInit, SlotInv
<1> QED
  BY <1>1, <1>2 DEF AssistantInv

LEMMA AssistantNextInv ==
  ASSUME AssistantInv, [Next]_assistantVars
  PROVE  AssistantInv'
<1>0. /\ ChatInv /\ InsightInv /\ AnswerInv /\ SlotInv
      /\ SlotTypes /\ revision \in Nat
  BY RevisionsAreNumbers
     DEF AssistantInv, SlotTypes, ChatInv, ChatTypes, InsightInv, InsightTypes, AnswerInv, AnswerTypes
<1>1. UNCHANGED chatVars => ChatInv'
  BY <1>0 DEF chatVars, ChatInv, ChatTypes, TurnInv, At
<1>2. UNCHANGED insightVars => InsightInv'
  BY <1>0, InsightRestInv DEF insightVars
<1>3. UNCHANGED <<insightVars, answerVars>> => AnswerInv'
  BY <1>0, AnswerOthersInv DEF insightVars, revision
<1>4. UNCHANGED <<chatVars, insightVars, answerVars, holders>> => SlotInv'
  BY <1>0 DEF chatVars, insightVars, answerVars, SlotInv, Talkers, At, On
<1>5. CASE UNCHANGED assistantVars
  BY <1>1, <1>2, <1>3, <1>4, <1>5 DEF assistantVars, AssistantInv
<1>6. ASSUME NEW t \in Turns, ChatActions(t), UNCHANGED <<insightVars, answerVars>>
      PROVE  AssistantInv'
  <2>1. ChatInv'
    BY <1>0, <1>6, LookInv, RecordInv, RetrieveInv, GenerateInv, SaveInv, LockedInv
       DEF ChatActions, ChatStep
  <2> QED
    BY <1>0, <1>2, <1>3, <1>6, <2>1, ChatSlot DEF AssistantInv
<1>7. CASE ChatOthers /\ UNCHANGED <<insightVars, answerVars>>
  <2>1. UNCHANGED <<turn, holders>>
    BY <1>7 DEF ChatOthers, RenameConversation, DeleteConversation, Tick
  <2>2. SlotInv'
    BY <1>0, <1>7, <2>1 DEF insightVars, answerVars, SlotInv, Talkers, At, On
  <2> QED
    BY <1>0, <1>2, <1>3, <1>7, <2>2, ChatOthersInv DEF AssistantInv
<1>8. ASSUME NEW r \in Requests, InsightActions(r), UNCHANGED <<chatVars, answerVars>>
      PROVE  AssistantInv'
  <2>1. InsightInv'
    BY <1>0, <1>8, ReadFileInv, CountChunksInv, AskForInv, ReadChunksInv, CalledInv, SaveInsightInv,
       ReplaceInv, MarkInv, AgainInv
       DEF InsightActions, InsightStep
  <2>2. UNCHANGED revision
    BY <1>8 DEF InsightActions, InsightStep, ReadFile, ListFiles, CountChunks, ReadFolder, Again,
                ReadChunks, ReadGone, revision, AskForDocument, DocumentCalled, FolderCalled, Called,
                SaveDocument, NoEvidence, NotReady, Replace, Mark, MarkGone, AskForFolder, SaveFolder
  <2>3. AnswerInv'
    BY <1>0, <1>8, <2>2, AnswerOthersInv
  <2> QED
    BY <1>0, <1>1, <1>8, <2>1, <2>3, InsightSlot DEF AssistantInv
<1>9. CASE InsightOthers /\ UNCHANGED <<chatVars, answerVars>>
  <2>1. UNCHANGED <<request, holders>> /\ revision' \in {revision, revision + 1}
    <3>1. CASE Reindex
      BY <1>0, <3>1, MoreTexts DEF Reindex
    <3>2. CASE RemoveFolder
      BY <3>2 DEF RemoveFolder, revision
    <3> QED
      BY <1>9, <3>1, <3>2 DEF InsightOthers
  <2>2. AnswerInv'
    BY <1>0, <1>9, <2>1, AnswerOthersInv
  <2>3. SlotInv'
    BY <1>0, <1>9, <2>1 DEF chatVars, answerVars, SlotInv, Talkers, At, On
  <2> QED
    BY <1>0, <1>1, <1>9, <2>2, <2>3, InsightOthersInv DEF AssistantInv
<1>10. ASSUME NEW a \in Askers, AnswerActions(a), UNCHANGED chatVars
       PROVE  AssistantInv'
  <2>1. AnswerInv'
    BY <1>0, <1>10, BeginsInv, ReadRowsInv, AskModelInv DEF AnswerActions, AnswerStep
  <2>2. UNCHANGED insightVars
    BY <1>10 DEF AnswerActions, AnswerStep, Search, ReadTexts, Begins, ReadRows, AskModel, NoPrompt,
                 ModelAnswers
  <2> QED
    BY <1>0, <1>1, <1>2, <1>10, <2>1, <2>2, AnswerSlot DEF AssistantInv
<1>11. CASE SelectModel /\ UNCHANGED chatVars
  <2>1. UNCHANGED <<insightVars, holders, question>> /\ selected' \in Models
    BY <1>11 DEF SelectModel
  <2>2. AnswerInv'
    BY <1>0, <2>1 DEF insightVars, AnswerInv, AnswerTypes, Grounded, revision
  <2>3. SlotInv'
    BY <1>0, <1>11, <2>1 DEF chatVars, insightVars, SlotInv, Talkers, At, On
  <2> QED
    BY <1>1, <1>2, <1>11, <2>1, <2>2, <2>3 DEF AssistantInv
<1>12. CASE Crash
  <2>1. UNCHANGED <<indexed, texts, document, folder, revision>>
    BY <1>12 DEF Crash, InsightCrash, revision
  <2>2. ChatInv' /\ SlotInv'
    BY <1>0, <1>12, ChatCrashInv, CrashSlot DEF Crash, AssistantInv
  <2>3. InsightInv'
    BY <1>0, <1>12, <2>1, InsightRestInv DEF Crash, InsightCrash, AssistantInv
  <2>4. AnswerInv'
    BY <1>12, <2>1, AnswersLostInv DEF Crash
  <2> QED
    BY <2>2, <2>3, <2>4 DEF AssistantInv
<1> QED
  BY <1>5, <1>6, <1>7, <1>8, <1>9, <1>10, <1>11, <1>12 DEF Next

(* AssistantInv is inductive: where a turn, a request or a question is says what it has stored,
   what it has read and whether it holds the slot. *)
THEOREM AssistantInvariant == Spec => []AssistantInv
BY AssistantInitInv, AssistantNextInv, PTL DEF Spec

(* The types of Chat and Insights: a writer is a request inside its first session, and insights
   do not outlive their folder. *)
THEOREM AssistantTypeCorrect == Spec => []AssistantTypeOK
<1>1. ChatInv => ChatTypeOK
  <2> SUFFICES ASSUME ChatInv PROVE ChatTypeOK
    OBVIOUS
  <2>1. \A i \in DOMAIN messages : messages[i] \in Rows /\ messages[i].at <= clock
    BY LenProperties, ElementOfSeq DEF ChatInv, ChatTypes, StampedBy
  <2>2. \A i \in DOMAIN messages :
          /\ messages[i].role \in {"user", "assistant"} /\ messages[i].turn \in Turns
          /\ messages[i].at \in 0..clock
    BY <2>1 DEF Rows, ChatInv, ChatTypes
  <2> QED
    BY <2>2 DEF ChatInv, ChatTypes, ChatTypeOK, Titles, TurnInv
<1>2. InsightInv => InsightTypeOK
  BY DEF InsightInv, InsightTypes, SoundDocument, SoundFolder, Bounded, InsightTypeOK, InsightRows,
         Hashes
<1> QED
  BY <1>1, <1>2, AssistantInvariant, PTL DEF AssistantInv, AssistantTypeOK

(* An answer is listed after its own question unless both have the same stamp, it is there once,
   and nothing is left of a deleted conversation, however the turns of any number of clients
   interleave with deletions, crashes and the ticks of a clock that is not set back
   (send_message, list_chat_messages). *)
THEOREM AnswersComeInOrder == Spec => []AnswersFollowQuestions
<1>1. ChatInv => AnswersFollowQuestions
  BY DEF ChatInv, AnswersFollowQuestions, MayPrecede, Tidy, IsQuestion
<1> QED
  BY <1>1, AssistantInvariant, PTL DEF AssistantInv

(* Every stored question has been answered, will be, or lost its answer after its commit: a
   turn that fails before leaves no trace. *)
THEOREM NoQuestionForgotten == Spec => []QuestionsAccountedFor
<1>1. ChatInv => QuestionsAccountedFor
  BY DEF ChatInv, TurnInv, QuestionsAccountedFor, Asked, Answered, AskedIn, AnsweredIn,
         IsQuestion, IsAnswer, Unsaved, At
<1> QED
  BY <1>1, AssistantInvariant, PTL DEF AssistantInv

(* A summary shown as current was made from the current text, unless its request read another
   one after the hash, and the text has come back since (is_cached_insight_current). *)
THEOREM ShownSummariesAreTrue == Spec => []SummariesAreTrue
<1>1. InsightInv => SummariesAreTrue
  <2> SUFFICES ASSUME InsightInv PROVE SummariesAreTrue
    OBVIOUS
  <2>1. ASSUME NEW x, Traced(x), x.hash = Current, texts[x.read] # Current PROVE CameBack(x)
    <3>1. x.hashed \in Nat /\ x.read \in Nat /\ 0 < x.hashed /\ x.hashed <= x.read
      BY <2>1, RevisionsAreNumbers DEF Traced, HashKnown
    <3>2. texts[x.hashed] = Current /\ x.hashed # x.read
      BY <2>1 DEF Traced, HashKnown
    <3> QED
      BY <2>1, <3>1, <3>2 DEF CameBack
  <2>2. DocumentIsTrue
    <3>1. SUFFICES ASSUME Shown(document) = "READY", texts[document.read] = Current
                   PROVE  MadeOf(document) = {Current}
      <4>1. Shown(document) = "READY" => FromDocument(document) /\ document.hash = Current
        BY DEF Shown, InsightInv, SoundDocument
      <4> QED
        BY <2>1, <3>1, <4>1 DEF DocumentIsTrue, FromDocument
    <3>2. document.made = {document.read}
      BY <3>1 DEF Shown, InsightInv, SoundDocument, FromDocument
    <3> QED
      BY <3>1, <3>2 DEF MadeOf
  <2>3. FolderIsTrue
    <3>1. SUFFICES ASSUME Shown(folder) = "READY", texts[folder.read] = Current
                   PROVE  Current \in MadeOf(folder) \cup Blank
      <4>1. Shown(folder) = "READY" => FromFolder(folder) /\ folder.hash = Current
        BY DEF Shown, InsightInv, SoundFolder
      <4> QED
        BY <2>1, <3>1, <4>1 DEF FolderIsTrue, FromFolder
    <3>2. Current \in Blank \/ folder.read \in folder.made
      BY <3>1 DEF Shown, InsightInv, SoundFolder, FromFolder
    <3> QED
      BY <3>1, <3>2 DEF MadeOf
  <2> QED
    BY <2>2, <2>3 DEF SummariesAreTrue
<1> QED
  BY <1>1, AssistantInvariant, PTL DEF AssistantInv

(* A finished answer was grounded on the text of a file that was there. *)
THEOREM AnswersAreGrounded == Spec => []AnswersGrounded
<1>1. AnswerInv => AnswersGrounded
  BY DEF AnswerInv, Grounded, AnswersGrounded, On
<1> QED
  BY <1>1, AssistantInvariant, PTL DEF AssistantInv

(* The slot is held by those who talk to the model, by no more than Capacity of them. *)
THEOREM SlotIsSound == Spec => []SlotSound
<1>1. SlotInv => SlotSound
  BY AssistantAssumption DEF SlotInv, Talkers, SlotSound
<1> QED
  BY <1>1, AssistantInvariant, PTL DEF AssistantInv

(* What is model-checked is the same system under budgets: every theorem above is about its
   behaviours too. *)
THEOREM BudgetsOnlyRestrict == MCSpec => Spec
<1>1. MCInit => Init
  BY DEF MCInit
<1>2. [MCNext]_mcvars => [Next]_assistantVars
  BY DEF MCNext, mcvars, Next, ChatMoves, InsightMoves, AnswerMoves, ChatActions, InsightActions,
         AnswerActions, ChatOthers, InsightOthers
<1> QED
  BY <1>1, <1>2, PTL DEF MCSpec, Spec
=============================================================================
