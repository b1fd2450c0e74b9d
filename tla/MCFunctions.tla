------------------------------ MODULE MCFunctions ------------------------------
(***************************************************************************)
(* The sequential algorithms, each over every input of a small space: one  *)
(* of them runs, from Machine's choice on, and the others stand still.     *)
(***************************************************************************)
EXTENDS Chunker, VectorSearch, Evidence

CONSTANTS MaxElements, MaxChunk

VARIABLE machine

Element(type, size) == [type |-> type, size |-> size]
TableOf(header, rows) == [type |-> "table", header |-> header, rows |-> rows]

Elements ==
  {Element("h1", 1), Element("h2", 1), Element("h3", 1), Element("clip", 3)}
  \cup {Element("text", size) : size \in {0, 1, 9, 13}}
  \cup {TableOf(0, <<6, 5>>), TableOf(1, <<1, 1, 11, 1>>), TableOf(13, <<>>)}

SomeDocuments == UNION {[1..n -> Elements] : n \in 0..MaxElements}

SomeChunks == 1..MaxChunk

(* Without an id, blank, larger than the budget of 8, and four that fit it in different ways. *)
SomeRetrieved ==
  {[id |-> 0, cost |-> 2], [id |-> 1, cost |-> 0], [id |-> 2, cost |-> 9]}
  \cup {[id |-> 3, cost |-> 3], [id |-> 4, cost |-> 5], [id |-> 5, cost |-> 2], [id |-> 6, cost |-> 6]}

(* The last is longer than the listing. *)
SomeConversations == {<<>>, <<1, 1>>, <<1, 2, 2>>, <<1, 4>>, <<2, 2, 1, 1>>, <<1, 1, 1, 1, 1, 1>>}

MCInit ==
  /\ machine \in {"chunker", "vectors", "evidence"}
  /\ IF machine = "chunker" THEN ChunkerInit
     ELSE doc = <<>> /\ next = 2 /\ accum = <<>> /\ heading = NoHeading /\ chunks = <<>>
  /\ IF machine = "vectors" THEN VectorInit
     ELSE /\ vectors = {} /\ visible = {} /\ matches = {} /\ filtered = FALSE /\ steady = {}
          /\ search = [step |-> "idle"] /\ writes = 0
  /\ IF machine = "evidence" THEN EvidenceInit
     ELSE /\ considered = <<>> /\ fates = <<>> /\ used = 0 /\ talk = <<>>
          /\ prompt = [phase |-> "idle"] /\ answer = [marks |-> <<>>]

MCNext ==
  /\ UNCHANGED machine
  /\ \/ machine = "chunker" /\ ChunkerNext /\ UNCHANGED <<vectorVars, evidenceVars>>
     \/ machine = "vectors" /\ VectorNext /\ UNCHANGED <<chunkerVars, evidenceVars>>
     \/ machine = "evidence" /\ EvidenceNext /\ UNCHANGED <<chunkerVars, vectorVars>>
=============================================================================
