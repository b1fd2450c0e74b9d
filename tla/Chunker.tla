--------------------------------- MODULE Chunker ---------------------------------
(***************************************************************************)
(* HierarchicalChunker.chunk_document: how the elements of a parsed        *)
(* document become chunks.  An element is its type, its size in characters *)
(* (0 when its text is blank) and, for a table, its header and its rows;   *)
(* an element of a chunk is a piece, <<index of the element, slice>>.      *)
(* Separators between the elements of a chunk are not counted, as in       *)
(* accum_chars.                                                            *)
(***************************************************************************)
EXTENDS Naturals, Sequences, SequencesExt, Lists

CONSTANTS
  Documents,  \* sequences of elements
  Target,     \* target_chunk_chars
  Maximum,    \* max_chunk_chars
  Overlap,    \* overlap_chars
  MinSlice    \* the least size a table slice aims at, 200 in the program

Headings == {"h1", "h2", "h3"}

DocumentElement == [type : Headings \cup {"text", "clip"}, size : Nat]
                   \cup [type : {"table"}, header : Nat, rows : Seq(Nat)]

ASSUME ChunkerAssumption ==
  {Target, Maximum, Overlap, MinSlice} \subseteq Nat /\ Documents \subseteq Seq(DocumentElement)

VARIABLES
  doc,      \* the document
  next,     \* the element that comes next
  accum,    \* accum_elements: pieces
  heading,  \* indices of headings, 0 for none: current_h1, current_h2, the one of current_section
  chunks    \* what is produced: pieces and heading

chunkerVars == <<doc, next, accum, heading, chunks>>

Type(piece) == doc[piece[1]].type
NoHeading == [h1 |-> 0, h2 |-> 0, last |-> 0]

ChunkerInit ==
  /\ doc \in Documents
  /\ next = 1
  /\ accum = <<>> /\ chunks = <<>>
  /\ heading = NoHeading

-----------------------------------------------------------------------------
(* split_oversized_table *)

(* Each row is charged its line break. *)
Charge(rows) == SumOf(rows) + Len(rows)

(* The line breaks join header and rows: without a header there is one less of them. *)
TableSize(header, rows) ==
  header + Charge(rows) - (IF header = 0 /\ rows # <<>> THEN 1 ELSE 0)

M_CutLate(table, rows, row) ==
  rows # <<>> /\ (\/ Charge(rows) > Max({MinSlice, Target - Min({Target, table.header + 2})})
                  \/ table.header + Charge(rows) > Maximum)

CutBefore(table, rows, row) ==
  rows # <<>> /\ (\/ Charge(rows) + row + 1 > Max({MinSlice, Target - Min({Target, table.header + 2})})
                  \/ table.header + Charge(rows) + row + 1 > Maximum)

(* A row goes into the slice, or begins the next one. *)
Sliced(state, row) ==
  IF CutBefore(state.table, state.rows, row)
  THEN [table |-> state.table, done |-> Append(state.done, state.rows), rows |-> <<row>>]
  ELSE [state EXCEPT !.rows = Append(@, row)]

(* Slices of rows; the header is repeated in each of them. *)
SlicesOf(table) ==
  IF TableSize(table.header, table.rows) <= Maximum THEN <<table.rows>>
  ELSE LET end == FoldLeft(Sliced, [table |-> table, done |-> <<>>, rows |-> <<>>], table.rows)
       IN IF end.rows # <<>> \/ end.done = <<>> THEN Append(end.done, end.rows) ELSE end.done

PieceSize(piece) ==
  LET element == doc[piece[1]] IN
  IF element.type # "table" THEN element.size
  ELSE TableSize(element.header, SlicesOf(element)[piece[2]])

SizeOf(pieces) == SumOf([i \in DOMAIN pieces |-> PieceSize(pieces[i])])

-----------------------------------------------------------------------------
(* flush_accumulator *)

Text(pieces) == Kept(LAMBDA piece : PieceSize(piece) > 0, pieces)

(* A chunk of what is accumulated, unless all of it is blank. *)
Flushed(pieces, done) ==
  IF Text(pieces) = <<>> THEN done
  ELSE Append(done, [pieces |-> Text(pieces), heading |-> heading])

M_KeepAll(pieces) == pieces

(* The longest tail within the overlap, or its last element whatever its size; never the whole,
   and nothing before a heading or a table. *)
Retained(pieces) ==
  LET effective == Min({Overlap, Maximum \div 2})
      tail(n) == SubSeq(pieces, Len(pieces) - n + 1, Len(pieces))
      fits(n) == /\ \A i \in DOMAIN tail(n) : Type(tail(n)[i]) \notin Headings \cup {"table"}
                 /\ n <= 1 \/ SizeOf(tail(n)) <= effective
      most == CHOOSE n \in 0..Max({Len(pieces), 1}) - 1 :
                fits(n) /\ \A m \in (n + 1)..(Len(pieces) - 1) : ~fits(m)
  IN IF effective = 0 \/ Text(pieces) = <<>> THEN <<>> ELSE tail(most)

-----------------------------------------------------------------------------
(* One element of the document. *)

M_EnterHeading(i) ==
  CASE doc[i].type = "h1" -> [heading EXCEPT !.h1 = i, !.last = i]
    [] doc[i].type = "h2" -> [heading EXCEPT !.h2 = i, !.last = i]
    [] doc[i].type = "h3" -> [heading EXCEPT !.last = i]

EnterHeading(i) ==
  CASE doc[i].type = "h1" -> [h1 |-> i, h2 |-> 0, last |-> i]
    [] doc[i].type = "h2" -> [h1 |-> heading.h1, h2 |-> i, last |-> i]
    [] doc[i].type = "h3" -> [heading EXCEPT !.last = i]

Heading ==
  /\ next <= Len(doc) /\ doc[next].type \in Headings
  /\ chunks' = Flushed(accum, chunks)
  /\ heading' = EnterHeading(next)
  /\ accum' = <<<<next, 1>>>>
  /\ next' = next + 1
  /\ UNCHANGED doc

(* A table, or each slice of it, is a chunk of its own. *)
Table ==
  /\ next <= Len(doc) /\ doc[next].type = "table"
  /\ chunks' = FoldLeft(LAMBDA done, slice : Flushed(<<<<next, slice>>>>, done),
                        Flushed(accum, chunks),
                        [i \in DOMAIN SlicesOf(doc[next]) |-> i])
  /\ accum' = <<>>
  /\ next' = next + 1
  /\ UNCHANGED <<doc, heading>>

(* A transcript segment or a caption, or what follows one, starts a chunk; so does an element
   that would exceed the maximum, and one after the target is reached.  The last two keep an
   overlap.  (Another media type would start a chunk as well: each parser gives all its elements
   the same one.) *)
Paragraph ==
  /\ next <= Len(doc) /\ doc[next].type \in {"text", "clip"}
  /\ LET border == accum # <<>> /\ (doc[next].type = "clip" \/ Type(accum[1]) = "clip")
         full == /\ accum # <<>> /\ ~border
                 /\ \/ SizeOf(accum) + doc[next].size > Maximum
                    \/ SizeOf(accum) >= Target
         kept == IF border THEN <<>> ELSE IF full THEN Retained(accum) ELSE accum
     IN /\ chunks' = IF border \/ full THEN Flushed(accum, chunks) ELSE chunks
        /\ accum' = Append(kept, <<next, 1>>)
  /\ next' = next + 1
  /\ UNCHANGED <<doc, heading>>

M_End ==
  /\ next = Len(doc) + 1
  /\ accum' = <<>>
  /\ next' = next + 1
  /\ UNCHANGED <<doc, heading, chunks>>

End ==
  /\ next = Len(doc) + 1
  /\ chunks' = Flushed(accum, chunks)
  /\ accum' = <<>>
  /\ next' = next + 1
  /\ UNCHANGED <<doc, heading>>

ChunkerNext == Heading \/ Table \/ Paragraph \/ End

ChunkerSpec == ChunkerInit /\ [][ChunkerNext]_chunkerVars

-----------------------------------------------------------------------------
Pieces(i) == IF doc[i].type = "table" THEN {<<i, s>> : s \in DOMAIN SlicesOf(doc[i])} ELSE {<<i, 1>>}
Before(p, q) == p[1] < q[1] \/ (p[1] = q[1] /\ p[2] < q[2])

(* Nothing of the document is lost, whatever its elements: every piece that has text is in a
   chunk or still accumulated, the slices of a table hold its rows, each once and in their order,
   and within the chunks the pieces stand in the document's order. *)
NothingLost ==
  /\ \A i \in DOMAIN doc : doc[i].type = "table" => Joined(SlicesOf(doc[i])) = doc[i].rows
  /\ \A i \in 1..(next - 1) \cap DOMAIN doc : \A piece \in Pieces(i) :
       PieceSize(piece) > 0 =>
         piece \in ToSet(accum) \cup UNION {ToSet(chunks[c].pieces) : c \in DOMAIN chunks}
  /\ \A c \in DOMAIN chunks : \A i, j \in DOMAIN chunks[c].pieces :
       i < j => Before(chunks[c].pieces[i], chunks[c].pieces[j])

(* A piece is repeated only as an overlap: it is text, in neighbouring chunks, under the same
   heading. *)
OverlapIsLocal ==
  \A b, c \in DOMAIN chunks : b < c =>
    \A piece \in ToSet(chunks[b].pieces) \cap ToSet(chunks[c].pieces) :
      /\ \A d \in b..c : piece \in ToSet(chunks[d].pieces)
      /\ chunks[b].heading = chunks[c].heading
      /\ Type(piece) = "text"

(* The heading a piece stands under, by its place in the document. *)
LastOf(types, from, i) ==
  LET found == {j \in (from + 1)..i : doc[j].type \in types}
  IN IF found = {} THEN 0 ELSE CHOOSE j \in found : \A k \in found : k <= j

(* A chunk is filed under the headings all of its pieces stand under: the last h1 before each of
   them, the last h2 since that, and the last heading of any level. *)
FiledRight ==
  \A c \in DOMAIN chunks : \A piece \in ToSet(chunks[c].pieces) :
    LET h1 == LastOf({"h1"}, 0, piece[1]) IN
    chunks[c].heading = [h1   |-> h1,
                         h2   |-> LastOf({"h2"}, h1, piece[1]),
                         last |-> LastOf(Headings, 0, piece[1])]

(* How large a chunk gets: no larger than the maximum, unless it is one element, or begins with
   the overlap and has one element more; and a slice of a table only when it is one row or none. *)
SizeExplained ==
  \A c \in DOMAIN chunks :
    LET pieces == chunks[c].pieces
        overlap == {p \in ToSet(pieces) : c > 1 /\ p \in ToSet(chunks[c - 1].pieces)}
        slice == SlicesOf(doc[pieces[1][1]])[pieces[1][2]]
    IN \/ SizeOf(pieces) <= Maximum
       \/ Len(pieces) = 1 /\ (Type(pieces[1]) = "table" => Len(slice) <= 1)
       \/ overlap # {} /\ ToSet(pieces) = overlap \cup {Last(pieces)}

(* What the name of max_chunk_chars says. *)
ChunkBounded ==
  \A c \in DOMAIN chunks : Len(chunks[c].pieces) > 1 => SizeOf(chunks[c].pieces) <= Maximum
=============================================================================
