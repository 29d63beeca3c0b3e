---------------------------- MODULE DocumentChunks ----------------------------
(***************************************************************************)
(* How an uploaded document is cut into the chunks that are stored: a text *)
(* at the last break before the limit, a sheet between rows, each chunk    *)
(* with the headers again.  A step is one round of the loop of chunkText   *)
(* or of chunkExcelWorkbook.                                               *)
(*                                                                         *)
(* Abstracted: of a text which characters are blanks and line breaks, a    *)
(* chunk of it is where it begins and ends; of a cell the width of its     *)
(* value, where the names of file and sheet and the separators have no     *)
(* width of their own.  Sheets are chunked one by one, here there is one.  *)
(***************************************************************************)
EXTENDS Integers, Sequences, FiniteSets, FiniteSetsExt

CONSTANTS
  Texts,      \* the texts that extractTextFromBuffer may return, trimmed
  Matrices,   \* the rows of the sheet that are not empty, of widths of cells
  TextLimit,  \* KNOWLEDGE_CHUNK_MAX_CHARS
  SheetLimit, \* the same limit, in the units in which cells are measured
  LabelWidth  \* of "Columna n", for a column without a header

ASSUME ChunkBounds == {TextLimit, SheetLimit, LabelWidth} \subseteq Nat \ {0}
\* assertExtractedText and extractExcelWorkbook throw when there is nothing;
\* chunkText trims what it is given.
ASSUME NothingEmpty == <<>> \notin Texts \cup Matrices
ASSUME TextsAreTrimmed ==
  \A t \in Texts :
    t \in Seq({"letter", "space", "line"}) /\ (t # <<>> => t[1] = "letter" /\ t[Len(t)] = "letter")
ASSUME MatricesOfWidths == Matrices \subseteq Seq(Seq(Nat))

VARIABLES
  text,      \* the text, <<>> when the document is a sheet
  matrix,    \* the rows, <<>> when it is a text
  cutting    \* the variables of the loop: pc, at (the first character or row
             \* left), open (the rows of currentRows), start (rowStart), chunks

chunkVars == <<text, matrix, cutting>>

DocumentInit ==
  /\ \/ text \in Texts /\ matrix = <<>>
     \/ text = <<>> /\ matrix \in Matrices
  /\ cutting = [pc |-> "cutting", at |-> 1, open |-> <<>>, start |-> 1, chunks |-> <<>>]

-----------------------------------------------------------------------------
\* Where lastIndexOf finds a break in what is left: characters before it, 0
\* when it finds none (a text that is left does not begin with a blank).
Found_Before(P(_)) ==
  Max({0} \cup {k \in 1 .. TextLimit : cutting.at + k <= Len(text) /\ P(cutting.at + k)})

IsLine(i) == text[i] = "line"
IsParagraph(i) == IsLine(i) /\ i < Len(text) /\ IsLine(i + 1)
IsSpace(i) == text[i] = "space"
IsLetter(i) == text[i] = "letter"

\* A break that comes too early makes way for the next kind.
Half_Reached(k) == 2 * k >= TextLimit

\* chunkText: paragraphs, then lines, then words, and else within a word.
SplitAt ==
  LET paragraph == Found_Before(IsParagraph)
      line == Found_Before(IsLine)
      space == Found_Before(IsSpace)
      k == IF Half_Reached(paragraph) THEN paragraph
           ELSE IF Half_Reached(line) THEN line ELSE space
  IN  IF k = 0 THEN TextLimit ELSE k

\* trim: the last letter up to i, the first one from i on.
LastLetter(i) == Max({0} \cup {j \in 1 .. i : IsLetter(j)})
NextLetter(i) == Min({Len(text) + 1} \cup {j \in i .. Len(text) : IsLetter(j)})

Piece(from, to) == [from |-> from, to |-> to]

CutText ==
  /\ cutting.pc = "cutting" /\ matrix = <<>>
  /\ IF Len(text) - cutting.at + 1 <= TextLimit
     THEN cutting' = [cutting EXCEPT !.pc = "cut", !.at = Len(text) + 1,
                        !.chunks = Append(@, Piece(cutting.at, Len(text)))]
     ELSE cutting' = [cutting EXCEPT !.at = NextLetter(@ + SplitAt),
                        !.chunks = Append(@, Piece(cutting.at, LastLetter(cutting.at + SplitAt - 1)))]
  /\ UNCHANGED <<text, matrix>>

-----------------------------------------------------------------------------
Filled(cells) == {j \in DOMAIN cells : cells[j] > 0}
Total(widths) ==
  LET upTo[k \in 0 .. Len(widths)] == IF k = 0 THEN 0 ELSE upTo[k - 1] + widths[k]
  IN  upTo[Len(widths)]

\* detectHeaders: the first row that is not empty, if two of its cells are filled.
HeadersAreGiven == Cardinality(Filled(matrix[1])) >= 2
Headers ==
  [j \in DOMAIN matrix[1] |->
     IF HeadersAreGiven /\ matrix[1][j] > 0 THEN matrix[1][j] ELSE LabelWidth]

\* readSheetRows and formatDataRow: the other rows, every value with its header.
Rows == Len(matrix) - 1
RowWidth(r) == Total(Headers) + Total(matrix[r + 1])

\* buildChunkPrefix and join: a line break before every row.
PrefixWidth == Total(Headers)
Content(rows) == PrefixWidth + Total([i \in DOMAIN rows |-> 1 + RowWidth(rows[i])])
Fits(rows) == Content(rows) <= SheetLimit

\* truncateRow: what is left of a row beside the prefix, at least its ellipsis.
Truncated == PrefixWidth + 1 + Max({1, SheetLimit - PrefixWidth - 1})

Chunk(from, to, rows, width, whole) ==
  [from |-> from, to |-> to, rows |-> rows, width |-> width, whole |-> whole]

\* pushChunk
Pushed(c, to) ==
  IF c.open = <<>> THEN c
  ELSE [c EXCEPT !.open = <<>>, !.start = to + 1,
          !.chunks = Append(@, Chunk(c.start, to, c.open, Content(c.open), TRUE))]

\* Mutant: the chunk after a row that was cut cites that row too.
Placed_KeepsStart(c, r) ==
  IF Fits(Append(c.open, r)) THEN [c EXCEPT !.open = Append(@, r)]
  ELSE LET pushed == Pushed(c, r - 1)
       IN  IF Fits(<<r>>) THEN [pushed EXCEPT !.open = <<r>>, !.start = r]
           ELSE [pushed EXCEPT !.chunks = Append(@, Chunk(r, r, <<r>>, Truncated, FALSE))]

\* The row goes to the chunk that is open, opens one, or is a chunk by itself.
Placed(c, r) ==
  IF Fits(Append(c.open, r)) THEN [c EXCEPT !.open = Append(@, r)]
  ELSE LET pushed == Pushed(c, r - 1)
       IN  IF Fits(<<r>>) THEN [pushed EXCEPT !.open = <<r>>, !.start = r]
           ELSE [pushed EXCEPT !.start = r + 1,
                   !.chunks = Append(@, Chunk(r, r, <<r>>, Truncated, FALSE))]

PlaceRow ==
  /\ cutting.pc = "cutting" /\ matrix # <<>>
  /\ cutting.at <= Rows
  /\ cutting' = [Placed(cutting, cutting.at) EXCEPT !.at = @ + 1]
  /\ UNCHANGED <<text, matrix>>

EndSheet ==
  /\ cutting.pc = "cutting" /\ matrix # <<>>
  /\ cutting.at > Rows
  /\ cutting' = [Pushed(cutting, cutting.start + Len(cutting.open) - 1) EXCEPT !.pc = "cut"]
  /\ UNCHANGED <<text, matrix>>

DocumentNext == CutText \/ PlaceRow \/ EndSheet

-----------------------------------------------------------------------------
InPieces(i) == {c \in DOMAIN cutting.chunks : i \in cutting.chunks[c].from .. cutting.chunks[c].to}

\* The letters from a to b are a word.
Word(a, b) ==
  /\ \A i \in a .. b : IsLetter(i)
  /\ a = 1 \/ ~IsLetter(a - 1)
  /\ b = Len(text) \/ ~IsLetter(b + 1)

\* The chunks of a text are within the limit and neither begin nor end with a
\* blank; every letter up to where the loop is stands in exactly one, in the
\* order of the text; a word of at most half the limit is in one chunk.
TextIsKept ==
  matrix = <<>> =>
    /\ \A c \in DOMAIN cutting.chunks :
         LET piece == cutting.chunks[c]
         IN  /\ piece.from <= piece.to /\ piece.to < piece.from + TextLimit
             /\ IsLetter(piece.from) /\ IsLetter(piece.to)
             /\ c > 1 => cutting.chunks[c - 1].to < piece.from
    /\ \A i \in 1 .. (cutting.at - 1) : IsLetter(i) => InPieces(i) # {}
    /\ \A a \in DOMAIN text, b \in DOMAIN text :
         a <= b /\ b < cutting.at /\ Word(a, b) /\ 2 * (b - a + 1) <= TextLimit
         => InPieces(a) = InPieces(b)

\* The row ranges that the chunks of a sheet cite follow one another from the
\* first row to the last and name the rows that the chunk holds; a row is cut
\* only if it does not fit beside the headers, and a chunk is over the limit
\* only if the headers themselves are.
RowsAreCited ==
  matrix # <<>> =>
    /\ \A c \in DOMAIN cutting.chunks :
         LET chunk == cutting.chunks[c]
         IN  /\ chunk.from = IF c = 1 THEN 1 ELSE cutting.chunks[c - 1].to + 1
             /\ chunk.rows = [i \in 1 .. (chunk.to - chunk.from + 1) |-> chunk.from + i - 1]
             /\ chunk.whole \/ ~Fits(chunk.rows)
             /\ chunk.width <= SheetLimit \/ PrefixWidth + 2 > SheetLimit
    /\ cutting.pc = "cut" =>
         IF Rows = 0 THEN cutting.chunks = <<>>
         ELSE cutting.chunks # <<>> /\ cutting.chunks[Len(cutting.chunks)].to = Rows

\* What is cited to the user is what was uploaded, as far as the limit allows.
ChunksKeepTheDocument == TextIsKept /\ RowsAreCited
=============================================================================
