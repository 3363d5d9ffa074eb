--------------------------- MODULE ClauseSplitter ---------------------------
(***************************************************************************)
(* How a text becomes clauses (services/clause_splitter.py).                *)
(*                                                                          *)
(* A text is a sequence of cells.  A line is what _detect_marker finds at    *)
(* its head, and the cells after it; before it are blanks, after it maybe a  *)
(* carriage return.  Blanks at its end are left out.                         *)
(***************************************************************************)
EXTENDS Cells

\* What stands at the head of a line: nothing; "article" (also "appendix"): the
\* rest of the line is kept as body; "titled": an article with a title in
\* parentheses, the rest is dropped; "numbered": only the number is kept;
\* "preamble": the rest is kept, and there must be one.
Heads == {"none", "article", "titled", "numbered", "preamble"}

Line == [indent : Nat, head : Heads, cells : Seq(Cell), crlf : BOOLEAN]

Blank(line) == line.head = "none" /\ line.cells = <<>>

\* A line without the blanks around it (raw_line.strip()).
Text(line) == IF line.head = "none" THEN line.cells ELSE <<<<line.head, 0>>>> \o line.cells

\* A line as splitlines gives it, and as it stands in the text.
RawLine(line) == Blanks(line.indent) \o Text(line)

AsWritten(line) == RawLine(line) \o IF line.crlf THEN <<Return>> ELSE <<>>

Marked(line) == line.head # "none"

\* An empty "preamble" line: the pattern has no second group, IndexError.
Breaks(line) == line.head = "preamble" /\ line.cells = <<>>

\* inline_text of the marker.
Inline(line) ==
  CASE line.head \in {"article", "preamble"} -> line.cells
    [] line.head = "titled" -> <<>>
    [] line.head = "numbered" -> <<<<"number", 0>>>>

\* The body of a clause: the inline text, when there is any, then the other lines
\* as they are, the blanks around it removed.
Body(inline, lines) ==
  JoinLines((IF inline = <<>> THEN <<>> ELSE <<inline>>) \o
            [i \in 1 .. Len(lines) |->
              IF i = 1 /\ inline = <<>> THEN Text(lines[i]) ELSE RawLine(lines[i])])

-----------------------------------------------------------------------------
(* Text files: paragraphs, a sequence of sequences of lines none of which   *)
(* is blank.                                                                *)

\* Each paragraph whose first line has a marker is a clause, numbered in order.
SplitText(paragraphs) ==
  LET marked == {i \in DOMAIN paragraphs : Marked(Head(paragraphs[i]))}
      clauses == Pick(paragraphs, marked) IN
  [broken |-> \E i \in DOMAIN paragraphs : Breaks(Head(paragraphs[i])),
   unclassified |-> Cardinality(DOMAIN paragraphs \ marked),
   clauses |-> [k \in 1 .. Cardinality(marked) |->
     [ordinal |-> k, text |-> Body(Inline(Head(clauses[k])), Tail(clauses[k]))]]]

-----------------------------------------------------------------------------
(* Confirmed extractions: pages, a sequence of sequences of lines.          *)

\* final_text as it was recognised or typed in: line ends are not normalised.
PageText(page) == JoinLines([i \in 1 .. Len(page) |-> AsWritten(page[i])])

\* Where the code takes line i of a page to start and its text to end: every line
\* above counts as splitlines gives it, and one character more.
Offset(page, i) ==
  IF i = 1 THEN 0 ELSE Len(JoinLines([k \in 1 .. i - 1 |-> RawLine(page[k])])) + 1

EndOffset(page, i) == Offset(page, i) + Len(Text(page[i]))

\* A place is a page and a line of it.
LineAt(pages, a) == pages[a[1]][a[2]]

Above(a, b) == a[1] < b[1] \/ (a[1] = b[1] /\ a[2] < b[2])

\* Places of the lines that are not blank, and of those with a marker.
LinePlaces(pages) ==
  {a \in UNION {{<<p, i>> : i \in DOMAIN pages[p]} : p \in DOMAIN pages} : ~Blank(LineAt(pages, a))}

MarkedPlaces(pages) == {a \in LinePlaces(pages) : Marked(LineAt(pages, a))}

\* A page as one clause; `text` is what is stored of a clause.
WholePage(pages, p, ordinal) ==
  [ordinal |-> ordinal, text |-> PageText(pages[p]),
   pageStart |-> p, start |-> 0, pageEnd |-> p, end |-> Len(PageText(pages[p]))]

\* A wrong version: a clause ends before the line of the next marker only if
\* that is on the same page.
SlipExtent(pages, a) ==
  {b \in LinePlaces(pages) :
     /\ b = a \/ Above(a, b)
     /\ ~\E m \in MarkedPlaces(pages) : m[1] = a[1] /\ Above(a, m) /\ (m = b \/ Above(m, b))}

\* The lines of the clause whose marker is at a: up to the next marker.
Extent(pages, a) ==
  {b \in LinePlaces(pages) :
     /\ b = a \/ Above(a, b)
     /\ ~\E m \in MarkedPlaces(pages) : Above(a, m) /\ (m = b \/ Above(m, b))}

LastOf(pages, a) ==
  CHOOSE b \in Extent(pages, a) : \A c \in Extent(pages, a) : c = b \/ Above(c, b)

\* Lines below the marker are not blank.
HasBody(pages, a) == Inline(LineAt(pages, a)) # <<>> \/ Extent(pages, a) # {a}

\* The number of a among some places.  The marker at a has its number among all
\* markers: clauses that are dropped keep theirs.
Ordinal(places, a) == Cardinality({b \in places : b = a \/ Above(b, a)})

\* The clause of the marker at a: only the marker's line is stored.
ClauseAt(pages, a) ==
  LET last == LastOf(pages, a) IN
  [ordinal |-> Ordinal(MarkedPlaces(pages), a), text |-> Text(LineAt(pages, a)),
   pageStart |-> a[1], start |-> Offset(pages[a[1]], a[2]),
   pageEnd |-> last[1], end |-> EndOffset(pages[last[1]], last[2])]

\* Without marker every page is a clause; with markers, each marker whose body
\* is not empty; when none has a body, the first page.
SplitPages(pages) ==
  LET marks == MarkedPlaces(pages)
      kept == {a \in marks : HasBody(pages, a)} IN
  [broken |-> \E a \in LinePlaces(pages) : Breaks(LineAt(pages, a)),
   clauses |-> IF marks = {} THEN [p \in 1 .. Len(pages) |-> WholePage(pages, p, p)]
               ELSE IF kept = {} THEN <<WholePage(pages, 1, 1)>>
               ELSE [k \in 1 .. Cardinality(kept) |->
                       ClauseAt(pages, CHOOSE a \in kept : Ordinal(kept, a) = k)]]

-----------------------------------------------------------------------------
(* What a split must satisfy.                                              *)

\* Place a of clause c1 is before place b of clause c2.
Before(page1, offset1, page2, offset2) ==
  page1 < page2 \/ (page1 = page2 /\ offset1 <= offset2)

\* How far the text of line i of a page stands behind its offset: its own blanks,
\* and the carriage returns above it.
Drift(page, i) == page[i].indent + Cardinality({k \in 1 .. i - 1 : page[k].crlf})

\* Clauses of a confirmed extraction are numbered upwards, and there is at least
\* one.  What they say they cover is disjoint and in the order of the text.  The
\* text of each is a whole page, or it stands at its offset but for the drift of
\* its line.
SoundPageSplit(pages, clauses) ==
  /\ clauses # <<>>
  /\ \A i \in DOMAIN clauses :
       LET c == clauses[i]
           page == pages[c.pageStart] IN
       /\ Before(c.pageStart, c.start, c.pageEnd, c.end)
       /\ \/ c.start = 0 /\ c.text = PageText(page)
          \/ \E k \in DOMAIN page :
               /\ c.start = Offset(page, k)
               /\ LET place == c.start + Drift(page, k) IN
                  c.text = SubSeq(PageText(page), place + 1, place + Len(c.text))
       /\ i < Len(clauses) =>
            /\ c.ordinal < clauses[i + 1].ordinal
            /\ Before(c.pageEnd, c.end, clauses[i + 1].pageStart, clauses[i + 1].start)

\* No text of a file is in two clauses or lost between the paragraphs.
SoundTextSplit(paragraphs, split) ==
  /\ \A i \in DOMAIN split.clauses : split.clauses[i].ordinal = i
  /\ Len(split.clauses) + split.unclassified = Len(paragraphs)
=============================================================================
