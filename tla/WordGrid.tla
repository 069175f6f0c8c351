------------------------------ MODULE WordGrid ------------------------------
(***************************************************************************)
(* The word grid of a scanned first page: _reassemble_cells of             *)
(* app/valuation_statement/_ocr.py glues the words that OCR recognises     *)
(* into the cells that were printed, and _label_text_below_in_column of    *)
(* field_extractor.py looks up the cell below a label.                     *)
(*                                                                         *)
(* Lengths are in points. A page is the set of its printed cells           *)
(* [words, line, x, tops, label, value, second]: the line of text that OCR *)
(* puts it in, where it starts, the top of each of its words, whether a    *)
(* strategy asks for it, and the words printed in the row below it and in  *)
(* the next one, if any.                                                   *)
(***************************************************************************)
EXTENDS Integers, FiniteSetsExt, SequencesExt

CONSTANTS
    Pages,      \* the pages that are looked at
    PageWords,  \* the words that are printed on them
    WordWidth,  \* the width of a printed word
    WordGap,    \* the gap between two words of a cell
    NoCell      \* no value, no previous word

VARIABLES
    page,    \* the page that was scanned
    unread,  \* its words that are still to be glued, in the order of the walk
    run,     \* the words of the cell that is being glued
    cells    \* the cells glued so far

gridVars == <<page, unread, run, cells>>

-----------------------------------------------------------------------------
\* The recognised words, sorted by line and, within a line, from the left.

\* The elements of a set from the first to the last.
Sorted(S, Before(_, _)) ==
    [k \in 1 .. Cardinality(S) |->
        CHOOSE x \in S : Cardinality({y \in S : Before(y, x)}) = k - 1]

WordsOf(cell) ==
    [k \in DOMAIN cell.words |->
        LET left == cell.x + (k - 1) * (WordWidth + WordGap) IN
        [text |-> <<cell.words[k]>>, line |-> cell.line, x0 |-> left,
         x1 |-> left + WordWidth, top |-> cell.tops[k]]]

ReadsBefore(v, w) == v.line < w.line \/ (v.line = w.line /\ v.x0 < w.x0)

Words(p) == Sorted(UNION {ToSet(WordsOf(cell)) : cell \in p}, ReadsBefore)

-----------------------------------------------------------------------------
\* Gluing.

Gutter == 12

\* Mutant: the gap is not looked at.
OneCellALine(glued, w) == glued # <<>> /\ Last(glued).line = w.line

\* A word goes on with the cell unless its line ends or a gutter follows.
GoesOn(glued, w) ==
    glued # <<>> /\ Last(glued).line = w.line /\ w.x0 - Last(glued).x1 <= Gutter

MergeCell(glued) ==
    [text |-> FlattenSeq([k \in DOMAIN glued |-> glued[k].text]),
     x0 |-> Min({glued[k].x0 : k \in DOMAIN glued}),
     top |-> Min({glued[k].top : k \in DOMAIN glued})]

GridInit ==
    /\ page \in Pages
    /\ unread = Words(page)
    /\ run = <<>>
    /\ cells = <<>>

GlueWord ==
    /\ unread # <<>>
    /\ unread' = Tail(unread)
    /\ \/ /\ GoesOn(run, Head(unread))
          /\ run' = Append(run, Head(unread))
          /\ cells' = cells
       \/ /\ ~GoesOn(run, Head(unread))
          /\ run' = <<Head(unread)>>
          /\ cells' = IF run = <<>> THEN cells ELSE Append(cells, MergeCell(run))
    /\ UNCHANGED page

LastCell ==
    /\ unread = <<>> /\ run # <<>>
    /\ cells' = Append(cells, MergeCell(run))
    /\ run' = <<>>
    /\ UNCHANGED <<page, unread>>

GridNext == GlueWord \/ LastCell

GridSpec == GridInit /\ [][GridNext]_gridVars

-----------------------------------------------------------------------------
\* Looking up the cell below a label.

RowTol == 3
ColTol == 3
MaxValueBelow == 18

Near(a, b, tolerance) == a - b <= tolerance /\ b - a <= tolerance

\* The cells of the anchor's column that are below its row.
Column(grid, anchor) ==
    {i \in DOMAIN grid : /\ Near(grid[i].x0, anchor.x0, ColTol)
                         /\ grid[i].top > anchor.top + RowTol}

\* The text of the row that is next in the column, from the left.
NextRow(grid, column) ==
    LET nearest == Min({grid[i].top : i \in column})
        row == Sorted({i \in column : Near(grid[i].top, nearest, RowTol)},
                      LAMBDA i, j : grid[i].x0 < grid[j].x0)
    IN  FlattenSeq([k \in DOMAIN row |-> grid[row[k]].text])

\* Mutant: the next row is taken, however far down it is.
NearestRowBelow(grid, anchor) ==
    LET column == Column(grid, anchor) IN
    IF column = {} THEN NoCell ELSE NextRow(grid, column)

\* The row below the anchor, unless it is too far down.
RowBelowInColumn(grid, anchor) ==
    LET column == Column(grid, anchor)
        nearest == Min({grid[i].top : i \in column})
    IN  IF column = {} \/ nearest - anchor.top > MaxValueBelow THEN NoCell
        ELSE NextRow(grid, column)

\* The first cell that reads as the label is the anchor.
LabelTextBelow(grid, label) ==
    LET labels == {i \in DOMAIN grid : grid[i].text = label}
    IN  IF labels = {} THEN NoCell ELSE RowBelowInColumn(grid, grid[Min(labels)])

\* The second row below a label, the postort below the address, if there is a
\* first.
PostortBelow(grid, label) ==
    LET anchor == grid[Min({i \in DOMAIN grid : grid[i].text = label})]
        column == Column(grid, anchor)
        nearest == Min({grid[i].top : i \in column})
        further == {i \in column : grid[i].top > nearest + RowTol}
    IN  IF \/ LabelTextBelow(grid, label) = NoCell
           \/ further = {}
           \/ Min({grid[i].top : i \in further}) - anchor.top > 2 * MaxValueBelow
        THEN NoCell ELSE NextRow(grid, further)

-----------------------------------------------------------------------------
\* How pages are printed.

Top(cell) == Min(ToSet(cell.tops))

End(cell) == cell.x + Len(cell.words) * (WordWidth + WordGap) - WordGap

IsCell(cell) ==
    /\ cell.words \in Seq(PageWords) /\ cell.words # <<>> /\ cell.words # NoCell
    /\ cell.line \in Int /\ cell.x \in Int
    /\ cell.tops \in Seq(Int) /\ Len(cell.tops) = Len(cell.words)

\* The cells in the column of a cell that are below its row.
Under(p, cell) ==
    {c \in p : Near(c.x, cell.x, ColTol) /\ Top(c) > Top(cell) + RowTol}

\* Of these cells, one is above all the others.
Uppermost(cell, others) == \A c \in others \ {cell} : Top(c) > Top(cell) + RowTol

\* Below a label is the row of its value, if it has one, then its second row, if
\* it has one, and then nothing for a while.
LaidOut(p, cell) ==
    LET under == Under(p, cell)
        Within(c, distance) == Top(c) - Top(cell) <= distance
    IN  \/ /\ cell.value = NoCell /\ cell.second = NoCell
           /\ \A c \in under : ~Within(c, MaxValueBelow)
        \/ \E value \in under :
              /\ cell.value = value.words /\ Within(value, MaxValueBelow)
              /\ Uppermost(value, under)
              /\ \/ /\ cell.second = NoCell
                    /\ \A c \in under \ {value} : ~Within(c, 2 * MaxValueBelow)
                 \/ \E second \in under \ {value} :
                       /\ cell.second = second.words /\ Within(second, 2 * MaxValueBelow)
                       /\ Uppermost(second, under \ {value})

\* The cells of a line are apart, and a label is printed once.
ASSUME PagesAssumption ==
    /\ WordWidth \in Nat \ {0} /\ WordGap \in 0 .. Gutter
    /\ \A p \in Pages :
          /\ IsFiniteSet(p) /\ \A c \in p : IsCell(c)
          /\ \A c \in p : \A d \in p \ {c} : c.line = d.line =>
                d.x - End(c) > Gutter \/ c.x - End(d) > Gutter
          /\ \A c \in p : c.label =>
                LaidOut(p, c) /\ \A d \in p \ {c} : d.words # c.words

-----------------------------------------------------------------------------

\* Once a page is glued, every printed label that a strategy may ask for has
\* the value printed below it, whole and on its own, and a label whose cell was
\* left empty has none: not the next label, not another column's value, not a
\* part of its own; and so it is with the row below the value
\* (_reassemble_cells, _row_below_in_column, _kommun_uc_postort_from_addr).
ValueIsBelow ==
    unread = <<>> /\ run = <<>> =>
        \A cell \in page :
            cell.label => /\ LabelTextBelow(cells, cell.words) = cell.value
                          /\ PostortBelow(cells, cell.words) = cell.second
=============================================================================
