---------------------------- MODULE Samintecknad ----------------------------
(***************************************************************************)
(* The walk over the lines of a Fastighetsrapport that tells whether the   *)
(* property is mortgaged together with another one (detect_samintecknad in *)
(* app/valuation_statement/field_extractor.py).                            *)
(*                                                                         *)
(* A line is what the code finds in it, blank lines left out: the header   *)
(* it is, a phrase, the row's number or date, the property it names. What  *)
(* a report says, and how its renderings break it into lines, is stated    *)
(* apart from the walk, in Fires and PieceLines.                           *)
(***************************************************************************)
EXTENDS Naturals, FiniteSets, SequencesExt

CONSTANTS
    Reports,      \* the reports that are looked at
    ReportWords,  \* the numbers, the dates and the names of properties in them
    NoValue       \* no header, phrase, row, property or section

VARIABLES
    report,    \* the report that was uploaded
    read,      \* how many of its lines have been read
    section,   \* the section that is open, or NoValue
    evidence   \* the rows that fire, in order

walkVars == <<report, read, section, evidence>>

-----------------------------------------------------------------------------
\* What a report says, and its lines.

\* A report: is it a Fastighetsrapport, and the pieces it is printed in: the
\* title of a section, its column headers, a page break, and rows, each on one
\* line (OCR), or with the name of the other property wrapped onto a line of its
\* own, or torn from that line by a page break.
RowKinds == {"line", "wrapped", "torn"}

Sections == {"agare", "tidigare_agare", "inteckningar", "other"}

Ownership == {"agare", "tidigare_agare"}

Opening == {"agare", "tidigare_agare", "inteckningar"}

Pieces ==
    [kind : RowKinds \cup {"title", "columns", "page"}, section : Sections,
     columns : BOOLEAN, phrase : {"mortgage", "purchase", NoValue},
     row : ReportWords \cup {NoValue}, other : ReportWords \cup {NoValue},
     legible : BOOLEAN]

\* The mortgages that encumber another property as well, and the purchases by
\* the present owners that covered one.
Fires(piece) ==
    /\ piece.kind \in RowKinds
    /\ \/ piece.section = "inteckningar" /\ piece.phrase = "mortgage"
       \/ piece.section = "agare" /\ piece.phrase = "purchase"

\* Only ownership tables have column headers; a mortgage names the other
\* property, and a purchase does not.
Printable(piece) ==
    /\ piece.kind = "columns" \/ piece.columns => piece.section \in Ownership
    /\ Fires(piece) => (piece.other # NoValue <=> piece.section = "inteckningar")

\* The piece after another one is in its section or begins one; between the
\* present owners and the past ones before them there is another section.
Follows(piece, before) ==
    IF piece.kind = "title"
    THEN piece.section = "agare" => before.section \notin Ownership
    ELSE piece.section = before.section

ASSUME ReportsAssumption ==
    /\ \A word \in Sections \cup {"mortgage", "purchase"} : word # NoValue
    /\ \A r \in Reports :
          /\ r.banner \in BOOLEAN /\ r.pieces \in Seq(Pieces)
          /\ \A i \in DOMAIN r.pieces :
                /\ Printable(r.pieces[i])
                /\ IF i = 1 THEN r.pieces[i].kind = "title"
                   ELSE Follows(r.pieces[i], r.pieces[i - 1])

Line == [header |-> NoValue, phrase |-> NoValue, row |-> NoValue, named |-> NoValue]

Header(h) == [Line EXCEPT !.header = h]

\* A footer, the banner, and the headers of the table that goes on.
\* "Agare" is a column header of both ownership tables, too.
PageBreak(piece) ==
    <<Line, Line, Header(piece.section)>>
        \o (IF piece.columns THEN <<Header("agare")>> ELSE <<>>)

PieceLines(piece) ==
    LET name == IF piece.legible THEN piece.other ELSE NoValue
        head == [header |-> NoValue, phrase |-> piece.phrase, row |-> piece.row,
                 named |-> NoValue]
        below == [Line EXCEPT !.named = name]
    IN  CASE piece.kind = "title" -> <<Header(piece.section)>>
          [] piece.kind = "columns" -> <<Header("agare")>>
          [] piece.kind = "page" -> PageBreak(piece)
          [] piece.kind = "line" -> <<[head EXCEPT !.named = name]>>
          [] piece.kind = "wrapped" -> <<head, below>>
          [] piece.kind = "torn" -> <<head>> \o PageBreak(piece) \o <<below>>

Lines(r) == FlattenSeq([i \in DOMAIN r.pieces |-> PieceLines(r.pieces[i])])

-----------------------------------------------------------------------------
\* The walk.

\* Mutant: a header opens its section wherever it stands.
SectionAlways(header, current) ==
    IF header \in Opening THEN header ELSE NoValue

\* "Agare" inside an ownership section is a column header.
SectionForHeader(header, current) ==
    IF header = "agare" /\ current \in Ownership THEN current
    ELSE IF header \in Opening THEN header ELSE NoValue

\* The property named after the phrase, or else on the next line.
OtherProperty(lines, i) ==
    IF lines[i].named # NoValue THEN lines[i].named
    ELSE IF i < Len(lines) THEN lines[i + 1].named ELSE NoValue

WalkInit ==
    /\ report \in Reports
    /\ read = IF report.banner THEN 0 ELSE Len(Lines(report))
    /\ section = NoValue
    /\ evidence = <<>>

ReadLine ==
    LET lines == Lines(report)
        line == lines[read + 1]
    IN  /\ read < Len(lines)
        /\ read' = read + 1
        /\ section' = IF line.header = NoValue THEN section
                      ELSE SectionForHeader(line.header, section)
        /\ evidence' =
              IF line.header = NoValue /\ section = "inteckningar" /\ line.phrase = "mortgage"
              THEN Append(evidence, [section |-> section, row |-> line.row,
                                     other |-> OtherProperty(lines, read + 1)])
              ELSE IF line.header = NoValue /\ section = "agare" /\ line.phrase = "purchase"
              THEN Append(evidence, [section |-> section, row |-> line.row,
                                     other |-> NoValue])
              ELSE evidence
        /\ UNCHANGED report

WalkSpec == WalkInit /\ [][ReadLine]_walkVars

-----------------------------------------------------------------------------

\* The rows that fire among the first n pieces.
FiredUpTo(n) == {i \in 1 .. n : Fires(report.pieces[i])}

\* The evidence is what the report says, whatever its rendering, column headers
\* and page breaks, and whatever other sections hold.  The name of the other
\* property can be missing if a page break tears it off its row; it can be
\* that of another row only where OCR has spoilt it (detect_samintecknad).
EvidenceIsSaid ==
    LET said == FiredUpTo(Len(report.pieces)) IN
    /\ ~report.banner => evidence = <<>>
    /\ report.banner /\ read = Len(Lines(report)) =>
          /\ Len(evidence) = Cardinality(said)
          /\ \A i \in said :
                LET row == report.pieces[i]
                    found == evidence[Cardinality(FiredUpTo(i))]
                IN  /\ found.section = row.section /\ found.row = row.row
                    /\ \/ found.other = row.other
                       \/ found.other = NoValue /\ row.kind = "torn"
                       \/ ~row.legible
=============================================================================
