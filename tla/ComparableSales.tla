-------------------------- MODULE ComparableSales --------------------------
(***************************************************************************)
(* The table of comparable sales on page 2 of a UC report                  *)
(* (_extract_comparable_sales_p2 and _parse_comparable_row of              *)
(* app/valuation_statement/field_extractor.py). A line is the sequence of  *)
(* its words; the columns of a row are told apart by their number from the *)
(* right, because only the first can have several words and the third can  *)
(* be missing.                                                             *)
(***************************************************************************)
EXTENDS Naturals, FiniteSets, SequencesExt

CONSTANTS
    SalesTables,  \* the tables that are looked at: sequences of rows and headings
    SaleWords,    \* the words they are printed with
    Months,       \* words that are a month of a year
    NoColumn      \* a column that is blank

VARIABLES
    salesTable,  \* the table on the page
    rowsRead,    \* how many of its lines have been read
    sales        \* the rows parsed so far

salesVars == <<salesTable, rowsRead, sales>>

-----------------------------------------------------------------------------
\* A row: the words of forening, and one word or NoColumn for each of the rest.

Columns == <<"area_m2", "balkong", "avgift_kr_manad", "arsavgift_kr", "pris_kr",
             "pris_per_m2", "salj_datum">>

Balkong == {"Ja", "Nej"}

Blankable == SaleWords \cup {NoColumn}

Rows == [forening : Seq(SaleWords), area_m2 : Blankable, balkong : Blankable,
         avgift_kr_manad : Blankable, arsavgift_kr : Blankable, pris_kr : Blankable,
         pris_per_m2 : Blankable, salj_datum : Months \cup {NoColumn}]

\* A heading has no month in it, and a sale has the balcony in its column only.
Legible(r) ==
    IF r.salj_datum = NoColumn
    THEN (ToSet(r.forening) \cup {r[c] : c \in ToSet(Columns)}) \cap Months = {}
    ELSE r.balkong \in Balkong \cup {NoColumn} /\ r.area_m2 \notin Balkong

ASSUME SalesAssumption ==
    /\ NoColumn \notin SaleWords /\ Months \subseteq SaleWords
    /\ \A table \in SalesTables :
          table \in Seq(Rows) /\ \A r \in ToSet(table) : Legible(r)

Word(w) == IF w = NoColumn THEN <<>> ELSE <<w>>

PrintedRow(r) ==
    r.forening \o Word(r.area_m2) \o Word(r.balkong) \o Word(r.avgift_kr_manad)
        \o Word(r.arsavgift_kr) \o Word(r.pris_kr) \o Word(r.pris_per_m2)
        \o Word(r.salj_datum)

Raw(words) == [raw |-> words, salj_datum |-> Last(words)]

\* Mutant: a row that is short of columns is parsed all the same.
ParseShortRow(words) ==
    LET head == Front(words)
        n == Len(head)
        balkong == n > 4 /\ head[n - 4] \in Balkong
        rest == SubSeq(head, 1, IF balkong THEN n - 5 ELSE n - 4)
    IN  IF n < 5 \/ rest = <<>> THEN Raw(words)
        ELSE [forening |-> Front(rest), area_m2 |-> Last(rest),
              balkong |-> IF balkong THEN head[n - 4] ELSE NoColumn,
              avgift_kr_manad |-> head[n - 3], arsavgift_kr |-> head[n - 2],
              pris_kr |-> head[n - 1], pris_per_m2 |-> head[n],
              salj_datum |-> Last(words)]

\* A line that ends in a month, from the right.
ParseComparableRow(words) ==
    LET head == Front(words)
        n == Len(head)
        balkong == head[n - 4] \in Balkong
        rest == SubSeq(head, 1, IF balkong THEN n - 5 ELSE n - 4)
    IN  IF n < 6 THEN Raw(words)
        ELSE [forening |-> Front(rest), area_m2 |-> Last(rest),
              balkong |-> IF balkong THEN head[n - 4] ELSE NoColumn,
              avgift_kr_manad |-> head[n - 3], arsavgift_kr |-> head[n - 2],
              pris_kr |-> head[n - 1], pris_per_m2 |-> head[n],
              salj_datum |-> Last(words)]

SalesInit == salesTable \in SalesTables /\ rowsRead = 0 /\ sales = <<>>

ReadRow ==
    LET words == PrintedRow(salesTable[rowsRead + 1]) IN
    /\ rowsRead < Len(salesTable)
    /\ rowsRead' = rowsRead + 1
    /\ sales' = IF Len(words) > 1 /\ Last(words) \in Months
                THEN Append(sales, ParseComparableRow(words)) ELSE sales
    /\ UNCHANGED salesTable

SalesSpec == SalesInit /\ [][ReadRow]_salesVars

-----------------------------------------------------------------------------

\* A month alone is no sale.
IsSale(r) == r.salj_datum # NoColumn /\ Len(PrintedRow(r)) > 1

\* The column is printed, and so are those to its right, except for the balcony.
Reached(r, column) ==
    \E i \in DOMAIN Columns :
        /\ Columns[i] = column
        /\ \A k \in i .. Len(Columns) :
              k = i \/ Columns[k] # "balkong" => r[Columns[k]] # NoColumn

\* The sales among the first n lines.
SalesUpTo(n) == {i \in 1 .. n : IsSale(salesTable[i])}

\* Every sale read so far is there, in order.  One with fewer words than columns is
\* kept as the line it was.  Of any other, however many are blank, each word is in
\* exactly one column, in order, and a value can only stand in another's column
\* when one to its right is blank; with none blank but the name and the balcony the
\* sale is the printed one (_parse_comparable_row).
SalesArePrinted ==
    /\ Len(sales) = Cardinality(SalesUpTo(rowsRead))
    /\ \A i \in SalesUpTo(rowsRead) :
          LET r == salesTable[i]
              sale == sales[Cardinality(SalesUpTo(i))]
          IN  IF Len(PrintedRow(r)) < Len(Columns) THEN sale = Raw(PrintedRow(r))
              ELSE /\ PrintedRow(sale) = PrintedRow(r)
                   /\ \A c \in ToSet(Columns) : Reached(r, c) => sale[c] = r[c]
                   /\ Reached(r, "area_m2") => sale = r
=============================================================================
