------------------------ MODULE MCExtractionOutcome ------------------------
(***************************************************************************)
(* Every combination of up to two layouts, whole or with a label missing,  *)
(* as a PDF with text and as a scan with sound or broken banners; texts    *)
(* one of the two programs reads only; and scans of every make.            *)
(***************************************************************************)
EXTENDS ExtractionOutcome

Banners == {b \in SUBSET Guard : Cardinality(b) <= 2}

\* A bullet says one of the two.
AllLabels == TextLabel \ {"prose Frikopt"}

LabelSets ==
    {{}, AllLabels, TextLabel \ {"prose Bostadsratt"}}
    \cup {AllLabels \ {l} : l \in {"iso date", "timestamp", "lgh nr",
                                   "prose Objekt", "Totalareal",
                                   "prose Bostadsratt"}}
    \cup {{l} : l \in {"prose Objekt", "prose Frikopt", "fr Adress"}}

CellSets == {{}, CellLabel, CellLabel \ {"LGH"}, CellLabel \ {"Kommun"},
             {"Adress"}}

Texts == {b \cup l \cup {"other text"} : b \in Banners, l \in LabelSets}

BreakBanners(t) ==
    {IF m \in DOMAIN Broken THEN Broken[m] ELSE m : m \in t}

Blank == [fonts |-> 0, paths |-> 0, image |-> TRUE]

Digital(page1, fitz, cells) ==
    [page1 |-> page1, fitz |-> fitz, cells |-> cells, scans |-> <<{}>>,
     scanCells |-> {}, pages |-> <<[fonts |-> 1, paths |-> 1, image |-> FALSE]>>]

Scan(scans, cells, pages) ==
    [page1 |-> {}, fitz |-> {}, cells |-> {}, scans |-> scans,
     scanCells |-> cells, pages |-> pages]

SomePages == [fonts : {0, 1}, paths : 0..MinDrawings, image : BOOLEAN]

MCDocuments ==
    {Digital(t, t, c) : t \in Texts, c \in CellSets}
    \cup {Digital({}, t, {}) : t \in Texts}
    \cup {Digital(t, {}, c) : t \in Texts, c \in {{}, CellLabel}}
    \cup {Scan(<<t>>, c, <<Blank>>) : t \in Texts, c \in CellSets}
    \cup {Scan(<<BreakBanners(t), {"lgh"}>>, CellLabel, <<Blank, Blank>>) :
             t \in Texts}
    \cup {Scan(<<{}>>, {}, <<p>>) : p \in SomePages}
    \cup {Scan(<<{}, {"other text"}>>, {}, <<p, q>>) : p, q \in SomePages}
=============================================================================
