------------------------------ MODULE MCTexts ------------------------------
(***************************************************************************)
(* Small instances of the machines that turn texts into values and values  *)
(* into a text: the parser of transcriptions, the walk over the lines of a *)
(* report, the word grid of a scan, and the filling of the statement. They *)
(* share no state; a behaviour is one of them at work on one text.         *)
(***************************************************************************)
EXTENDS CommandParser, Samintecknad, WordGrid, LghCells, ComparableSales, Statement, TLC

-----------------------------------------------------------------------------
\* Transcriptions: one utterance of every shape, two utterances of every kind.

Numbers == {"3", "7"}

Fillers == {<<"uh">>, <<"you", "know">>}

KnownDates == {<<"friday">>}

Dims(key, values) == [key : {key}, value : values]

\* Some values hold words of the grammar, and tasks have no tag.
AllDims ==
    Dims("title", {<<>>, <<"milk">>, <<"you", "know", "command", "note">>,
                   <<"value", "7", "dimension">>})
        \cup Dims("content", {<<>>, <<"high">>, <<"task", "title", "dimension">>})
        \cup Dims("date", {<<"next", "friday">>, <<"friday">>, <<"next">>})
        \cup Dims("priority", {<<"high">>, <<"high", "milk">>})
        \cup Dims("tag", {<<"milk">>})

\* What is said before the dimensions, and the title it means.
Headings == { [said |-> <<>>, meant |-> <<>>],
              [said |-> <<"milk", "task">>, meant |-> <<"milk", "task">>],
              [said |-> <<"you", "know", "uh", "milk", "know">>,
               meant |-> <<"milk", "know">>] }

Utterances(leads, numbers, headings, dims) ==
    {[operation |-> o, table |-> t, lead |-> l, number |-> n,
      preamble |-> h.said, heading |-> h.meant, dims |-> d] :
        o \in Operations, t \in Tables, l \in leads, n \in numbers,
        h \in headings, d \in dims}

Alone ==
    {u \in Utterances({<<"uh">>}, {<<>>, <<"3">>}, Headings, BoundedSeq(AllDims, 2)) :
        Grammatical(u)}

Together ==
    {u \in Utterances({<<>>}, {<<>>, <<"3">>},
                      {h \in Headings : Len(h.said) # 2},
                      BoundedSeq(Dims("title", {<<"command">>})
                                    \cup Dims("content", {<<"milk">>}), 1)) :
        Grammatical(u)}

Spelt == Keywords \cup Numbers \cup
    {"uh", "you", "know", "milk", "high", "friday", "next"}

Speech ==
    {[preface |-> <<>>, utterances |-> <<u>>] : u \in Alone}
        \cup {[preface |-> <<"task", "command">>, utterances |-> <<u, v>>] :
                  u \in Together, v \in Together}
-----------------------------------------------------------------------------
\* Reports: purchases and mortgages, present, past or of a contract, in tables
\* with and without column headers, with a page break in one of them or none.

Piece(kind, header, columns) ==
    [kind |-> kind, section |-> header, columns |-> columns, phrase |-> NoValue,
     row |-> NoValue, other |-> NoValue, legible |-> TRUE]

Row(phrase, row, other, legible) ==
    [phrase |-> phrase, row |-> row, other |-> other, legible |-> legible]

Mortgages ==
    { Row("mortgage", "1", "Hok 1:2", TRUE), Row("mortgage", "2", "Byn 3:4", FALSE),
      Row(NoValue, "3", NoValue, TRUE) }

Purchases ==
    { Row("purchase", "2019-02-11", NoValue, TRUE), Row(NoValue, "2020-01-01", NoValue, TRUE) }

\* A section, in either rendering; wherever it is broken by a page, its headers
\* are printed again.
Block(header, columns, rows, linear) ==
    <<Piece("title", header, columns)>>
        \o (IF columns THEN <<Piece("columns", header, columns)>> ELSE <<>>)
        \o [k \in DOMAIN rows |->
              [kind |-> IF linear \/ rows[k].other = NoValue THEN "line" ELSE "wrapped",
               section |-> header, columns |-> columns, phrase |-> rows[k].phrase,
               row |-> rows[k].row, other |-> rows[k].other, legible |-> rows[k].legible]]

Blocks(columns, past, purchase, mortgages, linear) ==
    Block("other", FALSE, <<Row("purchase", NoValue, NoValue, TRUE)>>, linear)
        \o Block("agare", columns, <<purchase>>, linear)
        \o Block("tidigare_agare", columns, <<past, past>>, linear)
        \o Block("other", FALSE, <<Row("mortgage", "9", "Tra 9:9", TRUE)>>, linear)
        \o Block("inteckningar", FALSE, mortgages, linear)

\* Without a page break, with one between two pieces, and with one in a row.
Paged(pieces) ==
    {pieces}
        \cup {SubSeq(pieces, 1, i) \o <<Piece("page", pieces[i].section, pieces[i].columns)>>
                 \o SubSeq(pieces, i + 1, Len(pieces)) : i \in 1 .. Len(pieces) - 1}
        \cup {[pieces EXCEPT ![i].kind = "torn"] :
                 i \in {j \in DOMAIN pieces : pieces[j].kind = "wrapped"}}

AllReports ==
    UNION {
        {[banner |-> b, pieces |-> pieces] : pieces \in Paged(Blocks(c, p, q, m, l))} :
        b \in BOOLEAN, l \in BOOLEAN, c \in BOOLEAN, p \in Purchases, q \in Purchases,
        m \in SeqOf(Mortgages, 2)}

AllWords == {"1", "2", "3", "9", "2019-02-11", "2020-01-01", "Hok 1:2", "Byn 3:4", "Tra 9:9"}

NoReport == [banner |-> FALSE, pieces |-> <<>>]

-----------------------------------------------------------------------------
\* Pages: two columns of two labels each, some without a value, one with a
\* value that wraps; one cell is set or scanned out of line.

Places == (1 .. 2) \X (1 .. 2)

LabelAt == (<<1, 1>> :> <<"objekt">>) @@ (<<1, 2>> :> <<"osakerhet", "uppat">>)
              @@ (<<2, 1>> :> <<"adress">>) @@ (<<2, 2>> :> <<"area">>)

CellBelow == (<<1, 1>> :> <<"Hok", "2:139">>) @@ (<<1, 2>> :> <<"12", "%">>)
              @@ (<<2, 1>> :> <<"Byn">>) @@ (<<2, 2>> :> <<"85">>)

\* A label's row, its value's and the row below that.
Printed(words, place, kind, mode, value, second) ==
    LET top == 40 * (place[1] - 1)
                  + (CASE kind = "label" -> 0 [] kind = "value" -> 15 [] OTHER -> 25)
    IN  [words |-> words,
         line |-> IF mode = "rows" THEN top ELSE 100 * place[2] + top,
         x |-> 40 * (place[2] - 1),
         tops |-> [k \in DOMAIN words |-> top],
         label |-> kind = "label", value |-> value, second |-> second]

\* How a cell is set or scanned out of line.
Crooked(cell, how) ==
    CASE how = "right" -> [cell EXCEPT !.x = @ + 3]
      [] how = "low" -> [cell EXCEPT !.tops = [k \in DOMAIN @ |-> @[k] + 3]]
      [] how = "falling" -> [cell EXCEPT !.tops = [k \in DOMAIN @ |-> @[k] + 3 * (k - 1)]]
      [] OTHER -> cell

Grid(valued, wrapped, mode) ==
    {Printed(LabelAt[p], p, "label", mode,
             IF p \in valued THEN CellBelow[p] ELSE NoCell,
             IF p \in valued \cap wrapped THEN <<"12950", "Hagersten">> ELSE NoCell) :
        p \in Places}
      \cup {Printed(CellBelow[p], p, "value", mode, NoCell, NoCell) : p \in valued}
      \cup {Printed(<<"12950", "Hagersten">>, p, "second", mode, NoCell, NoCell) :
               p \in valued \cap wrapped}

AllPages ==
    UNION {LET s == Grid(valued, wrapped, mode) IN
           {(s \ {c}) \cup {Crooked(c, how)} :
                c \in s, how \in {"straight", "right", "low", "falling"}} :
        valued \in SUBSET Places, wrapped \in {{}, {<<1, 1>>}}, mode \in {"rows", "columns"}}

PrintedWords == UNION {ToSet(LabelAt[p]) \cup ToSet(CellBelow[p]) : p \in Places}
                    \cup {"12950", "Hagersten"}

-----------------------------------------------------------------------------
\* Registers: labels with and without a value, an address and its postort, two
\* labels of one key, and headings that are no labels.

Cell(label, value, copies) ==
    <<[line |-> label, value |-> FALSE, copies |-> copies]>>
        \o [n \in DOMAIN value |-> [line |-> value[n], value |-> TRUE, copies |-> copies]]

AllRegisters ==
    {Cell("utdrag", <<>>, c) \o Cell("lghnr", l, 1) \o Cell("skateverketslghnr", s, c)
        \o Cell("adress", a, d) \o Cell("kontaktuppgifter", <<"Anna">>, 1)
        \o Cell("forening", f, c) \o Cell("skatteverketslghnr", <<"1303">>, d) :
        c \in {1, 4}, d \in {1, 4}, l \in {<<>>, <<"12">>}, s \in {<<>>, <<"1303">>},
        a \in {<<>>, <<"Gatan 12", "12950 Hagersten">>}, f \in {<<>>, <<"Brf">>}}

AllLines == Known \cup
    {"utdrag", "kontaktuppgifter", "12", "1303", "Gatan 12", "12950 Hagersten", "Anna", "Brf"}

-----------------------------------------------------------------------------
\* Tables of sales: a heading, and rows with or without a balcony, with a name
\* of one or of two words, and with a column that is blank or none.

Sale(forening, balkong) ==
    [forening |-> forening, area_m2 |-> "72", balkong |-> balkong,
     avgift_kr_manad |-> "6307", arsavgift_kr |-> "302610", pris_kr |-> "2920000",
     pris_per_m2 |-> "40556", salj_datum |-> "2026-04"]

SomeMonths == {"2026-04"}

SomeWords == SomeMonths \cup Balkong \cup
    {"Forening", "Brf", "Balkong", "72", "6307", "302610", "2920000", "40556"}

Heading == [Sale(<<"Forening">>, "Balkong") EXCEPT !.salj_datum = NoColumn]

SomeSales ==
    LET whole == {Sale(f, b) : f \in {<<>>, <<"Brf">>, <<"Brf", "Ja">>},
                               b \in {NoColumn, "Ja", "Nej"}}
    IN  whole \cup {[s EXCEPT ![c] = NoColumn] :
                       s \in whole, c \in ToSet(Columns) \ {"salj_datum"}}

AllTables == {<<Heading, s, t>> : s \in SomeSales, t \in SomeSales}

-----------------------------------------------------------------------------
\* Requests: both tenures, every mix of sources, amounts however they were
\* typed, dates that are ISO dates and that are not, and every way to answer.

Reviewable ==
    [mode |-> "bostadsratt", format |-> "docx", installed |-> TRUE,
     objekt |-> <<"LGH", " ", "1303", " ", "(7696097448)">>,
     objekt_short |-> <<"LGH", " ", "1303">>,
     adress |-> <<"Hanna", " ", "Rydhs", " ", "gata">>, kommun |-> <<"Hagersten">>,
     upplatelseform |-> <<"Bostadsratt">>, datavardering_date |-> <<>>,
     fastighetsutdrag_date |-> <<>>, lagenhetsforteckning_date |-> <<>>,
     bilder_note |-> <<>>, likviditet |-> <<"god">>,
     marknadsvarde_kr |-> <<"3", "0", "5", "0", "0", "0", "0">>,
     intervall_kr |-> <<"5", "0", " ", "0", "0", "0">>, ort |-> <<"Stockholm">>,
     datum |-> <<"2026", "-", "06", "-", "01">>, shown |-> <<"1", "/", "6", "/", "2026">>,
     maklare_namn |-> <<"Anna", " ", "Andersson">>, maklare_titel |-> <<"Maklare">>,
     foretag |-> <<"Maklarna">>]

Amounts == { <<>>, <<"-">>, <<"9">>, <<" ">>, <<"5", "0", "0">>, <<"1", " ", "0", "0", "0">>,
             <<"1", "2", "3", "4", "5", "6">>, <<"1", "2", "3", "4", "5", "6", " ", "7">> }

\* What re.sub rejects, what it makes of the rest, and a character of which no
\* docx can be made.
Backslashed == {"C:\\q"}

Matched == <<" ", "[Fyll pa ifall bilder]", ".">>

Escaped == ("\\n" :> <<"\n">>) @@ ("\\\\" :> <<"\\">>) @@ ("\\g<0>" :> Matched)
              @@ ("\\a" :> <<"BEL">>)

Unprintable == {"BEL"}

Notes == { <<"Se", " ", "C:", "\\n", "ytt">>, <<"\\g<0>">>, <<"C:", "\\\\", "\\-">>,
           <<"Se", " ", "\\a">> }

AllRequests ==
    {[Reviewable EXCEPT !.mode = mode, !.datavardering_date = d,
                        !.fastighetsutdrag_date = e, !.lagenhetsforteckning_date = l,
                        !.bilder_note = note, !.ort = ort] :
        mode \in {"bostadsratt", "frikopt"},
        d \in {<<>>, <<"2026-05-01">>}, e \in {<<>>, <<"2026-05-02">>},
        l \in {<<>>, <<"2026-05-03">>}, note \in {<<>>, <<"Badrum", " ", "1990", ".">>},
        ort \in {<<>>, <<"Hok">>}}
    \cup {[Reviewable EXCEPT !.marknadsvarde_kr = m, !.intervall_kr = i] :
             m \in Amounts, i \in Amounts}
    \cup {[Reviewable EXCEPT !.datum = d, !.shown = d, !.adress = a, !.objekt = a,
                             !.maklare_titel = a] :
             d \in {<<>>, <<"1", "/", "6">>}, a \in {<<>>, <<"Byn">>, <<"BEL">>}}
    \cup {[Reviewable EXCEPT !.bilder_note = note, !.datavardering_date = d] :
             note \in Notes, d \in {<<>>, <<"2026-05-01">>}}
    \cup {[Reviewable EXCEPT !.format = format, !.installed = i, !.maklare_namn = name,
                             !.bilder_note = note] :
             format \in {"docx", "pdf"}, i \in BOOLEAN,
             name \in {<<>>, <<" ">>, <<"Anna">>}, note \in {<<>>, <<"C:\\q">>}}

-----------------------------------------------------------------------------
\* One machine starts, and the others have nothing to do.

ParserIdle ==
    /\ speech = [preface |-> <<>>, utterances |-> <<>>]
    /\ todo = <<>> /\ result = Empty

WalkIdle == report = NoReport /\ read = 0 /\ section = NoValue /\ evidence = <<>>

GridIdle == page = {} /\ unread = <<>> /\ run = <<>> /\ cells = <<>>

StatementIdle ==
    /\ request = Reviewable /\ filled = <<>> /\ workdir = None /\ soffice = "idle"
    /\ answer = [status |-> 0, document |-> None]

LghIdle == register = <<>> /\ linesRead = 0 /\ lghCell = <<>>

SalesIdle == salesTable = <<>> /\ rowsRead = 0 /\ sales = <<>>

TextsInit ==
    \/ Init /\ WalkIdle /\ GridIdle /\ LghIdle /\ SalesIdle /\ StatementIdle
    \/ ParserIdle /\ WalkInit /\ GridIdle /\ LghIdle /\ SalesIdle /\ StatementIdle
    \/ ParserIdle /\ WalkIdle /\ GridInit /\ LghIdle /\ SalesIdle /\ StatementIdle
    \/ ParserIdle /\ WalkIdle /\ GridIdle /\ LghInit /\ SalesIdle /\ StatementIdle
    \/ ParserIdle /\ WalkIdle /\ GridIdle /\ LghIdle /\ SalesInit /\ StatementIdle
    \/ ParserIdle /\ WalkIdle /\ GridIdle /\ LghIdle /\ SalesIdle /\ StatementInit

TextsNext ==
    \/ Next /\ UNCHANGED <<walkVars, gridVars, lghVars, salesVars, statementVars>>
    \/ ReadLine /\ UNCHANGED <<vars, gridVars, lghVars, salesVars, statementVars>>
    \/ GridNext /\ UNCHANGED <<vars, walkVars, lghVars, salesVars, statementVars>>
    \/ ReadLabel /\ UNCHANGED <<vars, walkVars, gridVars, salesVars, statementVars>>
    \/ ReadRow /\ UNCHANGED <<vars, walkVars, gridVars, lghVars, statementVars>>
    \/ StatementNext /\ UNCHANGED <<vars, walkVars, gridVars, lghVars, salesVars>>

textsVars == <<vars, walkVars, gridVars, lghVars, salesVars, statementVars>>

TextsSpec == TextsInit /\ [][TextsNext]_textsVars
=============================================================================
