----------------------------- MODULE TextsProofs -----------------------------
(***************************************************************************)
(* What the machines that read documents and speech and write the          *)
(* statement promise, for any of their inputs: the answer to /generate is  *)
(* signed and whole, the sales and the cells that were read are the        *)
(* printed ones, the evidence of a report is what it says, what a caller   *)
(* says by the grammar is understood, and the value below a label of a     *)
(* scanned page is the one that was printed there. The six share no state; *)
(* the lemmas on sequences in the middle are used by the last four.        *)
(***************************************************************************)
EXTENDS Statement, ComparableSales, LghCells, Samintecknad, CommandParser, WordGrid,
        SequenceTheorems, FiniteSetTheorems, WellFoundedInduction, TLAPS

-----------------------------------------------------------------------------
\* The statement: what the conversion has passed before it was started, and that
\* nobody writes to the directory of a LibreOffice that exited.

StatementTypeOK ==
    /\ workdir \in Directory
    /\ soffice \in {"idle", "running", "exited", "failed", "orphaned"}
    /\ answer \in {None} \cup Answers

\* A paragraph is filled of a signed statement only, and it is converted once
\* all are.
StartSound ==
    /\ filled = <<>> \/ Signed(request)
    /\ soffice = "idle" => workdir = None
    /\ soffice # "idle" => /\ request.format = "pdf" /\ request.installed
                           /\ Len(filled) = Len(Template)

\* Until it is read, the directory is there, and no file is half-written once
\* LibreOffice has exited.
DirectorySound ==
    /\ soffice = "running" => answer = None
    /\ soffice # "idle" /\ answer = None => workdir # None
    /\ soffice = "exited" => workdir # {"part"}

StatementInv == StatementTypeOK /\ StartSound /\ DirectorySound /\ AnswerIsWhole

-----------------------------------------------------------------------------

LEMMA TemplateIsLong == Len(Template) \in Nat \ {0}
  BY DEF Template

\* Whoever is ready to answer has a signed statement.
LEMMA ReadyIsSigned == StatementInv /\ Ready => Signed(request)
<1>1. Len(<<>>) = 0
  OBVIOUS
<1> QED
  BY <1>1, TemplateIsLong DEF StatementInv, StartSound, Ready

\* An answer that is given while LibreOffice is idle.
LEMMA IdleAnswer ==
    ASSUME StatementInv, soffice = "idle", NEW status, NEW document,
           answer' = [status |-> status, document |-> document],
           answer' \in Answers,
           status = 200 => Signed(request) /\ document = "docx",
           UNCHANGED <<request, filled, workdir, soffice>>
    PROVE  StatementInv'
<1>1. StatementTypeOK'
  BY DEF StatementInv, StatementTypeOK
<1>2. StartSound' /\ DirectorySound'
  BY DEF StatementInv, StartSound, DirectorySound, Signed
<1>3. AnswerIsWhole'
  BY DEF StatementInv, StartSound, AnswerIsWhole, Signed
<1> QED
  BY <1>1, <1>2, <1>3 DEF StatementInv

LEMMA StatementInitially == StatementInit => StatementInv
  BY DEF StatementInit, StatementInv, StatementTypeOK, StartSound, DirectorySound,
     AnswerIsWhole, Directory

LEMMA RefuseKeeps == StatementInv /\ Refuse => StatementInv'
<1> SUFFICES ASSUME StatementInv, Refuse PROVE StatementInv'
  OBVIOUS
<1>1. soffice = "idle"
  <2>1. filled = <<>>
    BY DEF StatementInv, StartSound, Refuse
  <2> QED
    BY <2>1, TemplateIsLong DEF StatementInv, StartSound
<1>2. /\ answer' = [status |-> 422, document |-> None]
      /\ UNCHANGED <<request, filled, workdir, soffice>>
  BY DEF Refuse, Answer
<1> QED
  BY <1>1, <1>2, IdleAnswer DEF Answers

LEMMA FillParagraphKeeps == StatementInv /\ FillParagraph => StatementInv'
<1> SUFFICES ASSUME StatementInv, FillParagraph PROVE StatementInv'
  OBVIOUS
<1>1. /\ answer = None /\ Signed(request) /\ Len(filled) < Len(Template)
      /\ UNCHANGED <<request, workdir, soffice>>
  BY DEF FillParagraph
<1>2. soffice = "idle"
  BY <1>1, TemplateIsLong DEF StatementInv, StartSound
<1>3. CASE answer' = [status |-> 500, document |-> None] /\ UNCHANGED filled
  BY <1>1, <1>2, <1>3, IdleAnswer DEF Answers
<1>4. CASE UNCHANGED answer
  <2>1. StatementTypeOK'
    BY <1>1, <1>4 DEF StatementInv, StatementTypeOK
  <2>2. StartSound' /\ DirectorySound' /\ AnswerIsWhole'
    BY <1>1, <1>2, <1>4
    DEF StatementInv, StartSound, DirectorySound, AnswerIsWhole, Signed
  <2> QED
    BY <2>1, <2>2 DEF StatementInv
<1> QED
  BY <1>3, <1>4 DEF FillParagraph, Answer

LEMMA AnswerDocxKeeps == StatementInv /\ AnswerDocx => StatementInv'
<1> SUFFICES ASSUME StatementInv, AnswerDocx PROVE StatementInv'
  OBVIOUS
<1>1. soffice = "idle"
  BY DEF StatementInv, StartSound, AnswerDocx
<1>2. /\ answer' = [status |-> 200, document |-> "docx"] /\ Signed(request)
      /\ UNCHANGED <<request, filled, workdir, soffice>>
  BY ReadyIsSigned DEF AnswerDocx, Answer
<1> QED
  BY <1>1, <1>2, IdleAnswer DEF Answers

LEMMA NoSofficeKeeps == StatementInv /\ NoSoffice => StatementInv'
<1> SUFFICES ASSUME StatementInv, NoSoffice PROVE StatementInv'
  OBVIOUS
<1>1. soffice = "idle"
  BY DEF StatementInv, StartSound, NoSoffice
<1>2. /\ answer' = [status |-> 503, document |-> None]
      /\ UNCHANGED <<request, filled, workdir, soffice>>
  BY DEF NoSoffice, Answer
<1> QED
  BY <1>1, <1>2, IdleAnswer DEF Answers

LEMMA StartSofficeKeeps == StatementInv /\ StartSoffice => StatementInv'
<1> SUFFICES ASSUME StatementInv, StartSoffice PROVE StatementInv'
  OBVIOUS
<1>1. /\ Ready /\ request.format = "pdf" /\ request.installed
      /\ workdir' = {} /\ soffice' = "running"
      /\ UNCHANGED <<request, filled, answer>>
  BY DEF StartSoffice
<1>2. StatementTypeOK'
  BY <1>1 DEF StatementInv, StatementTypeOK, Directory
<1>3. StartSound'
  BY <1>1 DEF StatementInv, StartSound, Ready, Signed
<1>4. DirectorySound' /\ AnswerIsWhole'
  BY <1>1, NoAnswerAssumption DEF DirectorySound, AnswerIsWhole, Ready
<1> QED
  BY <1>2, <1>3, <1>4 DEF StatementInv

LEMMA WriteKeeps == StatementInv /\ Write => StatementInv'
<1> SUFFICES ASSUME StatementInv, Write PROVE StatementInv'
  OBVIOUS
<1>1. /\ soffice \in {"running", "orphaned"} /\ workdir # None
      /\ workdir' \in {{"part"}, {"whole"}}
      /\ UNCHANGED <<request, filled, soffice, answer>>
  BY DEF Write
<1>2. StatementTypeOK'
  BY <1>1 DEF StatementInv, StatementTypeOK, Directory
<1>3. StartSound'
  BY <1>1 DEF StatementInv, StartSound, Signed
<1>4. DirectorySound' /\ AnswerIsWhole'
  BY <1>1, NoAnswerAssumption DEF StatementInv, DirectorySound, AnswerIsWhole
<1> QED
  BY <1>2, <1>3, <1>4 DEF StatementInv

LEMMA ExitKeeps == StatementInv /\ Exit => StatementInv'
<1> SUFFICES ASSUME StatementInv, Exit PROVE StatementInv'
  OBVIOUS
<1>1. /\ soffice = "running" /\ soffice' \in {"exited", "failed"}
      /\ soffice' = "exited" => workdir # {"part"}
      /\ UNCHANGED <<request, filled, workdir, answer>>
  BY DEF Exit
<1>2. StatementTypeOK'
  BY <1>1 DEF StatementInv, StatementTypeOK
<1>3. StartSound' /\ DirectorySound' /\ AnswerIsWhole'
  BY <1>1 DEF StatementInv, StartSound, DirectorySound, AnswerIsWhole, Signed
<1> QED
  BY <1>2, <1>3 DEF StatementInv

LEMMA TimeOutKeeps == StatementInv /\ TimeOut => StatementInv'
<1> SUFFICES ASSUME StatementInv, TimeOut PROVE StatementInv'
  OBVIOUS
<1>1. /\ soffice = "running" /\ soffice' = "orphaned"
      /\ UNCHANGED <<request, filled, workdir, answer>>
  BY DEF TimeOut
<1>2. StatementTypeOK'
  BY <1>1 DEF StatementInv, StatementTypeOK
<1>3. StartSound' /\ DirectorySound' /\ AnswerIsWhole'
  BY <1>1 DEF StatementInv, StartSound, DirectorySound, AnswerIsWhole, Signed
<1> QED
  BY <1>2, <1>3 DEF StatementInv

LEMMA CloseKeeps == StatementInv /\ Close => StatementInv'
<1> SUFFICES ASSUME StatementInv, Close PROVE StatementInv'
  OBVIOUS
<1>1. /\ Ready /\ soffice \in {"exited", "failed", "orphaned"}
      /\ workdir' = None \/ (soffice = "orphaned" /\ workdir' = workdir)
      /\ UNCHANGED <<request, filled, soffice>>
  BY DEF Close
<1>2. \/ answer' = [status |-> 500, document |-> None]
      \/ answer' = [status |-> 200, document |-> "whole"]
  <2>1. CASE soffice = "exited" /\ workdir # {}
    <3>1. workdir = {"whole"}
      BY <1>1, <2>1 DEF StatementInv, StatementTypeOK, Directory, DirectorySound, Ready
    <3> QED
      BY <2>1, <3>1 DEF Close, Answer
  <2>2. CASE ~(soffice = "exited" /\ workdir # {})
    BY <2>2 DEF Close, Answer
  <2> QED
    BY <2>1, <2>2
<1>3. answer' \in Answers
  BY <1>2 DEF Answers
<1>4. StatementTypeOK'
  BY <1>1, <1>3 DEF StatementInv, StatementTypeOK, Directory
<1>5. StartSound'
  BY <1>1 DEF StatementInv, StartSound, Signed
<1>6. DirectorySound'
  BY <1>1, <1>3, NoAnswerAssumption DEF StatementInv, DirectorySound, Ready
<1>7. AnswerIsWhole'
  <2>1. Signed(request)'
    BY <1>1, ReadyIsSigned DEF Signed
  <2> QED
    BY <1>1, <1>2, <2>1 DEF AnswerIsWhole, Signed
<1> QED
  BY <1>4, <1>5, <1>6, <1>7 DEF StatementInv

LEMMA StatementInductive == StatementInv /\ [StatementNext]_statementVars => StatementInv'
<1> SUFFICES ASSUME StatementInv, [StatementNext]_statementVars PROVE StatementInv'
  OBVIOUS
<1>1. CASE UNCHANGED statementVars
  BY <1>1 DEF statementVars, StatementInv, StatementTypeOK, StartSound, DirectorySound,
     AnswerIsWhole, Signed
<1>2. CASE StatementNext
  BY <1>2, RefuseKeeps, FillParagraphKeeps, AnswerDocxKeeps, NoSofficeKeeps,
     StartSofficeKeeps, WriteKeeps, ExitKeeps, TimeOutKeeps, CloseKeeps
  DEF StatementNext
<1> QED
  BY <1>1, <1>2

\* What is answered is signed and whole, and a conversion leaves no directory
\* behind unless it timed out (generate_filled_docx, docx_to_pdf).
THEOREM WholeTheorem == StatementSpec => []AnswerIsWhole
<1>1. StatementInv => AnswerIsWhole
  BY DEF StatementInv
<1> QED
  BY <1>1, StatementInitially, StatementInductive, PTL DEF StatementSpec

-----------------------------------------------------------------------------
\* The sales: the words of a row.

\* How many words a column has.
Width(w) == IF w = NoColumn THEN 0 ELSE 1

\* t is s with the word of a column, if it has one, after it.
Extends(t, s, w) ==
    /\ Len(t) = Len(s) + Width(w)
    /\ \A i \in 1 .. Len(s) : t[i] = s[i]
    /\ w # NoColumn => t[Len(s) + 1] = w

LEMMA ExtendsKeeps ==
    ASSUME NEW t, NEW s, NEW w, Extends(t, s, w), Len(s) \in Nat, Width(w) \in {0, 1}
    PROVE  \A i \in 1 .. Len(s) : i \in 1 .. Len(t) /\ t[i] = s[i]
<1> DEFINE m == Len(s)
           n == Len(t)
           d == Width(w)
<1>1. n = m + d /\ m \in Nat /\ d \in {0, 1}
  BY DEF Extends
<1>2. \A i \in 1 .. m : i \in 1 .. n
  <2> HIDE DEF m, n, d
  <2> QED
    BY <1>1
<1> QED
  BY <1>2 DEF Extends

LEMMA WordAppended ==
    ASSUME NEW S, NEW s \in Seq(S), NEW w \in S \cup {NoColumn}
    PROVE  s \o Word(w) \in Seq(S) /\ Extends(s \o Word(w), s, w)
<1>1. CASE w = NoColumn
  <2>1. s \o Word(w) = s /\ Width(w) = 0 /\ Len(s) \in Nat
    BY <1>1, ConcatEmptySeq, LenProperties DEF Word, Width
  <2> QED
    BY <1>1, <2>1 DEF Extends
<1>2. CASE w # NoColumn
  <2>1. w \in S /\ Word(w) = <<w>> /\ Width(w) = 1
    BY <1>2 DEF Word, Width
  <2>2. <<w>> \in Seq(S) /\ Len(<<w>>) = 1 /\ <<w>>[1] = w
    BY <2>1
  <2> QED
    BY <1>2, <2>1, <2>2, ConcatProperties, LenProperties DEF Extends
<1> QED
  BY <1>1, <1>2

\* All that a row has before its month.
Values(r) ==
    r.forening \o Word(r.area_m2) \o Word(r.balkong) \o Word(r.avgift_kr_manad)
        \o Word(r.arsavgift_kr) \o Word(r.pris_kr) \o Word(r.pris_per_m2)

\* Where the values stand, from the left.
LEMMA ValuesPrinted ==
    ASSUME NEW S, NEW r, r.forening \in Seq(S), r.area_m2 \in S \cup {NoColumn},
           r.balkong \in S \cup {NoColumn}, r.avgift_kr_manad \in S \cup {NoColumn},
           r.arsavgift_kr \in S \cup {NoColumn}, r.pris_kr \in S \cup {NoColumn},
           r.pris_per_m2 \in S \cup {NoColumn}
    PROVE  /\ Values(r) \in Seq(S)
           /\ Len(Values(r)) =
                 Len(r.forening) + Width(r.area_m2) + Width(r.balkong)
                    + Width(r.avgift_kr_manad) + Width(r.arsavgift_kr)
                    + Width(r.pris_kr) + Width(r.pris_per_m2)
           /\ \A i \in 1 .. Len(r.forening) : Values(r)[i] = r.forening[i]
           /\ r.area_m2 # NoColumn => Values(r)[Len(r.forening) + 1] = r.area_m2
           /\ r.balkong # NoColumn =>
                 Values(r)[Len(r.forening) + Width(r.area_m2) + 1] = r.balkong
           /\ r.avgift_kr_manad # NoColumn =>
                 Values(r)[Len(r.forening) + Width(r.area_m2) + Width(r.balkong) + 1]
                    = r.avgift_kr_manad
           /\ r.arsavgift_kr # NoColumn =>
                 Values(r)[Len(r.forening) + Width(r.area_m2) + Width(r.balkong)
                              + Width(r.avgift_kr_manad) + 1] = r.arsavgift_kr
           /\ r.pris_kr # NoColumn =>
                 Values(r)[Len(r.forening) + Width(r.area_m2) + Width(r.balkong)
                              + Width(r.avgift_kr_manad) + Width(r.arsavgift_kr) + 1]
                    = r.pris_kr
           /\ r.pris_per_m2 # NoColumn =>
                 Values(r)[Len(r.forening) + Width(r.area_m2) + Width(r.balkong)
                              + Width(r.avgift_kr_manad) + Width(r.arsavgift_kr)
                              + Width(r.pris_kr) + 1] = r.pris_per_m2
<1> DEFINE v1 == r.forening \o Word(r.area_m2)
           v2 == v1 \o Word(r.balkong)
           v3 == v2 \o Word(r.avgift_kr_manad)
           v4 == v3 \o Word(r.arsavgift_kr)
           v5 == v4 \o Word(r.pris_kr)
           v6 == v5 \o Word(r.pris_per_m2)
<1>1. Values(r) = v6
  BY DEF Values
<1>2. v1 \in Seq(S) /\ Extends(v1, r.forening, r.area_m2)
  BY WordAppended
<1> HIDE DEF v1
<1>3. v2 \in Seq(S) /\ Extends(v2, v1, r.balkong)
  BY <1>2, WordAppended
<1> HIDE DEF v2
<1>4. v3 \in Seq(S) /\ Extends(v3, v2, r.avgift_kr_manad)
  BY <1>3, WordAppended
<1> HIDE DEF v3
<1>5. v4 \in Seq(S) /\ Extends(v4, v3, r.arsavgift_kr)
  BY <1>4, WordAppended
<1> HIDE DEF v4
<1>6. v5 \in Seq(S) /\ Extends(v5, v4, r.pris_kr)
  BY <1>5, WordAppended
<1> HIDE DEF v5
<1>7. v6 \in Seq(S) /\ Extends(v6, v5, r.pris_per_m2)
  BY <1>6, WordAppended
<1> HIDE DEF v6
<1>8. \A w : Width(w) \in {0, 1}
  BY DEF Width
<1>9. \A w : w # NoColumn => Width(w) = 1
  BY DEF Width
<1>10. /\ Len(r.forening) \in Nat /\ Len(v1) \in Nat /\ Len(v2) \in Nat
      /\ Len(v3) \in Nat /\ Len(v4) \in Nat /\ Len(v5) \in Nat
  BY <1>2, <1>3, <1>4, <1>5, <1>6, LenProperties
<1>11. /\ \A i \in 1 .. Len(r.forening) : v6[i] = r.forening[i]
       /\ \A i \in 1 .. Len(v1) : v6[i] = v1[i]
       /\ \A i \in 1 .. Len(v2) : v6[i] = v2[i]
       /\ \A i \in 1 .. Len(v3) : v6[i] = v3[i]
       /\ \A i \in 1 .. Len(v4) : v6[i] = v4[i]
  <2>1. \A i \in 1 .. Len(v5) : v6[i] = v5[i]
    BY <1>7 DEF Extends
  <2>2. \A i \in 1 .. Len(v4) : i \in 1 .. Len(v5) /\ v5[i] = v4[i]
    BY <1>6, <1>8, <1>10, ExtendsKeeps
  <2>3. \A i \in 1 .. Len(v3) : i \in 1 .. Len(v4) /\ v4[i] = v3[i]
    BY <1>5, <1>8, <1>10, ExtendsKeeps
  <2>4. \A i \in 1 .. Len(v2) : i \in 1 .. Len(v3) /\ v3[i] = v2[i]
    BY <1>4, <1>8, <1>10, ExtendsKeeps
  <2>5. \A i \in 1 .. Len(v1) : i \in 1 .. Len(v2) /\ v2[i] = v1[i]
    BY <1>3, <1>8, <1>10, ExtendsKeeps
  <2>6. \A i \in 1 .. Len(r.forening) : i \in 1 .. Len(v1) /\ v1[i] = r.forening[i]
    BY <1>2, <1>8, <1>10, ExtendsKeeps
  <2> QED
    BY <2>1, <2>2, <2>3, <2>4, <2>5, <2>6, Zenon
<1>12. /\ Len(v2) = Len(r.forening) + Width(r.area_m2) + Width(r.balkong)
       /\ Len(v3) = Len(r.forening) + Width(r.area_m2) + Width(r.balkong)
                       + Width(r.avgift_kr_manad)
       /\ Len(v4) = Len(r.forening) + Width(r.area_m2) + Width(r.balkong)
                       + Width(r.avgift_kr_manad) + Width(r.arsavgift_kr)
       /\ Len(v5) = Len(r.forening) + Width(r.area_m2) + Width(r.balkong)
                       + Width(r.avgift_kr_manad) + Width(r.arsavgift_kr)
                       + Width(r.pris_kr)
  BY <1>2, <1>3, <1>4, <1>5, <1>6 DEF Extends
<1>13. r.area_m2 # NoColumn => v6[Len(r.forening) + 1] = r.area_m2
  BY <1>2, <1>9, <1>10, <1>11 DEF Extends
<1>14. r.balkong # NoColumn => v6[Len(v1) + 1] = r.balkong
  BY <1>3, <1>9, <1>10, <1>11 DEF Extends
<1>15. r.avgift_kr_manad # NoColumn => v6[Len(v2) + 1] = r.avgift_kr_manad
  BY <1>4, <1>9, <1>10, <1>11 DEF Extends
<1>16. r.arsavgift_kr # NoColumn => v6[Len(v3) + 1] = r.arsavgift_kr
  BY <1>5, <1>9, <1>10, <1>11 DEF Extends
<1>17. r.pris_kr # NoColumn => v6[Len(v4) + 1] = r.pris_kr
  BY <1>6, <1>7, <1>9, <1>10 DEF Extends
<1> QED
  BY <1>1, <1>2, <1>7, <1>11, <1>12, <1>13, <1>14, <1>15, <1>16, <1>17 DEF Extends

LEMMA ColumnsAre ==
    ToSet(Columns) = {"area_m2", "balkong", "avgift_kr_manad", "arsavgift_kr", "pris_kr",
                      "pris_per_m2", "salj_datum"}
<1>1. DOMAIN Columns = 1 .. 7
  BY DEF Columns
<1>2. 1 .. 7 = {1, 2, 3, 4, 5, 6, 7}
  OBVIOUS
<1> QED
  BY <1>1, <1>2 DEF ToSet, Columns

LEMMA RowFields ==
    ASSUME NEW r \in Rows
    PROVE  /\ r.forening \in Seq(SaleWords)
           /\ r.area_m2 \in Blankable /\ r.balkong \in Blankable
           /\ r.avgift_kr_manad \in Blankable /\ r.arsavgift_kr \in Blankable
           /\ r.pris_kr \in Blankable /\ r.pris_per_m2 \in Blankable
           /\ r.salj_datum \in Months \cup {NoColumn}
           /\ r = [forening |-> r.forening, area_m2 |-> r.area_m2, balkong |-> r.balkong,
                   avgift_kr_manad |-> r.avgift_kr_manad,
                   arsavgift_kr |-> r.arsavgift_kr, pris_kr |-> r.pris_kr,
                   pris_per_m2 |-> r.pris_per_m2, salj_datum |-> r.salj_datum]
  BY DEF Rows

\* A line with a month ends in it, and no other line does.
LEMMA MonthEndsSales ==
    ASSUME NEW r \in Rows, Legible(r)
    PROVE  /\ PrintedRow(r) \in Seq(SaleWords)
           /\ IsSale(r) <=> Len(PrintedRow(r)) > 1 /\ Last(PrintedRow(r)) \in Months
           /\ IsSale(r) => /\ Last(PrintedRow(r)) = r.salj_datum
                           /\ Front(PrintedRow(r)) = Values(r)
<1>1. /\ PrintedRow(r) = Values(r) \o Word(r.salj_datum)
      /\ NoColumn \notin SaleWords /\ Months \subseteq SaleWords
  BY SalesAssumption DEF PrintedRow, Values
<1>2. /\ Values(r) \in Seq(SaleWords) /\ PrintedRow(r) \in Seq(SaleWords)
      /\ Len(PrintedRow(r)) = Len(Values(r)) + Width(r.salj_datum)
      /\ \A i \in 1 .. Len(Values(r)) : PrintedRow(r)[i] = Values(r)[i]
      /\ r.salj_datum # NoColumn => PrintedRow(r)[Len(Values(r)) + 1] = r.salj_datum
  <2>1. Values(r) \in Seq(SaleWords)
    BY RowFields, ValuesPrinted DEF Blankable
  <2>2. r.salj_datum \in SaleWords \cup {NoColumn}
    BY <1>1, RowFields
  <2>3. PrintedRow(r) \in Seq(SaleWords) /\ Extends(PrintedRow(r), Values(r), r.salj_datum)
    BY <1>1, <2>1, <2>2, WordAppended
  <2> QED
    BY <2>1, <2>3 DEF Extends
<1>3. CASE r.salj_datum = NoColumn
  <2> DEFINE S == SaleWords \ Months
             taken == ToSet(r.forening) \cup {r[c] : c \in ToSet(Columns)}
  <2>1. taken \cap Months = {}
    BY <1>3 DEF Legible
  <2>2. /\ r.area_m2 \in taken /\ r.balkong \in taken /\ r.avgift_kr_manad \in taken
        /\ r.arsavgift_kr \in taken /\ r.pris_kr \in taken /\ r.pris_per_m2 \in taken
    BY ColumnsAre
  <2>3. /\ r.area_m2 \in S \cup {NoColumn} /\ r.balkong \in S \cup {NoColumn}
        /\ r.avgift_kr_manad \in S \cup {NoColumn}
        /\ r.arsavgift_kr \in S \cup {NoColumn}
        /\ r.pris_kr \in S \cup {NoColumn} /\ r.pris_per_m2 \in S \cup {NoColumn}
    BY <2>1, <2>2, RowFields DEF Blankable
  <2>4. r.forening \in Seq(S)
    <3>1. Len(r.forening) \in Nat /\ r.forening \in [1 .. Len(r.forening) -> SaleWords]
      BY RowFields, LenProperties
    <3>2. ASSUME NEW i \in 1 .. Len(r.forening) PROVE r.forening[i] \in S
      <4>1. r.forening[i] \in ToSet(r.forening)
        BY <3>1 DEF ToSet
      <4> QED
        BY <2>1, <3>1, <4>1
    <3>3. r.forening \in [1 .. Len(r.forening) -> S]
      BY <3>1, <3>2
    <3> QED
      BY <3>1, <3>3
  <2>5. Values(r) \in Seq(S)
    BY <2>3, <2>4, ValuesPrinted
  <2>6. PrintedRow(r) \in Seq(S)
    BY <1>1, <1>3, <2>5, WordAppended
  <2>7. Len(PrintedRow(r)) > 1 => Last(PrintedRow(r)) \in S
    <3> SUFFICES ASSUME Len(PrintedRow(r)) > 1 PROVE Last(PrintedRow(r)) \in S
      OBVIOUS
    <3>1. Len(PrintedRow(r)) \in 1 .. Len(PrintedRow(r))
      BY <2>6, LenProperties
    <3> QED
      BY <2>6, <3>1, ElementOfSeq DEF Last
  <2> QED
    BY <1>2, <1>3, <2>7 DEF IsSale
<1>4. CASE r.salj_datum # NoColumn
  <2>1. Len(PrintedRow(r)) = Len(Values(r)) + 1 /\ Len(Values(r)) \in Nat
    BY <1>2, <1>4, LenProperties DEF Width
  <2>2. Last(PrintedRow(r)) = r.salj_datum /\ r.salj_datum \in Months
    BY <1>2, <1>4, <2>1, RowFields DEF Last
  <2>3. Front(PrintedRow(r)) = Values(r)
    <3>1. \A i \in 1 .. Len(Values(r)) : PrintedRow(r)[i] \in SaleWords
      BY <1>2, <2>1, ElementOfSeq
    <3>2. Len(PrintedRow(r)) - 1 = Len(Values(r))
      BY <2>1
    <3> DEFINE front == SubSeq(PrintedRow(r), 1, Len(Values(r)))
    <3>3. /\ front \in Seq(SaleWords) /\ Len(front) = Len(Values(r))
          /\ \A i \in 1 .. Len(Values(r)) : front[i] = PrintedRow(r)[i]
      BY <2>1, <3>1, SubSeqProperties
    <3>4. front = Values(r)
      BY <1>2, <3>3, SeqEqual
    <3> QED
      BY <3>2, <3>4 DEF Front
  <2> QED
    BY <1>2, <1>4, <2>2, <2>3 DEF IsSale
<1> QED
  BY <1>3, <1>4

-----------------------------------------------------------------------------
\* The sales: parsing a row.

\* What is printed of a row, from a column on.
LEMMA ReachedIs ==
    ASSUME NEW r
    PROVE  /\ Reached(r, "salj_datum") => r.salj_datum # NoColumn
           /\ Reached(r, "pris_per_m2") => r.pris_per_m2 # NoColumn
           /\ Reached(r, "pris_kr") => r.pris_kr # NoColumn /\ r.pris_per_m2 # NoColumn
           /\ Reached(r, "arsavgift_kr") =>
                 r.arsavgift_kr # NoColumn /\ r.pris_kr # NoColumn /\ r.pris_per_m2 # NoColumn
           /\ Reached(r, "avgift_kr_manad") =>
                 /\ r.avgift_kr_manad # NoColumn /\ r.arsavgift_kr # NoColumn
                 /\ r.pris_kr # NoColumn /\ r.pris_per_m2 # NoColumn
           /\ Reached(r, "balkong") =>
                 /\ r.balkong # NoColumn
                 /\ r.avgift_kr_manad # NoColumn /\ r.arsavgift_kr # NoColumn
                 /\ r.pris_kr # NoColumn /\ r.pris_per_m2 # NoColumn
           /\ Reached(r, "area_m2") =>
                 /\ r.area_m2 # NoColumn
                 /\ r.avgift_kr_manad # NoColumn /\ r.arsavgift_kr # NoColumn
                 /\ r.pris_kr # NoColumn /\ r.pris_per_m2 # NoColumn
<1>1. /\ DOMAIN Columns = 1 .. 7 /\ Len(Columns) = 7
      /\ Columns[1] = "area_m2" /\ Columns[2] = "balkong"
      /\ Columns[3] = "avgift_kr_manad" /\ Columns[4] = "arsavgift_kr"
      /\ Columns[5] = "pris_kr" /\ Columns[6] = "pris_per_m2"
      /\ Columns[7] = "salj_datum"
  BY DEF Columns
<1> DEFINE FilledFrom(i) ==
             \A k \in i .. 7 : k = i \/ Columns[k] # "balkong" => r[Columns[k]] # NoColumn
<1>2. \A i \in 1 .. 7 : Reached(r, Columns[i]) => FilledFrom(i)
  <2> SUFFICES ASSUME NEW i \in 1 .. 7, Reached(r, Columns[i]) PROVE FilledFrom(i)
    OBVIOUS
  <2>1. PICK j \in 1 .. 7 :
           /\ Columns[j] = Columns[i]
           /\ \A k \in j .. 7 : k = j \/ Columns[k] # "balkong" => r[Columns[k]] # NoColumn
    BY <1>1 DEF Reached
  <2>2. j = i
    BY <1>1, <2>1
  <2> QED
    BY <2>1, <2>2
<1>3. FilledFrom(1) =>
        /\ r.area_m2 # NoColumn
        /\ r.avgift_kr_manad # NoColumn /\ r.arsavgift_kr # NoColumn
        /\ r.pris_kr # NoColumn /\ r.pris_per_m2 # NoColumn
  BY <1>1
<1>4. FilledFrom(2) =>
        /\ r.balkong # NoColumn
        /\ r.avgift_kr_manad # NoColumn /\ r.arsavgift_kr # NoColumn
        /\ r.pris_kr # NoColumn /\ r.pris_per_m2 # NoColumn
  BY <1>1
<1>5. FilledFrom(3) =>
        /\ r.avgift_kr_manad # NoColumn /\ r.arsavgift_kr # NoColumn
        /\ r.pris_kr # NoColumn /\ r.pris_per_m2 # NoColumn
  BY <1>1
<1>6. FilledFrom(4) =>
        /\ r.arsavgift_kr # NoColumn
        /\ r.pris_kr # NoColumn /\ r.pris_per_m2 # NoColumn
  BY <1>1
<1>7. FilledFrom(5) => r.pris_kr # NoColumn /\ r.pris_per_m2 # NoColumn
  BY <1>1
<1>8. (FilledFrom(6) => r.pris_per_m2 # NoColumn) /\ (FilledFrom(7) => r.salj_datum # NoColumn)
  BY <1>1
<1> HIDE DEF FilledFrom
<1> QED
  BY <1>1, <1>2, <1>3, <1>4, <1>5, <1>6, <1>7, <1>8

\* A sale without a blank column but for its name and its balcony, that is long enough.
LEMMA CompleteParsed ==
    ASSUME NEW r \in Rows, Legible(r), IsSale(r), Reached(r, "area_m2"),
           ~(Len(Values(r)) < 6)
    PROVE  ParseComparableRow(PrintedRow(r)) = r
<1> DEFINE words == PrintedRow(r)
           head == Values(r)
           n == Len(head)
           L == Len(r.forening)
           balkong == head[n - 4] \in Balkong
           end == IF balkong THEN n - 5 ELSE n - 4
           rest == SubSeq(head, 1, end)
<1>1. /\ r.area_m2 # NoColumn /\ r.avgift_kr_manad # NoColumn
      /\ r.arsavgift_kr # NoColumn /\ r.pris_kr # NoColumn /\ r.pris_per_m2 # NoColumn
      /\ ~(n < 6)
  BY ReachedIs
<1>2. /\ L \in Nat /\ r.forening \in Seq(SaleWords)
  BY RowFields, LenProperties
<1>3. r.balkong \in Balkong \cup {NoColumn} /\ r.area_m2 \notin Balkong
  BY DEF Legible, IsSale
<1>4. Width(r.area_m2) = 1 /\ Width(r.avgift_kr_manad) = 1 /\ Width(r.arsavgift_kr) = 1
      /\ Width(r.pris_kr) = 1 /\ Width(r.pris_per_m2) = 1
  BY <1>1 DEF Width
<1>5. /\ head \in Seq(SaleWords) /\ n = L + Width(r.balkong) + 5
      /\ \A i \in 1 .. L : head[i] = r.forening[i]
      /\ head[L + 1] = r.area_m2
      /\ r.balkong # NoColumn => head[L + 2] = r.balkong
      /\ head[L + Width(r.balkong) + 2] = r.avgift_kr_manad
      /\ head[L + Width(r.balkong) + 3] = r.arsavgift_kr
      /\ head[L + Width(r.balkong) + 4] = r.pris_kr
      /\ head[L + Width(r.balkong) + 5] = r.pris_per_m2
  <2>1. Width(r.balkong) \in {0, 1}
    BY DEF Width
  <2>2. /\ head \in Seq(SaleWords)
        /\ n = L + 1 + Width(r.balkong) + 1 + 1 + 1 + 1
        /\ \A i \in 1 .. L : head[i] = r.forening[i]
        /\ head[L + 1] = r.area_m2
        /\ r.balkong # NoColumn => head[L + 1 + 1] = r.balkong
        /\ head[L + 1 + Width(r.balkong) + 1] = r.avgift_kr_manad
        /\ head[L + 1 + Width(r.balkong) + 1 + 1] = r.arsavgift_kr
        /\ head[L + 1 + Width(r.balkong) + 1 + 1 + 1] = r.pris_kr
        /\ head[L + 1 + Width(r.balkong) + 1 + 1 + 1 + 1] = r.pris_per_m2
    BY <1>1, <1>4, RowFields, ValuesPrinted DEF Blankable
  <2>3. /\ L + 1 + 1 = L + 2
        /\ L + 1 + Width(r.balkong) + 1 = L + Width(r.balkong) + 2
        /\ L + 1 + Width(r.balkong) + 1 + 1 = L + Width(r.balkong) + 3
        /\ L + 1 + Width(r.balkong) + 1 + 1 + 1 = L + Width(r.balkong) + 4
        /\ L + 1 + Width(r.balkong) + 1 + 1 + 1 + 1 = L + Width(r.balkong) + 5
    BY <1>2, <2>1
  <2> QED
    BY <2>2, <2>3
<1> HIDE DEF head
<1>6. /\ end = L + 1
      /\ r.balkong = IF balkong THEN head[n - 4] ELSE NoColumn
      /\ r.avgift_kr_manad = head[n - 3] /\ r.arsavgift_kr = head[n - 2]
      /\ r.pris_kr = head[n - 1] /\ r.pris_per_m2 = head[n]
  <2>1. CASE r.balkong = NoColumn
    <3>1. n = L + 5 /\ Width(r.balkong) = 0
      BY <1>2, <1>5, <2>1 DEF Width
    <3>2. n - 4 = L + 1 /\ n - 3 = L + 2 /\ n - 2 = L + 3 /\ n - 1 = L + 4
      BY <1>2, <3>1
    <3>3. ~balkong
      BY <1>3, <1>5, <3>2
    <3> QED
      BY <1>2, <1>5, <2>1, <3>1, <3>2, <3>3
  <2>2. CASE r.balkong # NoColumn
    <3>1. n = L + 6 /\ Width(r.balkong) = 1
      BY <1>2, <1>5, <2>2 DEF Width
    <3>2. /\ n - 5 = L + 1 /\ n - 4 = L + 2 /\ n - 3 = L + 3 /\ n - 2 = L + 4
          /\ n - 1 = L + 5
      BY <1>2, <3>1
    <3>3. balkong
      BY <1>3, <1>5, <2>2, <3>2
    <3> QED
      BY <1>2, <1>5, <2>2, <3>1, <3>2, <3>3
  <2> QED
    BY <2>1, <2>2
<1>7. /\ rest \in Seq(SaleWords) /\ Len(rest) = L + 1
      /\ \A i \in 1 .. L : rest[i] = r.forening[i]
      /\ rest[L + 1] = r.area_m2
  <2>1. Width(r.balkong) \in {0, 1}
    BY DEF Width
  <2>2. L + 1 \in 1 .. n
    BY <1>2, <1>5, <2>1
  <2>3. \A i \in 1 .. L + 1 : head[i] \in SaleWords
    BY <1>2, <1>5, <2>2, ElementOfSeq
  <2>4. rest = SubSeq(head, 1, L + 1)
    BY <1>6
  <2>5. /\ rest \in Seq(SaleWords) /\ Len(rest) = L + 1
        /\ \A i \in 1 .. L + 1 : rest[i] = head[i]
    BY <1>2, <2>3, <2>4, SubSeqProperties
  <2> QED
    BY <1>2, <1>5, <2>5
<1> HIDE DEF rest, end
<1>8. Last(rest) = r.area_m2
  BY <1>7 DEF Last
<1>9. Front(rest) = r.forening
  <2>1. Len(rest) - 1 = L
    BY <1>2, <1>7
  <2>2. \A i \in 1 .. L : rest[i] \in SaleWords
    BY <1>2, <1>7, ElementOfSeq
  <2> DEFINE front == SubSeq(rest, 1, L)
  <2>3. /\ front \in Seq(SaleWords) /\ Len(front) = L
        /\ \A i \in 1 .. L : front[i] = rest[i]
    BY <1>2, <2>2, SubSeqProperties
  <2>4. front = r.forening
    BY <1>2, <1>7, <2>3, SeqEqual
  <2> QED
    BY <2>1, <2>4 DEF Front
<1>10. Front(words) = head /\ Last(words) = r.salj_datum
  BY MonthEndsSales DEF head
<1>11. ParseComparableRow(words) =
         [forening |-> Front(rest), area_m2 |-> Last(rest),
          balkong |-> IF balkong THEN head[n - 4] ELSE NoColumn,
          avgift_kr_manad |-> head[n - 3], arsavgift_kr |-> head[n - 2],
          pris_kr |-> head[n - 1], pris_per_m2 |-> head[n], salj_datum |-> Last(words)]
  BY <1>1, <1>10 DEF ParseComparableRow, rest, end
<1> QED
  BY <1>6, <1>8, <1>9, <1>10, <1>11, RowFields

\* A sale that falls short of six words before its month.
LEMMA ShortIsRaw ==
    ASSUME NEW r \in Rows, Legible(r), IsSale(r), Len(Values(r)) < 6
    PROVE  ParseComparableRow(PrintedRow(r)) = Raw(PrintedRow(r))
  BY MonthEndsSales DEF ParseComparableRow

\* Whether the fifth word from the right is the balcony, and how many are the name's.
HasBalkong(head) == head[Len(head) - 4] \in Balkong

NameLength(head) == IF HasBalkong(head) THEN Len(head) - 6 ELSE Len(head) - 5

\* The last four words before the month are the values of the last four columns,
\* the word before them may be the balcony, and the rest is the name and the area.
LEMMA ParsedIs ==
    ASSUME NEW r \in Rows, Legible(r), IsSale(r), ~(Len(Values(r)) < 6)
    PROVE  LET head == Values(r)
               n == Len(head)
               m == NameLength(head)
           IN  /\ head \in Seq(SaleWords) /\ n \in Nat /\ m \in Nat
               /\ ParseComparableRow(PrintedRow(r)) =
                    [forening |-> SubSeq(head, 1, m), area_m2 |-> head[m + 1],
                     balkong |-> IF HasBalkong(head) THEN head[n - 4] ELSE NoColumn,
                     avgift_kr_manad |-> head[n - 3], arsavgift_kr |-> head[n - 2],
                     pris_kr |-> head[n - 1], pris_per_m2 |-> head[n],
                     salj_datum |-> r.salj_datum]
               /\ SubSeq(head, 1, m) \in Seq(SaleWords) /\ Len(SubSeq(head, 1, m)) = m
               /\ \A i \in 1 .. m : SubSeq(head, 1, m)[i] = head[i]
               /\ \A i \in 1 .. n : head[i] \in SaleWords
<1> DEFINE head == Values(r)
           n == Len(head)
           m == NameLength(head)
           b == HasBalkong(head)
           rest == SubSeq(head, 1, IF b THEN n - 5 ELSE n - 4)
<1>1. /\ head \in Seq(SaleWords) /\ n \in Nat
      /\ Front(PrintedRow(r)) = head /\ Last(PrintedRow(r)) = r.salj_datum
  BY MonthEndsSales, RowFields, ValuesPrinted, LenProperties DEF Blankable
<1>2. m \in Nat /\ m + 1 \in 1 .. n /\ m + 1 = (IF b THEN n - 5 ELSE n - 4)
  <2>1. m = (IF b THEN n - 6 ELSE n - 5) /\ ~(n < 6)
    BY DEF NameLength
  <2> HIDE DEF m, n, b
  <2> QED
    BY <1>1, <2>1
<1>3. \A i \in 1 .. n : head[i] \in SaleWords
  BY <1>1, ElementOfSeq
<1>4. /\ SubSeq(head, 1, m) \in Seq(SaleWords) /\ Len(SubSeq(head, 1, m)) = m
      /\ \A i \in 1 .. m : SubSeq(head, 1, m)[i] = head[i]
  <2>1. \A i \in 1 .. m : head[i] \in SaleWords
    BY <1>2, <1>3
  <2> QED
    BY <1>2, <2>1, SubSeqProperties
<1>5. /\ rest \in Seq(SaleWords) /\ Len(rest) = m + 1
      /\ \A i \in 1 .. m + 1 : rest[i] = head[i]
  <2>1. rest = SubSeq(head, 1, m + 1)
    BY <1>2
  <2>2. \A i \in 1 .. m + 1 : head[i] \in SaleWords
    BY <1>2, <1>3
  <2> QED
    BY <1>2, <2>1, <2>2, SubSeqProperties
<1>6. Last(rest) = head[m + 1]
  BY <1>2, <1>5 DEF Last
<1>7. Front(rest) = SubSeq(head, 1, m)
  <2>1. Front(rest) = SubSeq(rest, 1, m)
    BY <1>2, <1>5 DEF Front
  <2>2. /\ SubSeq(rest, 1, m) \in Seq(SaleWords) /\ Len(SubSeq(rest, 1, m)) = m
        /\ \A i \in 1 .. m : SubSeq(rest, 1, m)[i] = rest[i]
    <3>1. \A i \in 1 .. m : rest[i] \in SaleWords
      BY <1>2, <1>3, <1>5
    <3> QED
      BY <1>2, <3>1, SubSeqProperties
  <2>3. SubSeq(rest, 1, m) = SubSeq(head, 1, m)
    BY <1>2, <1>4, <1>5, <2>2, SeqEqual
  <2> QED
    BY <2>1, <2>3
<1>8. ParseComparableRow(PrintedRow(r)) =
        [forening |-> Front(rest), area_m2 |-> Last(rest),
         balkong |-> IF b THEN head[n - 4] ELSE NoColumn,
         avgift_kr_manad |-> head[n - 3], arsavgift_kr |-> head[n - 2],
         pris_kr |-> head[n - 1], pris_per_m2 |-> head[n], salj_datum |-> r.salj_datum]
  BY <1>1 DEF ParseComparableRow, HasBalkong
<1>9. /\ head \in Seq(SaleWords) /\ n \in Nat /\ m \in Nat
      /\ ParseComparableRow(PrintedRow(r)) =
           [forening |-> SubSeq(head, 1, m), area_m2 |-> head[m + 1],
            balkong |-> IF HasBalkong(head) THEN head[n - 4] ELSE NoColumn,
            avgift_kr_manad |-> head[n - 3], arsavgift_kr |-> head[n - 2],
            pris_kr |-> head[n - 1], pris_per_m2 |-> head[n], salj_datum |-> r.salj_datum]
  <2> HIDE DEF rest, head, n, m
  <2> QED
    BY <1>1, <1>2, <1>6, <1>7, <1>8
<1> HIDE DEF rest, head, n, m, b
<1>10. /\ SubSeq(head, 1, m) \in Seq(SaleWords) /\ Len(SubSeq(head, 1, m)) = m
       /\ \A i \in 1 .. m : SubSeq(head, 1, m)[i] = head[i]
       /\ \A i \in 1 .. n : head[i] \in SaleWords
  BY <1>3, <1>4
<1> QED
  BY <1>9, <1>10 DEF head, n, m

\* However many columns are blank, the words of the line are all in the sale.
LEMMA WordsKept ==
    ASSUME NEW r \in Rows, Legible(r), IsSale(r), ~(Len(Values(r)) < 6)
    PROVE  PrintedRow(ParseComparableRow(PrintedRow(r))) = PrintedRow(r)
<1> DEFINE head == Values(r)
           n == Len(head)
           b == HasBalkong(head)
           m == NameLength(head)
           sale == ParseComparableRow(PrintedRow(r))
<1>1. /\ head \in Seq(SaleWords) /\ n \in Nat /\ m \in Nat
      /\ sale = [forening |-> SubSeq(head, 1, m), area_m2 |-> head[m + 1],
                 balkong |-> IF b THEN head[n - 4] ELSE NoColumn,
                 avgift_kr_manad |-> head[n - 3], arsavgift_kr |-> head[n - 2],
                 pris_kr |-> head[n - 1], pris_per_m2 |-> head[n],
                 salj_datum |-> r.salj_datum]
      /\ SubSeq(head, 1, m) \in Seq(SaleWords) /\ Len(SubSeq(head, 1, m)) = m
      /\ \A i \in 1 .. m : SubSeq(head, 1, m)[i] = head[i]
      /\ \A i \in 1 .. n : head[i] \in SaleWords
  BY ParsedIs
<1>2. /\ NoColumn \notin SaleWords /\ n >= 6 /\ n = Len(head)
      /\ m = (IF b THEN n - 6 ELSE n - 5)
  <2>1. ~(n < 6) /\ m = (IF b THEN n - 6 ELSE n - 5) /\ n = Len(head)
    BY DEF NameLength
  <2>2. n \in Nat
    BY <1>1
  <2> HIDE DEF n, m, b, head
  <2> QED
    BY <2>1, <2>2, SalesAssumption
<1>3. PrintedRow(r) = head \o Word(r.salj_datum)
  BY DEF PrintedRow, Values
<1> HIDE DEF head, n, sale, m, b
<1>4. PrintedRow(sale) = Values(sale) \o Word(r.salj_datum)
  BY <1>1 DEF PrintedRow, Values
<1> DEFINE front == SubSeq(head, 1, m)
<1>5. /\ sale.forening = front /\ sale.area_m2 = head[m + 1]
      /\ sale.balkong = (IF b THEN head[n - 4] ELSE NoColumn)
      /\ sale.avgift_kr_manad = head[n - 3] /\ sale.arsavgift_kr = head[n - 2]
      /\ sale.pris_kr = head[n - 1] /\ sale.pris_per_m2 = head[n]
  BY <1>1
<1> HIDE DEF front
<1>6. /\ front \in Seq(SaleWords) /\ Len(front) = m
      /\ \A i \in 1 .. m : front[i] = head[i]
  BY <1>1 DEF front
<1>7. /\ m + 1 \in 1 .. n /\ n - 4 \in 1 .. n /\ n - 3 \in 1 .. n /\ n - 2 \in 1 .. n
      /\ n - 1 \in 1 .. n /\ n \in 1 .. n
  BY <1>1, <1>2
<1>8. /\ head[m + 1] \in SaleWords /\ head[n - 4] \in SaleWords
      /\ head[n - 3] \in SaleWords /\ head[n - 2] \in SaleWords
      /\ head[n - 1] \in SaleWords /\ head[n] \in SaleWords
  BY <1>1, <1>7
<1> DEFINE w == Width(sale.balkong)
           v == Values(sale)
<1>9. /\ Width(sale.area_m2) = 1 /\ Width(sale.avgift_kr_manad) = 1
      /\ Width(sale.arsavgift_kr) = 1 /\ Width(sale.pris_kr) = 1
      /\ Width(sale.pris_per_m2) = 1
      /\ w = (IF b THEN 1 ELSE 0)
  BY <1>2, <1>5, <1>8 DEF Width
<1>10. /\ sale.area_m2 # NoColumn /\ sale.avgift_kr_manad # NoColumn
       /\ sale.arsavgift_kr # NoColumn /\ sale.pris_kr # NoColumn
       /\ sale.pris_per_m2 # NoColumn /\ (b => sale.balkong # NoColumn)
  BY <1>2, <1>5, <1>8
<1>11. /\ v \in Seq(SaleWords)
       /\ Len(v) = m + 1 + w + 1 + 1 + 1 + 1
       /\ \A i \in 1 .. m : v[i] = front[i]
       /\ v[m + 1] = sale.area_m2
       /\ b => v[m + 1 + 1] = sale.balkong
       /\ v[m + 1 + w + 1] = sale.avgift_kr_manad
       /\ v[m + 1 + w + 1 + 1] = sale.arsavgift_kr
       /\ v[m + 1 + w + 1 + 1 + 1] = sale.pris_kr
       /\ v[m + 1 + w + 1 + 1 + 1 + 1] = sale.pris_per_m2
  <2>1. /\ sale.forening \in Seq(SaleWords) /\ sale.area_m2 \in SaleWords \cup {NoColumn}
        /\ sale.balkong \in SaleWords \cup {NoColumn}
        /\ sale.avgift_kr_manad \in SaleWords \cup {NoColumn}
        /\ sale.arsavgift_kr \in SaleWords \cup {NoColumn}
        /\ sale.pris_kr \in SaleWords \cup {NoColumn}
        /\ sale.pris_per_m2 \in SaleWords \cup {NoColumn}
    BY <1>5, <1>6, <1>8
  <2>2. Len(sale.forening) = m /\ sale.forening = front
    BY <1>5, <1>6
  <2> QED
    BY <1>9, <1>10, <2>1, <2>2, ValuesPrinted
<1> HIDE DEF v, w
<1>12. /\ Len(v) = n
       /\ \A i \in 1 .. m : v[i] = head[i]
       /\ v[m + 1] = head[m + 1]
       /\ b => m + 2 = n - 4 /\ v[n - 4] = head[n - 4]
       /\ ~b => m + 1 = n - 4
       /\ v[n - 3] = head[n - 3] /\ v[n - 2] = head[n - 2]
       /\ v[n - 1] = head[n - 1] /\ v[n] = head[n]
  <2>1. CASE b
    <3>1. /\ m + 1 + w + 1 + 1 + 1 + 1 = n /\ m + 1 + 1 = n - 4 /\ m + 2 = n - 4
          /\ m + 1 + w + 1 = n - 3 /\ m + 1 + w + 1 + 1 = n - 2
          /\ m + 1 + w + 1 + 1 + 1 = n - 1
      BY <1>1, <1>2, <1>9, <2>1
    <3> QED
      BY <1>5, <1>6, <1>11, <2>1, <3>1
  <2>2. CASE ~b
    <3>1. /\ m + 1 + w + 1 + 1 + 1 + 1 = n /\ m + 1 = n - 4
          /\ m + 1 + w + 1 = n - 3 /\ m + 1 + w + 1 + 1 = n - 2
          /\ m + 1 + w + 1 + 1 + 1 = n - 1
      BY <1>1, <1>2, <1>9, <2>2
    <3> QED
      BY <1>5, <1>6, <1>11, <2>2, <3>1
  <2> QED
    BY <2>1, <2>2
<1>13. ASSUME NEW i \in 1 .. n PROVE v[i] = head[i]
  <2>1. \/ i \in 1 .. m \/ i = m + 1 \/ (b /\ i = n - 4)
        \/ i = n - 3 \/ i = n - 2 \/ i = n - 1 \/ i = n
    <3>1. m \in Nat /\ n \in Nat
      BY <1>1
    <3>2. CASE b
      <4>1. m + 2 = n - 4
        BY <1>12, <3>2
      <4> QED
        BY <3>1, <3>2, <4>1
    <3>3. CASE ~b
      <4>1. m + 1 = n - 4
        BY <1>12, <3>3
      <4> QED
        BY <3>1, <4>1
    <3> QED
      BY <3>2, <3>3
  <2> QED
    BY <1>12, <2>1
<1>14. v = head
  BY <1>1, <1>2, <1>11, <1>12, <1>13, SeqEqual
<1> QED
  BY <1>3, <1>4, <1>14 DEF v, sale

\* A column that is reached has its value.
LEMMA ReachedParsed ==
    ASSUME NEW r \in Rows, Legible(r), IsSale(r), ~(Len(Values(r)) < 6),
           NEW c \in ToSet(Columns), Reached(r, c)
    PROVE  ParseComparableRow(PrintedRow(r))[c] = r[c]
<1> DEFINE head == Values(r)
           n == Len(head)
           b == HasBalkong(head)
           sale == ParseComparableRow(PrintedRow(r))
<1>1. /\ sale.salj_datum = r.salj_datum /\ sale.pris_per_m2 = head[n]
      /\ sale.pris_kr = head[n - 1] /\ sale.arsavgift_kr = head[n - 2]
      /\ sale.avgift_kr_manad = head[n - 3]
      /\ sale.balkong = (IF b THEN head[n - 4] ELSE NoColumn)
  BY ParsedIs
<1>2. n \in Nat /\ n >= 6
  BY RowFields, ValuesPrinted, LenProperties DEF Blankable
<1> DEFINE L == Len(r.forening) + Width(r.area_m2)
<1>3. /\ n = L + Width(r.balkong) + Width(r.avgift_kr_manad) + Width(r.arsavgift_kr)
                + Width(r.pris_kr) + Width(r.pris_per_m2)
      /\ r.balkong # NoColumn => head[L + 1] = r.balkong
      /\ r.avgift_kr_manad # NoColumn =>
            head[L + Width(r.balkong) + 1] = r.avgift_kr_manad
      /\ r.arsavgift_kr # NoColumn =>
            head[L + Width(r.balkong) + Width(r.avgift_kr_manad) + 1] = r.arsavgift_kr
      /\ r.pris_kr # NoColumn =>
            head[L + Width(r.balkong) + Width(r.avgift_kr_manad)
                   + Width(r.arsavgift_kr) + 1] = r.pris_kr
      /\ r.pris_per_m2 # NoColumn =>
            head[L + Width(r.balkong) + Width(r.avgift_kr_manad)
                   + Width(r.arsavgift_kr) + Width(r.pris_kr) + 1] = r.pris_per_m2
      /\ L \in Nat
  <2>1. Len(r.forening) \in Nat /\ Width(r.area_m2) \in {0, 1}
    BY RowFields, LenProperties DEF Width
  <2> QED
    BY <2>1, RowFields, ValuesPrinted DEF Blankable
<1>4. /\ \A x : Width(x) \in {0, 1}
      /\ \A x : x # NoColumn => Width(x) = 1
  BY DEF Width
<1>5. r.balkong \in Balkong \cup {NoColumn}
  BY DEF Legible, IsSale
<1> HIDE DEF head, n, sale, L
<1>6. r.pris_per_m2 # NoColumn => head[n] = r.pris_per_m2
  <2> SUFFICES ASSUME r.pris_per_m2 # NoColumn PROVE head[n] = r.pris_per_m2
    OBVIOUS
  <2>1. n = L + Width(r.balkong) + Width(r.avgift_kr_manad)
                   + Width(r.arsavgift_kr) + Width(r.pris_kr) + 1
    BY <1>3, <1>4
  <2> QED
    BY <1>3, <2>1
<1>7. r.pris_kr # NoColumn /\ r.pris_per_m2 # NoColumn => head[n - 1] = r.pris_kr
  <2> SUFFICES ASSUME r.pris_kr # NoColumn, r.pris_per_m2 # NoColumn
               PROVE  head[n - 1] = r.pris_kr
    OBVIOUS
  <2>1. n - 1 = L + Width(r.balkong) + Width(r.avgift_kr_manad)
                   + Width(r.arsavgift_kr) + 1
    BY <1>3, <1>4
  <2> QED
    BY <1>3, <2>1
<1>8. r.arsavgift_kr # NoColumn /\ r.pris_kr # NoColumn /\ r.pris_per_m2 # NoColumn
        => head[n - 2] = r.arsavgift_kr
  <2> SUFFICES ASSUME r.arsavgift_kr # NoColumn, r.pris_kr # NoColumn,
                      r.pris_per_m2 # NoColumn
               PROVE  head[n - 2] = r.arsavgift_kr
    OBVIOUS
  <2>1. n - 2 = L + Width(r.balkong) + Width(r.avgift_kr_manad) + 1
    BY <1>3, <1>4
  <2> QED
    BY <1>3, <2>1
<1> DEFINE fees == /\ r.avgift_kr_manad # NoColumn /\ r.arsavgift_kr # NoColumn
                   /\ r.pris_kr # NoColumn /\ r.pris_per_m2 # NoColumn
<1>9. fees => head[n - 3] = r.avgift_kr_manad
  <2> SUFFICES ASSUME fees PROVE head[n - 3] = r.avgift_kr_manad
    OBVIOUS
  <2>1. n - 3 = L + Width(r.balkong) + 1
    BY <1>3, <1>4
  <2> QED
    BY <1>3, <2>1
<1>10. fees /\ r.balkong # NoColumn => b /\ head[n - 4] = r.balkong
  <2> SUFFICES ASSUME fees, r.balkong # NoColumn PROVE b /\ head[n - 4] = r.balkong
    OBVIOUS
  <2>1. n - 4 = L + 1
    BY <1>3, <1>4
  <2>2. head[n - 4] = r.balkong /\ r.balkong \in Balkong
    BY <1>3, <1>5, <2>1
  <2> QED
    BY <2>2 DEF HasBalkong, n
<1>11. c \in {"area_m2", "balkong", "avgift_kr_manad", "arsavgift_kr", "pris_kr",
              "pris_per_m2", "salj_datum"}
  BY ColumnsAre
<1>12. CASE c = "area_m2"
  <2>1. sale = r
    BY <1>12, CompleteParsed DEF sale
  <2> QED
    BY <2>1 DEF sale
<1>13. CASE c = "balkong"
  <2>1. fees /\ r.balkong # NoColumn
    BY <1>13, ReachedIs
  <2> QED
    BY <1>1, <1>10, <1>13, <2>1 DEF sale
<1>14. CASE c = "avgift_kr_manad"
  <2>1. fees
    BY <1>14, ReachedIs
  <2> QED
    BY <1>1, <1>9, <1>14, <2>1 DEF sale
<1>15. CASE c = "arsavgift_kr"
  BY <1>1, <1>8, <1>15, ReachedIs DEF sale
<1>16. CASE c = "pris_kr"
  BY <1>1, <1>7, <1>16, ReachedIs DEF sale
<1>17. CASE c = "pris_per_m2"
  BY <1>1, <1>6, <1>17, ReachedIs DEF sale
<1>18. CASE c = "salj_datum"
  BY <1>1, <1>18 DEF sale
<1> QED
  BY <1>11, <1>12, <1>13, <1>14, <1>15, <1>16, <1>17, <1>18

-----------------------------------------------------------------------------
\* The sales: from row to row.

\* What the n-th line adds.
LEMMA SalesCounted ==
    ASSUME NEW n \in Nat
    PROVE  /\ IsFiniteSet(SalesUpTo(n)) /\ Cardinality(SalesUpTo(n)) \in Nat
           /\ SalesUpTo(n + 1) = IF IsSale(salesTable[n + 1])
                                 THEN SalesUpTo(n) \cup {n + 1} ELSE SalesUpTo(n)
           /\ n + 1 \notin SalesUpTo(n)
           /\ \A i \in SalesUpTo(n) :
                 Cardinality(SalesUpTo(i)) \in 1 .. Cardinality(SalesUpTo(n))
<1>1. \A m \in Nat : IsFiniteSet(SalesUpTo(m)) /\ Cardinality(SalesUpTo(m)) \in Nat
  <2> SUFFICES ASSUME NEW m \in Nat
               PROVE  IsFiniteSet(SalesUpTo(m)) /\ Cardinality(SalesUpTo(m)) \in Nat
    OBVIOUS
  <2>1. IsFiniteSet(1 .. m)
    BY FS_Interval
  <2>2. SalesUpTo(m) \in SUBSET (1 .. m)
    BY DEF SalesUpTo
  <2> QED
    BY <2>1, <2>2, FS_Subset, FS_CardinalityType
<1>2. SalesUpTo(n + 1) = IF IsSale(salesTable[n + 1])
                         THEN SalesUpTo(n) \cup {n + 1} ELSE SalesUpTo(n)
  BY DEF SalesUpTo
<1>3. n + 1 \notin SalesUpTo(n)
  BY DEF SalesUpTo
<1>4. ASSUME NEW i \in SalesUpTo(n)
      PROVE  Cardinality(SalesUpTo(i)) \in 1 .. Cardinality(SalesUpTo(n))
  <2>1. i \in Nat /\ i \in SalesUpTo(i) /\ SalesUpTo(i) \in SUBSET SalesUpTo(n)
    BY DEF SalesUpTo
  <2>2. Cardinality(SalesUpTo(i)) # 0
    BY <1>1, <2>1, FS_EmptySet
  <2>3. Cardinality(SalesUpTo(i)) <= Cardinality(SalesUpTo(n))
    BY <1>1, <2>1, FS_Subset
  <2> QED
    BY <1>1, <2>1, <2>2, <2>3
<1> QED
  BY <1>1, <1>2, <1>3, <1>4

ParsedRows == {ParseComparableRow(PrintedRow(r)) : r \in Rows}

\* Inductive: the sales are those of the lines read, each parsed from its line.
SalesInv ==
    /\ salesTable \in SalesTables /\ rowsRead \in 0 .. Len(salesTable)
    /\ sales \in Seq(ParsedRows)
    /\ Len(sales) = Cardinality(SalesUpTo(rowsRead))
    /\ \A i \in SalesUpTo(rowsRead) :
          sales[Cardinality(SalesUpTo(i))] = ParseComparableRow(PrintedRow(salesTable[i]))

LEMMA TableRows ==
    ASSUME NEW table \in SalesTables
    PROVE  /\ Len(table) \in Nat
           /\ \A i \in 1 .. Len(table) : table[i] \in Rows /\ Legible(table[i])
<1>1. table \in Seq(Rows) /\ \A r \in ToSet(table) : Legible(r)
  BY SalesAssumption
<1>2. Len(table) \in Nat /\ DOMAIN table = 1 .. Len(table)
  BY <1>1, LenProperties
<1>3. \A i \in 1 .. Len(table) : table[i] \in ToSet(table)
  BY <1>2 DEF ToSet
<1> QED
  BY <1>1, <1>2, <1>3, ElementOfSeq

LEMMA SalesInitially == SalesInit => SalesInv
<1> SUFFICES ASSUME SalesInit PROVE SalesInv
  OBVIOUS
<1>1. SalesUpTo(rowsRead) = {}
  BY DEF SalesUpTo, SalesInit
<1>2. Len(salesTable) \in Nat
  BY TableRows DEF SalesInit
<1>3. Cardinality({}) = 0 /\ Len(<<>>) = 0 /\ <<>> \in Seq(ParsedRows)
  BY EmptySeq, FS_EmptySet
<1>4. Len(sales) = Cardinality(SalesUpTo(rowsRead)) /\ sales \in Seq(ParsedRows)
  BY <1>1, <1>3, Zenon DEF SalesInit
<1> QED
  BY <1>1, <1>2, <1>4 DEF SalesInit, SalesInv

LEMMA ReadRowKeeps == SalesInv /\ ReadRow => SalesInv'
<1> SUFFICES ASSUME SalesInv, ReadRow PROVE SalesInv'
  OBVIOUS
<1> DEFINE n == rowsRead
           r == salesTable[n + 1]
<1>1. /\ salesTable \in SalesTables /\ n \in Nat /\ n < Len(salesTable)
      /\ rowsRead' = n + 1 /\ UNCHANGED salesTable
  BY TableRows DEF SalesInv, ReadRow
<1>2. /\ r \in Rows /\ Legible(r) /\ rowsRead' \in 0 .. Len(salesTable)
  BY <1>1, TableRows
<1>3. \A m : SalesUpTo(m)' = SalesUpTo(m)
  BY <1>1 DEF SalesUpTo
<1>4. /\ Cardinality(SalesUpTo(n)) \in Nat /\ IsFiniteSet(SalesUpTo(n))
      /\ SalesUpTo(n + 1) = IF IsSale(r) THEN SalesUpTo(n) \cup {n + 1} ELSE SalesUpTo(n)
      /\ n + 1 \notin SalesUpTo(n)
      /\ \A i \in SalesUpTo(n) :
            Cardinality(SalesUpTo(i)) \in 1 .. Cardinality(SalesUpTo(n))
  BY <1>1, SalesCounted
<1>5. /\ sales \in Seq(ParsedRows) /\ Len(sales) = Cardinality(SalesUpTo(n))
      /\ \A i \in SalesUpTo(n) : sales[Cardinality(SalesUpTo(i))]
                                   = ParseComparableRow(PrintedRow(salesTable[i]))
  BY DEF SalesInv
<1>6. CASE ~IsSale(r)
  <2>1. sales' = sales /\ SalesUpTo(n + 1) = SalesUpTo(n)
    BY <1>2, <1>4, <1>6, MonthEndsSales DEF ReadRow
  <2> QED
    BY <1>1, <1>2, <1>3, <1>5, <2>1 DEF SalesInv
<1>7. CASE IsSale(r)
  <2> DEFINE sale == ParseComparableRow(PrintedRow(r))
  <2>1. sales' = Append(sales, sale)
    BY <1>2, <1>7, MonthEndsSales DEF ReadRow
  <2>2. sale \in ParsedRows
    BY <1>2 DEF ParsedRows
  <2>3. /\ sales' \in Seq(ParsedRows) /\ Len(sales') = Len(sales) + 1
        /\ \A k \in 1 .. Len(sales) : sales'[k] = sales[k]
        /\ sales'[Len(sales) + 1] = sale
    BY <1>5, <2>1, <2>2, AppendProperties
  <2>4. Cardinality(SalesUpTo(n + 1)) = Cardinality(SalesUpTo(n)) + 1
    BY <1>4, <1>7, FS_AddElement
  <2>5. ASSUME NEW i \in SalesUpTo(n + 1)
        PROVE  sales'[Cardinality(SalesUpTo(i))]
                  = ParseComparableRow(PrintedRow(salesTable[i]))
    <3>1. CASE i \in SalesUpTo(n)
      BY <1>4, <1>5, <2>3, <3>1
    <3>2. CASE i = n + 1
      BY <1>5, <2>3, <2>4, <3>2
    <3> QED
      BY <1>4, <1>7, <3>1, <3>2
  <2> QED
    BY <1>1, <1>2, <1>3, <1>5, <2>3, <2>4, <2>5 DEF SalesInv
<1> QED
  BY <1>6, <1>7

LEMMA SalesInductive == SalesInv /\ [ReadRow]_salesVars => SalesInv'
<1>1. SalesInv /\ UNCHANGED salesVars => SalesInv'
  <2> SUFFICES ASSUME SalesInv, UNCHANGED salesVars PROVE SalesInv'
    OBVIOUS
  <2>1. \A m : SalesUpTo(m)' = SalesUpTo(m)
    BY DEF SalesUpTo, salesVars
  <2> QED
    BY <2>1 DEF SalesInv, salesVars
<1> QED
  BY <1>1, ReadRowKeeps

\* Every sale read so far is there, in order, for any tables of any sales, whatever
\* columns are blank: one with fewer words than columns is kept as its line; of any
\* other no word is lost or moved past another, and a value stands in its own column
\* unless one to its right is blank (_parse_comparable_row).
THEOREM SalesTheorem == SalesSpec => []SalesArePrinted
<1>1. SalesInv => SalesArePrinted
  <2> SUFFICES ASSUME SalesInv, NEW i \in SalesUpTo(rowsRead)
               PROVE  LET r == salesTable[i]
                          sale == sales[Cardinality(SalesUpTo(i))]
                      IN  IF Len(PrintedRow(r)) < Len(Columns) THEN sale = Raw(PrintedRow(r))
                          ELSE /\ PrintedRow(sale) = PrintedRow(r)
                               /\ \A c \in ToSet(Columns) : Reached(r, c) => sale[c] = r[c]
                               /\ Reached(r, "area_m2") => sale = r
    BY DEF SalesInv, SalesArePrinted
  <2> DEFINE r == salesTable[i]
             sale == sales[Cardinality(SalesUpTo(i))]
  <2>1. sale = ParseComparableRow(PrintedRow(r))
    BY DEF SalesInv
  <2>2. r \in Rows /\ Legible(r) /\ IsSale(r)
    <3>1. salesTable \in SalesTables /\ rowsRead \in 0 .. Len(salesTable)
      BY DEF SalesInv
    <3>2. i \in 1 .. Len(salesTable) /\ IsSale(r)
      BY <3>1, TableRows DEF SalesUpTo
    <3> QED
      BY <3>1, <3>2, TableRows
  <2>3. Len(PrintedRow(r)) < Len(Columns) <=> Len(Values(r)) < 6
    <3> DEFINE words == PrintedRow(r)
               head == Values(r)
    <3>1. words = head \o <<r.salj_datum>> /\ head \in Seq(SaleWords) /\ Len(Columns) = 7
      <4>1. words = head \o Word(r.salj_datum) /\ Word(r.salj_datum) = <<r.salj_datum>>
        BY <2>2 DEF PrintedRow, Values, Word, IsSale
      <4>2. head \in Seq(SaleWords)
        BY <2>2, RowFields, ValuesPrinted DEF Blankable
      <4> QED
        BY <4>1, <4>2 DEF Columns
    <3>2. Len(head) \in Nat /\ Len(words) = Len(head) + 1
      <4>1. <<r.salj_datum>> \in Seq({r.salj_datum}) /\ Len(<<r.salj_datum>>) = 1
        OBVIOUS
      <4> DEFINE S == SaleWords \cup {r.salj_datum}
      <4>2. head \in Seq(S) /\ <<r.salj_datum>> \in Seq(S)
        <5>1. Len(head) \in Nat /\ head \in [1 .. Len(head) -> SaleWords]
          BY <3>1, LenProperties
        <5> QED
          BY <5>1
      <4> HIDE DEF head, words
      <4> QED
        BY <3>1, <4>1, <4>2, ConcatProperties, LenProperties
    <3> HIDE DEF head, words
    <3>3. Len(words) < 7 <=> Len(head) < 6
      BY <3>2
    <3> QED
      BY <3>1, <3>3 DEF head, words
  <2> QED
    BY <2>1, <2>2, <2>3, CompleteParsed, ReachedParsed, WordsKept, ShortIsRaw
<1> QED
  BY <1>1, SalesInitially, SalesInductive, PTL DEF SalesSpec

-----------------------------------------------------------------------------
\* Induction, and what FlattenSeq makes of one sequence more.

LEMMA SetInduction ==
    ASSUME NEW T, 0 \in T, \A n \in Nat : n \in T => n + 1 \in T
    PROVE  Nat \subseteq T
<1> DEFINE R == OpToRel(<, Nat)
           U == {n \in Nat : n \notin T}
<1>1. IsWellFoundedOn(R, Nat)
  BY NatLessThanWellFounded, Zenon
<1>2. \A y \in Nat, x \in Nat : y < x => <<y, x>> \in R
  <2>1. R = {ss \in Nat \X Nat : ss[1] < ss[2]}
    BY Zenon DEF OpToRel
  <2> QED
    BY <2>1
<1> HIDE DEF R
<1>3. CASE U = {}
  BY <1>3
<1>4. CASE U # {}
  <2>1. U \subseteq Nat
    OBVIOUS
  <2>2. PICK m \in U : \A y \in U : <<y, m>> \notin R
    BY <1>1, <1>4, <2>1, WFMin
  <2>3. m \in Nat /\ m # 0
    BY <2>2
  <2>4. m - 1 \in Nat /\ m - 1 < m
    BY <2>3
  <2>5. m - 1 \in T
    BY <1>2, <2>2, <2>3, <2>4
  <2>6. m - 1 + 1 = m
    BY <2>3
  <2> QED
    BY <2>2, <2>4, <2>5, <2>6
<1> QED
  BY <1>3, <1>4

LEMMA LeastOf ==
    ASSUME NEW m \in Int, NEW n \in Int, NEW U, m \in U, U \subseteq m .. n
    PROVE  Min(U) = m
<1>1. m \in U /\ \A y \in U : m <= y
  OBVIOUS
<1>2. \A x \in U : (\A y \in U : x <= y) => x = m
  OBVIOUS
<1> QED
  BY <1>1, <1>2 DEF Min

\* The recursive function that FlattenSeq chooses.
Flattens(f, seqs, n) ==
    f = [i \in 1 .. n |-> IF i = 1 THEN seqs[i] ELSE f[i - 1] \o seqs[i]]

LEMMA FlattensAt ==
    ASSUME NEW f, NEW seqs, NEW n, Flattens(f, seqs, n), NEW i \in 1 .. n
    PROVE  f[i] = IF i = 1 THEN seqs[i] ELSE f[i - 1] \o seqs[i]
  BY DEF Flattens

LEMMA FlatteningExists ==
    ASSUME NEW seqs PROVE \A n \in Nat : \E f : Flattens(f, seqs, n)
<1> DEFINE T == {n \in Nat : \E f : Flattens(f, seqs, n)}
<1>1. 0 \in T
  <2> DEFINE f == [i \in 1 .. 0 |-> 0]
  <2>1. 1 .. 0 = {}
    OBVIOUS
  <2>2. f = [i \in 1 .. 0 |-> IF i = 1 THEN seqs[i] ELSE f[i - 1] \o seqs[i]]
    BY <2>1, Zenon
  <2> QED
    BY <2>2 DEF Flattens
<1>2. ASSUME NEW n \in Nat, n \in T PROVE n + 1 \in T
  <2>1. PICK f : Flattens(f, seqs, n)
    BY <1>2
  <2> DEFINE g == [i \in 1 .. n + 1 |-> IF i = n + 1
                                        THEN IF i = 1 THEN seqs[i] ELSE f[n] \o seqs[i]
                                        ELSE f[i]]
             h == [i \in 1 .. n + 1 |-> IF i = 1 THEN seqs[i] ELSE g[i - 1] \o seqs[i]]
  <2>2. \A i \in 1 .. n : f[i] = IF i = 1 THEN seqs[i] ELSE f[i - 1] \o seqs[i]
    BY <2>1 DEF Flattens
  <2>3. ASSUME NEW i \in 1 .. n + 1 PROVE g[i] = h[i]
    <3>1. CASE i = 1
      BY <2>2, <3>1
    <3>2. CASE i # 1
      <4>1. i - 1 \in 1 .. n + 1 /\ i - 1 # n + 1 /\ i - 1 \in 1 .. n
        BY <3>2
      <4>2. g[i - 1] = f[i - 1]
        BY <4>1
      <4>3. h[i] = f[i - 1] \o seqs[i]
        BY <3>2, <4>2
      <4>4. CASE i = n + 1
        <5>1. i - 1 = n
          BY <4>4
        <5> QED
          BY <3>2, <4>3, <4>4, <5>1
      <4>5. CASE i # n + 1
        <5>1. i \in 1 .. n
          BY <4>5
        <5>2. g[i] = f[i]
          BY <4>5
        <5> QED
          BY <2>2, <3>2, <4>3, <5>1, <5>2
      <4> QED
        BY <4>4, <4>5
    <3> QED
      BY <3>1, <3>2
  <2>4. g = h
    <3> HIDE DEF g
    <3>1. DOMAIN h = 1 .. n + 1
      OBVIOUS
    <3>2. g = [i \in 1 .. n + 1 |-> g[i]]
      BY DEF g
    <3>3. h = [i \in 1 .. n + 1 |-> h[i]]
      OBVIOUS
    <3> HIDE DEF h
    <3> QED
      BY <2>3, <3>2, <3>3, Zenon
  <2>5. Flattens(g, seqs, n + 1)
    <3> HIDE DEF g
    <3> QED
      BY <2>4 DEF Flattens
  <2> QED
    BY <2>5
<1>3. Nat \subseteq T
  <2> HIDE DEF T
  <2> QED
    BY <1>1, <1>2, SetInduction
<1> QED
  BY <1>3

\* Equal up to the n-th.
Agree(f, g, n) == \A i \in 1 .. n : f[i] = g[i]

\* It is determined by the sequences it joins.
LEMMA FlatteningIsUnique ==
    ASSUME NEW seqs, NEW others, NEW n \in Nat, NEW f, NEW g,
           Flattens(f, seqs, n), Flattens(g, others, n + 1),
           Agree(seqs, others, n)
    PROVE  Agree(f, g, n)
<1> DEFINE T == {k \in Nat : k \in 1 .. n => f[k] = g[k]}
<1>1. 0 \in T
  OBVIOUS
<1>2. ASSUME NEW k \in Nat, k \in T PROVE k + 1 \in T
  <2> SUFFICES ASSUME k + 1 \in 1 .. n PROVE f[k + 1] = g[k + 1]
    OBVIOUS
  <2>1. /\ f[k + 1] = IF k + 1 = 1 THEN seqs[k + 1] ELSE f[k + 1 - 1] \o seqs[k + 1]
        /\ g[k + 1] = IF k + 1 = 1 THEN others[k + 1] ELSE g[k + 1 - 1] \o others[k + 1]
    <3>1. k + 1 \in 1 .. n /\ k + 1 \in 1 .. n + 1
      OBVIOUS
    <3> QED
      BY <3>1, FlattensAt
  <2>2. k + 1 - 1 = k /\ seqs[k + 1] = others[k + 1]
    BY DEF Agree
  <2>3. CASE k = 0
    BY <2>1, <2>2, <2>3
  <2>4. CASE k # 0
    <3>1. f[k] = g[k] /\ k + 1 # 1
      BY <1>2, <2>4
    <3> QED
      BY <2>1, <2>2, <3>1
  <2> QED
    BY <2>3, <2>4
<1>3. Nat \subseteq T
  <2> HIDE DEF T
  <2> QED
    BY <1>1, <1>2, SetInduction
<1> QED
  BY <1>3 DEF Agree

LEMMA FlattenSeqIs ==
    ASSUME NEW S, NEW seqs \in Seq(Seq(S))
    PROVE  /\ Len(seqs) = 0 => FlattenSeq(seqs) = <<>>
           /\ Len(seqs) # 0 => \E f : /\ Flattens(f, seqs, Len(seqs))
                                      /\ FlattenSeq(seqs) = f[Len(seqs)]
<1>1. Len(seqs) \in Nat
  BY LenProperties
<1>2. CASE Len(seqs) = 0
  BY <1>2, EmptySeq DEF FlattenSeq
<1>3. CASE Len(seqs) # 0
  <2> DEFINE f == CHOOSE f : Flattens(f, seqs, Len(seqs))
  <2>1. Flattens(f, seqs, Len(seqs))
    BY <1>1, FlatteningExists
  <2>2. FlattenSeq(seqs) = f[Len(seqs)]
    BY <1>3, Zenon DEF FlattenSeq, Flattens
  <2> QED
    BY <1>3, <2>1, <2>2
<1> QED
  BY <1>2, <1>3

LEMMA FlattenSeqType ==
    ASSUME NEW S, NEW seqs \in Seq(Seq(S)) PROVE FlattenSeq(seqs) \in Seq(S)
<1>1. Len(seqs) \in Nat
  BY LenProperties
<1>2. CASE Len(seqs) = 0
  BY <1>2, FlattenSeqIs, EmptySeq
<1>3. CASE Len(seqs) # 0
  <2>1. PICK f : Flattens(f, seqs, Len(seqs)) /\ FlattenSeq(seqs) = f[Len(seqs)]
    BY <1>3, FlattenSeqIs
  <2> DEFINE T == {k \in Nat : k \in 1 .. Len(seqs) => f[k] \in Seq(S)}
  <2>2. 0 \in T
    OBVIOUS
  <2>3. ASSUME NEW k \in Nat, k \in T PROVE k + 1 \in T
    <3> SUFFICES ASSUME k + 1 \in 1 .. Len(seqs) PROVE f[k + 1] \in Seq(S)
      OBVIOUS
    <3>1. f[k + 1] = IF k + 1 = 1 THEN seqs[k + 1] ELSE f[k + 1 - 1] \o seqs[k + 1]
      BY <2>1, FlattensAt
    <3>2. seqs[k + 1] \in Seq(S)
      BY ElementOfSeq
    <3>3. k + 1 - 1 = k
      OBVIOUS
    <3>4. CASE k = 0
      BY <3>1, <3>2, <3>4
    <3>5. CASE k # 0
      <4>1. f[k] \in Seq(S) /\ k + 1 # 1
        BY <1>1, <2>3, <3>5
      <4>2. f[k + 1] = f[k] \o seqs[k + 1]
        BY <3>1, <3>3, <4>1
      <4> QED
        BY <3>2, <4>1, <4>2, ConcatProperties
    <3> QED
      BY <3>4, <3>5
  <2>4. Nat \subseteq T
    <3> HIDE DEF T
    <3> QED
      BY <2>2, <2>3, SetInduction
  <2>5. Len(seqs) \in 1 .. Len(seqs)
    BY <1>1, <1>3
  <2> QED
    BY <1>1, <2>1, <2>4, <2>5
<1> QED
  BY <1>2, <1>3

LEMMA FlattenSeqAppend ==
    ASSUME NEW S, NEW seqs \in Seq(Seq(S)), NEW s \in Seq(S)
    PROVE  FlattenSeq(Append(seqs, s)) = FlattenSeq(seqs) \o s
<1> DEFINE longer == Append(seqs, s)
           n == Len(seqs)
<1>1. /\ longer \in Seq(Seq(S)) /\ Len(longer) = n + 1 /\ n \in Nat
      /\ \A i \in 1 .. n : longer[i] = seqs[i]
      /\ longer[n + 1] = s
  BY AppendProperties, LenProperties
<1> HIDE DEF longer
<1>2. PICK g : Flattens(g, longer, n + 1) /\ FlattenSeq(longer) = g[n + 1]
  BY <1>1, FlattenSeqIs
<1>3. g[n + 1] = IF n + 1 = 1 THEN longer[n + 1] ELSE g[n + 1 - 1] \o longer[n + 1]
  <2>1. n + 1 \in 1 .. n + 1
    BY <1>1
  <2> QED
    BY <1>2, <2>1, FlattensAt
<1>4. CASE n = 0
  <2>1. FlattenSeq(seqs) = <<>> /\ <<>> \o s = s
    BY <1>4, FlattenSeqIs, ConcatEmptySeq
  <2>2. n + 1 = 1
    BY <1>4
  <2>3. FlattenSeq(longer) = s
    BY <1>1, <1>2, <1>3, <2>2
  <2> QED
    BY <2>1, <2>3 DEF longer
<1>5. CASE n # 0
  <2>1. PICK f : Flattens(f, seqs, n) /\ FlattenSeq(seqs) = f[n]
    BY <1>5, FlattenSeqIs
  <2>2. n \in 1 .. n /\ n + 1 # 1 /\ n + 1 - 1 = n
    BY <1>1, <1>5
  <2>3. f[n] = g[n]
    <3>1. Agree(seqs, longer, n)
      BY <1>1 DEF Agree
    <3>2. Agree(f, g, n)
      <4> HIDE DEF n
      <4> QED
        BY <1>1, <1>2, <2>1, <3>1, FlatteningIsUnique, Zenon
    <3> QED
      BY <2>2, <3>2 DEF Agree
  <2> QED
    BY <1>1, <1>2, <1>3, <2>1, <2>2, <2>3 DEF longer
<1> QED
  BY <1>4, <1>5

-----------------------------------------------------------------------------
\* Sequences that are joined from others.

\* One sequence after the other.
Joins(u, s, t) ==
    /\ Len(s) \in Nat /\ Len(t) \in Nat /\ Len(u) = Len(s) + Len(t)
    /\ \A k \in 1 .. Len(s) : u[k] = s[k]
    /\ \A k \in 1 .. Len(t) : u[Len(s) + k] = t[k]

LEMMA Joined ==
    ASSUME NEW S, NEW s \in Seq(S), NEW t \in Seq(S)
    PROVE  s \o t \in Seq(S) /\ Joins(s \o t, s, t)
<1>1. Len(s) \in Nat /\ Len(t) \in Nat
  BY LenProperties
<1>2. /\ s \o t \in Seq(S) /\ Len(s \o t) = Len(s) + Len(t)
      /\ \A k \in 1 .. Len(s) + Len(t) :
            (s \o t)[k] = IF k <= Len(s) THEN s[k] ELSE t[k - Len(s)]
  BY ConcatProperties
<1> DEFINE u == s \o t
<1> HIDE DEF u
<1>3. ASSUME NEW k \in 1 .. Len(s) PROVE u[k] = s[k]
  <2>1. k \in 1 .. Len(s) + Len(t) /\ k <= Len(s)
    BY <1>1
  <2> QED
    BY <1>2, <2>1 DEF u
<1>4. ASSUME NEW k \in 1 .. Len(t) PROVE u[Len(s) + k] = t[k]
  <2>1. /\ Len(s) + k \in 1 .. Len(s) + Len(t) /\ ~ (Len(s) + k <= Len(s))
        /\ Len(s) + k - Len(s) = k
    BY <1>1
  <2> QED
    BY <1>2, <2>1 DEF u
<1> QED
  BY <1>1, <1>2, <1>3, <1>4 DEF Joins, u

\* A sequence is determined by what it joins.
LEMMA JoinIs ==
    ASSUME NEW S, NEW s \in Seq(S), NEW t \in Seq(S), NEW u \in Seq(S), Joins(u, s, t)
    PROVE  u = s \o t
<1>1. s \o t \in Seq(S) /\ Joins(s \o t, s, t)
  BY Joined
<1> DEFINE v == s \o t
<1>2. Joins(v, s, t) /\ v \in Seq(S)
  BY <1>1
<1> HIDE DEF v
<1>3. Len(u) = Len(v)
  BY <1>2 DEF Joins
<1>4. ASSUME NEW i \in 1 .. Len(u) PROVE u[i] = v[i]
  <2>1. CASE i <= Len(s)
    BY <1>2, <2>1 DEF Joins
  <2>2. CASE ~(i <= Len(s))
    <3>1. i - Len(s) \in 1 .. Len(t) /\ Len(s) + (i - Len(s)) = i
      BY <2>2 DEF Joins
    <3>2. u[Len(s) + (i - Len(s))] = v[Len(s) + (i - Len(s))]
      BY <1>2, <3>1 DEF Joins
    <3> QED
      BY <3>1, <3>2
  <2> QED
    BY <2>1, <2>2 DEF Joins
<1>5. u = v
  BY <1>2, <1>3, <1>4, SeqEqual
<1> QED
  BY <1>5 DEF v

\* The first m sequences, one after the other.
UpTo(b, m) == FlattenSeq([i \in 1 .. m |-> b[i]])

\* One sequence more, and all of them.
LEMMA UpToNext ==
    ASSUME NEW S, NEW b \in Seq(Seq(S)), NEW m \in 0 .. Len(b)
    PROVE  /\ UpTo(b, m) \in Seq(S) /\ Len(UpTo(b, m)) \in Nat
           /\ m = 0 => UpTo(b, m) = <<>>
           /\ m < Len(b) => UpTo(b, m + 1) = UpTo(b, m) \o b[m + 1]
<1>1. Len(b) \in Nat /\ \A i \in 1 .. Len(b) : b[i] \in Seq(S)
  BY LenProperties, ElementOfSeq
<1> DEFINE first(n) == [i \in 1 .. n |-> b[i]]
<1>2. ASSUME NEW n \in 0 .. Len(b)
      PROVE  first(n) \in Seq(Seq(S)) /\ Len(first(n)) = n
  <2>1. first(n) \in [1 .. n -> Seq(S)]
    BY <1>1
  <2> HIDE DEF first
  <2>2. n \in Nat
    BY <1>1
  <2> QED
    BY <2>1, <2>2
<1>3. UpTo(b, m) \in Seq(S)
  BY <1>2, FlattenSeqType DEF UpTo
<1>4. m = 0 => UpTo(b, m) = <<>>
  BY <1>2, FlattenSeqIs DEF UpTo
<1>5. ASSUME m < Len(b) PROVE UpTo(b, m + 1) = UpTo(b, m) \o b[m + 1]
  <2> DEFINE last == b[m + 1]
  <2>1. m \in Nat /\ m + 1 \in 0 .. Len(b) /\ m + 1 \in 1 .. Len(b)
    BY <1>1, <1>5
  <2>2. last \in Seq(S)
    BY <1>1, <2>1
  <2>3. first(m + 1) = Append(first(m), last)
    <3>1. /\ Append(first(m), last) \in Seq(Seq(S))
          /\ Len(Append(first(m), last)) = m + 1
          /\ \A i \in 1 .. m : Append(first(m), last)[i] = first(m)[i]
          /\ Append(first(m), last)[m + 1] = last
      <4> HIDE DEF first, last
      <4> QED
        BY <1>2, <2>2, AppendProperties
    <3>2. first(m + 1) \in Seq(Seq(S)) /\ Len(first(m + 1)) = m + 1
      BY <1>2, <2>1
    <3>3. /\ \A i \in 1 .. m : first(m + 1)[i] = first(m)[i]
          /\ first(m + 1)[m + 1] = last
      BY <2>1
    <3> HIDE DEF first, last
    <3>4. \A i \in 1 .. m + 1 : first(m + 1)[i] = Append(first(m), last)[i]
      <4>1. \A i \in 1 .. m + 1 : i \in 1 .. m \/ i = m + 1
        BY <2>1
      <4> QED
        BY <3>1, <3>3, <4>1
    <3> QED
      BY <3>1, <3>2, <3>4, SeqEqual
  <2> HIDE DEF last
  <2>4. FlattenSeq(first(m + 1)) = FlattenSeq(first(m)) \o last
    <3> HIDE DEF first
    <3> QED
      BY <1>2, <2>2, <2>3, FlattenSeqAppend
  <2> QED
    BY <2>4 DEF UpTo, last
<1> QED
  BY <1>3, <1>4, <1>5, LenProperties

LEMMA UpToAll ==
    ASSUME NEW S, NEW b \in Seq(Seq(S)) PROVE UpTo(b, Len(b)) = FlattenSeq(b)
<1>1. b = [i \in 1 .. Len(b) |-> b[i]]
  BY LenProperties
<1> QED
  BY <1>1, Zenon DEF UpTo

\* One text begins with the other.
StartsWith(u, s) == Len(s) <= Len(u) /\ \A k \in 1 .. Len(s) : u[k] = s[k]

\* What stands first stays first when more is joined.
LEMMA StillStarts ==
    ASSUME NEW u, NEW v, NEW s, NEW t, Len(s) \in Nat, StartsWith(v, s), Joins(u, v, t)
    PROVE  StartsWith(u, s)
  BY DEF StartsWith, Joins

LEMMA UpToStarts ==
    ASSUME NEW S, NEW b \in Seq(Seq(S)), NEW m \in 0 .. Len(b), NEW n \in m .. Len(b)
    PROVE  StartsWith(UpTo(b, n), UpTo(b, m))
<1> DEFINE T == {k \in Nat : m + k <= Len(b) => StartsWith(UpTo(b, m + k), UpTo(b, m))}
<1>1. Len(b) \in Nat /\ m \in Nat
  BY LenProperties
<1>2. 0 \in T
  <2>1. Len(UpTo(b, m)) \in Nat /\ m + 0 = m
    BY <1>1, UpToNext
  <2> QED
    BY <2>1 DEF StartsWith
<1>3. ASSUME NEW k \in Nat, k \in T PROVE k + 1 \in T
  <2> SUFFICES ASSUME m + (k + 1) <= Len(b)
               PROVE  StartsWith(UpTo(b, m + (k + 1)), UpTo(b, m))
    OBVIOUS
  <2>1. /\ m + k \in 0 .. Len(b) /\ m + k < Len(b) /\ m + k + 1 = m + (k + 1)
        /\ m + k + 1 \in 1 .. Len(b)
    BY <1>1
  <2>2. StartsWith(UpTo(b, m + k), UpTo(b, m))
    BY <1>3, <2>1
  <2>3. b[m + k + 1] \in Seq(S)
    BY <2>1, ElementOfSeq
  <2>4. /\ UpTo(b, m + k) \in Seq(S) /\ Len(UpTo(b, m)) \in Nat
        /\ UpTo(b, m + (k + 1)) = UpTo(b, m + k) \o b[m + k + 1]
    BY <2>1, UpToNext
  <2>5. Joins(UpTo(b, m + (k + 1)), UpTo(b, m + k), b[m + k + 1])
    BY <2>3, <2>4, Joined
  <2> QED
    BY <2>2, <2>4, <2>5, StillStarts
<1>4. Nat \subseteq T
  <2> HIDE DEF T
  <2> QED
    BY <1>2, <1>3, SetInduction
<1>5. n - m \in Nat /\ m + (n - m) = n /\ n <= Len(b)
  BY <1>1
<1> QED
  BY <1>4, <1>5

\* Where the m-th sequence begins, and what stands there.
Offset(b, m) == Len(UpTo(b, m - 1))

LEMMA OffsetIs ==
    ASSUME NEW b, NEW m \in Int PROVE Offset(b, m + 1) = Len(UpTo(b, m))
<1>1. m + 1 - 1 = m
  OBVIOUS
<1> QED
  BY <1>1 DEF Offset

PlacedAt(b, m, whole) ==
    /\ Offset(b, m) \in Nat /\ Len(b[m]) \in Nat
    /\ Offset(b, m + 1) = Offset(b, m) + Len(b[m])
    /\ Offset(b, m + 1) <= Len(whole)
    /\ \A k \in 1 .. Len(b[m]) : whole[Offset(b, m) + k] = b[m][k]

LEMMA BlockPlaced ==
    ASSUME NEW S, NEW b \in Seq(Seq(S)), NEW m \in 1 .. Len(b)
    PROVE  PlacedAt(b, m, FlattenSeq(b))
<1>1. /\ m - 1 \in 0 .. Len(b) /\ m - 1 < Len(b) /\ m - 1 + 1 = m
      /\ m \in 0 .. Len(b) /\ Len(b) \in m .. Len(b) /\ m \in Int
  BY LenProperties
<1> DEFINE before == UpTo(b, m - 1)
           with == UpTo(b, m)
           whole == FlattenSeq(b)
<1>2. before \in Seq(S) /\ with = before \o b[m]
  BY <1>1, UpToNext
<1>3. b[m] \in Seq(S)
  BY ElementOfSeq
<1>4. StartsWith(whole, with)
  BY <1>1, UpToStarts, UpToAll
<1>5. Offset(b, m) = Len(before) /\ Offset(b, m + 1) = Len(with)
  BY <1>1, OffsetIs DEF Offset
<1> HIDE DEF before, with, whole
<1>6. Joins(with, before, b[m])
  BY <1>2, <1>3, Joined
<1>7. ASSUME NEW k \in 1 .. Len(b[m])
      PROVE  whole[Len(before) + k] = b[m][k]
  <2>1. Len(before) + k \in 1 .. Len(with)
    BY <1>6 DEF Joins
  <2> QED
    BY <1>4, <1>6, <2>1 DEF Joins, StartsWith
<1>8. /\ Len(before) \in Nat /\ Len(b[m]) \in Nat
      /\ Len(with) = Len(before) + Len(b[m]) /\ Len(with) <= Len(whole)
  BY <1>4, <1>6 DEF Joins, StartsWith
<1>9. PlacedAt(b, m, whole)
  BY <1>5, <1>7, <1>8 DEF PlacedAt
<1> QED
  BY <1>9 DEF whole

\* Every place belongs to one of them.
LEMMA BlockAt ==
    ASSUME NEW S, NEW b \in Seq(Seq(S)), NEW i \in 1 .. Len(FlattenSeq(b))
    PROVE  \E m \in 1 .. Len(b) : \E k \in 1 .. Len(b[m]) : i = Offset(b, m) + k
<1> DEFINE T == {n \in Nat : n <= Len(b) /\ i <= Len(UpTo(b, n)) =>
                    \E m \in 1 .. Len(b) : \E k \in 1 .. Len(b[m]) : i = Offset(b, m) + k}
<1>1. Len(b) \in Nat
  BY LenProperties
<1>2. 0 \in T
  <2>1. Len(UpTo(b, 0)) = 0
    <3>1. 0 \in 0 .. Len(b)
      BY <1>1
    <3>2. UpTo(b, 0) = <<>>
      BY <3>1, UpToNext
    <3> QED
      BY <3>2
  <2> QED
    BY <2>1
<1>3. ASSUME NEW n \in Nat, n \in T PROVE n + 1 \in T
  <2> SUFFICES ASSUME n + 1 <= Len(b), i <= Len(UpTo(b, n + 1))
               PROVE  \E m \in 1 .. Len(b) : \E k \in 1 .. Len(b[m]) : i = Offset(b, m) + k
    OBVIOUS
  <2>1. CASE i <= Len(UpTo(b, n))
    BY <1>1, <1>3, <2>1
  <2>2. CASE ~(i <= Len(UpTo(b, n)))
    <3>1. n + 1 \in 1 .. Len(b) /\ n \in Int /\ n + 1 \in Int
      BY <1>1
    <3>2. PlacedAt(b, n + 1, FlattenSeq(b))
      BY <3>1, BlockPlaced
    <3>3. Offset(b, n + 1) = Len(UpTo(b, n)) /\ Offset(b, n + 1 + 1) = Len(UpTo(b, n + 1))
      BY <3>1, OffsetIs
    <3>4. /\ Offset(b, n + 1) = Len(UpTo(b, n)) /\ Len(UpTo(b, n)) \in Nat
          /\ Len(UpTo(b, n + 1)) = Len(UpTo(b, n)) + Len(b[n + 1]) /\ Len(b[n + 1]) \in Nat
      BY <3>2, <3>3 DEF PlacedAt
    <3>5. i - Len(UpTo(b, n)) \in 1 .. Len(b[n + 1])
      BY <2>2, <3>4
    <3>6. i \in Int
      BY FlattenSeqType, LenProperties
    <3> DEFINE L == Len(UpTo(b, n))
    <3>7. L \in Int
      BY <3>4
    <3> HIDE DEF L
    <3>8. i = L + (i - L)
      BY <3>6, <3>7
    <3>9. i = Offset(b, n + 1) + (i - Len(UpTo(b, n)))
      BY <3>4, <3>8, Zenon DEF L
    <3> QED
      BY <3>1, <3>5, <3>9
  <2> QED
    BY <2>1, <2>2
<1>4. Nat \subseteq T
  <2> HIDE DEF T
  <2> QED
    BY <1>2, <1>3, SetInduction
<1>5. i <= Len(UpTo(b, Len(b)))
  BY UpToAll
<1> QED
  BY <1>1, <1>4, <1>5

\* They do not overlap.
LEMMA OffsetsGrow ==
    ASSUME NEW S, NEW b \in Seq(Seq(S)), NEW m \in 1 .. Len(b), NEW n \in 1 .. Len(b), m < n
    PROVE  Offset(b, m) + Len(b[m]) <= Offset(b, n)
<1>1. m \in Int /\ m \in 0 .. Len(b) /\ n - 1 \in m .. Len(b)
  BY LenProperties
<1>2. StartsWith(UpTo(b, n - 1), UpTo(b, m))
  BY <1>1, UpToStarts
<1>3. Offset(b, m + 1) = Len(UpTo(b, m)) /\ Offset(b, n) = Len(UpTo(b, n - 1))
  BY <1>1, OffsetIs DEF Offset
<1>4. PlacedAt(b, m, FlattenSeq(b))
  BY BlockPlaced
<1>5. Offset(b, m + 1) = Offset(b, m) + Len(b[m])
  BY <1>4 DEF PlacedAt
<1>6. Len(UpTo(b, m)) <= Len(UpTo(b, n - 1))
  BY <1>2 DEF StartsWith
<1> QED
  BY <1>3, <1>5, <1>6

-----------------------------------------------------------------------------
\* Texts that are joined from blocks.

\* The text w is p and then the blocks b, the k-th of them after s[k] words.
Laid(w, p, b, s) ==
    /\ Len(p) \in Nat /\ Len(b) \in Nat /\ Len(w) \in Nat
    /\ s[1] = Len(p) /\ s[Len(b) + 1] = Len(w)
    /\ \A i \in 1 .. Len(p) : w[i] = p[i]
    /\ \A k \in 1 .. Len(b) + 1 : s[k] \in Nat /\ s[k] <= Len(w) /\ s[k] >= Len(p)
    /\ \A k \in 1 .. Len(b) : Len(b[k]) \in Nat /\ s[k + 1] = s[k] + Len(b[k])
    /\ \A k \in 1 .. Len(b) : \A j \in 1 .. Len(b[k]) : w[s[k] + j] = b[k][j]
    /\ \A k, l \in 1 .. Len(b) : k < l => s[k] + Len(b[k]) <= s[l]
    /\ \A i \in 1 .. Len(w) :
          i <= Len(p) \/ \E k \in 1 .. Len(b) : \E j \in 1 .. Len(b[k]) : i = s[k] + j

\* A text that is p and then the blocks b has this layout.
LEMMA Layout ==
    ASSUME NEW S, NEW p \in Seq(S), NEW b \in Seq(Seq(S))
    PROVE  /\ p \o FlattenSeq(b) \in Seq(S)
           /\ \E s : Laid(p \o FlattenSeq(b), p, b, s)
<1> DEFINE f == FlattenSeq(b)
           w == p \o f
           N == Len(b)
           s == [k \in 1 .. N + 1 |-> Len(p) + Offset(b, k)]
<1>1. f \in Seq(S) /\ Len(f) \in Nat /\ Len(p) \in Nat /\ N \in Nat
  BY FlattenSeqType, LenProperties
<1>2. w \in Seq(S) /\ Joins(w, p, f)
  BY <1>1, Joined
<1>3. \A k \in 1 .. N : PlacedAt(b, k, f)
  BY BlockPlaced
<1>4. Offset(b, 1) = 0
  <2>1. Offset(b, 0 + 1) = Len(UpTo(b, 0)) /\ 0 + 1 = 1
    BY OffsetIs
  <2>2. UpTo(b, 0) = <<>>
    BY <1>1, UpToNext
  <2> QED
    BY <2>1, <2>2
<1>5. Offset(b, N + 1) = Len(f)
  BY <1>1, OffsetIs, UpToAll
<1>6. \A k \in 1 .. N + 1 : s[k] = Len(p) + Offset(b, k)
  OBVIOUS
<1>7. \A k \in 1 .. N + 1 : Offset(b, k) \in Nat /\ Offset(b, k) <= Len(f)
  <2> TAKE k \in 1 .. N + 1
  <2>1. CASE k = N + 1
    BY <1>1, <1>5, <2>1
  <2>2. CASE k # N + 1
    <3>1. k \in 1 .. N
      BY <1>1, <2>2
    <3> QED
      BY <1>1, <1>3, <3>1 DEF PlacedAt
  <2> QED
    BY <2>1, <2>2
<1>8. \A k, l \in 1 .. N : k < l => Offset(b, k) + Len(b[k]) <= Offset(b, l)
  BY OffsetsGrow
<1>9. \A i \in 1 .. Len(f) :
         \E k \in 1 .. N : \E j \in 1 .. Len(b[k]) : i = Offset(b, k) + j
  BY BlockAt
<1>10. 1 \in 1 .. N + 1 /\ N + 1 \in 1 .. N + 1
       /\ \A k \in 1 .. N : k \in 1 .. N + 1 /\ k + 1 \in 1 .. N + 1
  BY <1>1
<1> HIDE DEF f, w, s, N
<1>11. Len(w) = Len(p) + Len(f) /\ \A i \in 1 .. Len(p) : w[i] = p[i]
  BY <1>2 DEF Joins
<1>12. s[1] = Len(p) /\ s[N + 1] = Len(w)
  <2>1. s[1] = Len(p) + Offset(b, 1) /\ s[N + 1] = Len(p) + Offset(b, N + 1)
    BY <1>6, <1>10
  <2> DEFINE l == Len(p)
  <2>2. l \in Nat
    BY <1>1
  <2> HIDE DEF l
  <2>3. l + 0 = l
    BY <2>2
  <2>4. s[1] = Len(p)
    BY <1>4, <2>1, <2>3, Zenon DEF l
  <2>5. s[N + 1] = Len(w)
    BY <1>5, <1>11, <2>1, Zenon
  <2> QED
    BY <2>4, <2>5
<1>13. \A k \in 1 .. N + 1 : s[k] \in Nat /\ s[k] <= Len(w) /\ s[k] >= Len(p)
  BY <1>1, <1>6, <1>7, <1>11
<1>14. \A k \in 1 .. N : Len(b[k]) \in Nat /\ s[k + 1] = s[k] + Len(b[k])
  <2> TAKE k \in 1 .. N
  <2>1. /\ Len(b[k]) \in Nat /\ Offset(b, k) \in Nat
        /\ Offset(b, k + 1) = Offset(b, k) + Len(b[k])
    BY <1>3 DEF PlacedAt
  <2>2. s[k] = Len(p) + Offset(b, k) /\ s[k + 1] = Len(p) + Offset(b, k + 1)
    BY <1>6, <1>10
  <2> QED
    BY <1>1, <2>1, <2>2
<1>15. ASSUME NEW k \in 1 .. N, NEW j \in 1 .. Len(b[k]) PROVE w[s[k] + j] = b[k][j]
  <2>1. /\ Len(b[k]) \in Nat /\ Offset(b, k) \in Nat
        /\ Offset(b, k + 1) = Offset(b, k) + Len(b[k]) /\ Offset(b, k + 1) <= Len(f)
        /\ f[Offset(b, k) + j] = b[k][j]
    BY <1>3 DEF PlacedAt
  <2>2. Offset(b, k) + j \in 1 .. Len(f)
    BY <1>1, <2>1
  <2>3. w[Len(p) + (Offset(b, k) + j)] = f[Offset(b, k) + j]
    BY <1>2, <2>2 DEF Joins
  <2>4. s[k] + j = Len(p) + (Offset(b, k) + j)
    BY <1>1, <1>6, <1>10, <2>1
  <2> QED
    BY <2>1, <2>3, <2>4
<1>16. ASSUME NEW k \in 1 .. N, NEW l \in 1 .. N, k < l PROVE s[k] + Len(b[k]) <= s[l]
  <2>1. /\ Offset(b, k) + Len(b[k]) <= Offset(b, l)
        /\ Offset(b, k) \in Nat /\ Len(b[k]) \in Nat /\ Offset(b, l) \in Nat
    BY <1>3, <1>8, <1>16 DEF PlacedAt
  <2>2. s[k] = Len(p) + Offset(b, k) /\ s[l] = Len(p) + Offset(b, l)
    BY <1>6, <1>10
  <2> QED
    BY <1>1, <2>1, <2>2
<1>17. ASSUME NEW i \in 1 .. Len(w)
       PROVE  i <= Len(p) \/ \E k \in 1 .. N : \E j \in 1 .. Len(b[k]) : i = s[k] + j
  <2> SUFFICES ASSUME ~(i <= Len(p))
               PROVE  \E k \in 1 .. N : \E j \in 1 .. Len(b[k]) : i = s[k] + j
    OBVIOUS
  <2>1. i - Len(p) \in 1 .. Len(f)
    BY <1>1, <1>11
  <2>2. PICK k \in 1 .. N : \E j \in 1 .. Len(b[k]) : i - Len(p) = Offset(b, k) + j
    BY <1>9, <2>1
  <2>3. PICK j \in 1 .. Len(b[k]) : i - Len(p) = Offset(b, k) + j
    BY <2>2
  <2>4. Offset(b, k) \in Nat /\ Len(b[k]) \in Nat
    BY <1>3 DEF PlacedAt
  <2>5. s[k] = Len(p) + Offset(b, k)
    BY <1>6, <1>10
  <2>6. i \in Int /\ j \in Int
    BY <1>1, <1>11, <2>4
  <2> DEFINE o == Offset(b, k)
             l == Len(p)
  <2>7. i - l = o + j /\ l \in Int /\ o \in Int /\ s[k] = l + o
    BY <1>1, <2>3, <2>4, <2>5
  <2> HIDE DEF o, l
  <2>8. i = (l + o) + j
    BY <2>6, <2>7
  <2>9. i = s[k] + j
    BY <2>7, <2>8
  <2> QED
    BY <2>9
<1>18. Laid(w, p, b, s)
  <2>1. Len(w) \in Nat /\ N \in Nat
    BY <1>1, <1>11
  <2>2. N = Len(b)
    BY DEF N
  <2> QED
    BY <1>1, <2>1, <1>11, <1>12, <1>13, <1>14, <1>15, <1>16, <1>17, <2>2, Zenon DEF Laid
<1> QED
  BY <1>2, <1>18 DEF w, f

-----------------------------------------------------------------------------
\* Subsequences of what was joined, least and greatest elements.

LEMMA FirstOfJoined ==
    ASSUME NEW S, NEW s \in Seq(S), NEW t \in Seq(S)
    PROVE  /\ SubSeq(s \o t, 1, Len(s)) = s
           /\ SubSeq(s \o t, Len(s) + 1, Len(s \o t)) = t
<1> DEFINE u == s \o t
           x == SubSeq(u, 1, Len(s))
           y == SubSeq(u, Len(s) + 1, Len(u))
<1>1. u \in Seq(S) /\ Joins(u, s, t) /\ Len(u) \in Nat /\ Len(s) \in Nat /\ Len(t) \in Nat
  BY Joined, LenProperties
<1>2. \A i \in 1 .. Len(u) : u[i] \in S
  BY <1>1, ElementOfSeq
<1> HIDE DEF u
<1>3. Len(u) = Len(s) + Len(t)
  BY <1>1 DEF Joins
<1>4. /\ x \in Seq(S) /\ Len(x) = Len(s)
      /\ \A i \in 1 .. Len(s) : x[i] = u[i]
  <2>1. \A i \in 1 .. Len(s) : u[i] \in S
    BY <1>1, <1>2, <1>3
  <2>2. /\ x \in Seq(S)
        /\ Len(x) = IF 1 <= Len(s) THEN Len(s) - 1 + 1 ELSE 0
        /\ \A i \in 1 .. Len(s) - 1 + 1 : x[i] = u[1 + i - 1]
    BY <1>1, <2>1, SubSeqProperties
  <2> HIDE DEF x
  <2>3. Len(s) - 1 + 1 = Len(s) /\ \A i \in Int : 1 + i - 1 = i
    BY <1>1
  <2> QED
    BY <1>1, <2>2, <2>3
<1>5. /\ y \in Seq(S) /\ Len(y) = Len(t)
      /\ \A i \in 1 .. Len(t) : y[i] = u[Len(s) + i]
  <2>1. \A i \in Len(s) + 1 .. Len(u) : u[i] \in S
    BY <1>1, <1>2, <1>3
  <2>2. /\ y \in Seq(S)
        /\ Len(y) = IF Len(s) + 1 <= Len(u) THEN Len(u) - (Len(s) + 1) + 1 ELSE 0
        /\ \A i \in 1 .. Len(u) - (Len(s) + 1) + 1 : y[i] = u[(Len(s) + 1) + i - 1]
    BY <1>1, <2>1, SubSeqProperties
  <2> HIDE DEF y
  <2>3. /\ Len(u) - (Len(s) + 1) + 1 = Len(t)
        /\ \A i \in Int : (Len(s) + 1) + i - 1 = Len(s) + i
    BY <1>1, <1>3
  <2> QED
    BY <1>1, <1>3, <2>2, <2>3
<1>6. \A i \in 1 .. Len(s) : u[i] = s[i]
  BY <1>1 DEF Joins
<1>7. \A i \in 1 .. Len(t) : u[Len(s) + i] = t[i]
  BY <1>1 DEF Joins
<1> HIDE DEF x, y
<1>8. x = s
  BY <1>4, <1>6, SeqEqual
<1>9. y = t
  BY <1>5, <1>7, SeqEqual
<1> QED
  BY <1>8, <1>9 DEF u, x, y

LEMMA MinIs ==
    ASSUME NEW U \in SUBSET Int, NEW m \in U, \A y \in U : m <= y
    PROVE  Min(U) = m
<1>1. \A x \in U : (\A y \in U : x <= y) => x = m
  OBVIOUS
<1> QED
  BY <1>1 DEF Min

LEMMA MaxIs ==
    ASSUME NEW U \in SUBSET Int, NEW m \in U, \A y \in U : m >= y
    PROVE  Max(U) = m
<1>1. \A x \in U : (\A y \in U : x >= y) => x = m
  OBVIOUS
<1> QED
  BY <1>1 DEF Max

LEMMA GreatestExists ==
    ASSUME NEW n \in Nat, NEW U \in SUBSET (1 .. n), U # {}
    PROVE  \E m \in U : \A y \in U : m >= y
<1> DEFINE T == {k \in Nat : \A V \in SUBSET (1 .. k) :
                                V # {} => \E m \in V : \A y \in V : m >= y}
<1>1. 0 \in T
  <2>1. 1 .. 0 = {}
    OBVIOUS
  <2>2. \A V \in SUBSET {} : V = {}
    OBVIOUS
  <2> QED
    BY <2>1, <2>2
<1>2. ASSUME NEW k \in Nat, k \in T PROVE k + 1 \in T
  <2> SUFFICES ASSUME NEW V \in SUBSET (1 .. k + 1), V # {}
               PROVE  \E m \in V : \A y \in V : m >= y
    OBVIOUS
  <2>1. CASE k + 1 \in V
    <3>1. \A y \in V : k + 1 >= y
      OBVIOUS
    <3> QED
      BY <2>1, <3>1
  <2>2. CASE k + 1 \notin V
    <3>1. V \in SUBSET (1 .. k)
      BY <2>2
    <3> QED
      BY <1>2, <3>1
  <2> QED
    BY <2>1, <2>2
<1>3. Nat \subseteq T
  <2> HIDE DEF T
  <2> QED
    BY <1>1, <1>2, SetInduction
<1> QED
  BY <1>3

-----------------------------------------------------------------------------
\* The cells: duplicated lines.

LEMMA DedupAppend ==
    ASSUME NEW L, NEW s \in Seq(L), NEW x \in L
    PROVE  /\ DedupLines(s) \in Seq(L)
           /\ DedupLines(Append(s, x)) =
                 IF s # <<>> /\ Last(s) = x THEN DedupLines(s)
                 ELSE Append(DedupLines(s), x)
<1> DEFINE Once(t, i) == IF i > 1 /\ t[i] = t[i - 1] THEN <<>> ELSE <<t[i]>>
           longer == Append(s, x)
           n == Len(s)
           d == [i \in 1 .. n |-> Once(s, i)]
           e == [i \in 1 .. n + 1 |-> Once(longer, i)]
           last == IF s # <<>> /\ Last(s) = x THEN <<>> ELSE <<x>>
<1>1. /\ longer \in Seq(L) /\ Len(longer) = n + 1 /\ n \in Nat
      /\ \A i \in 1 .. n : longer[i] = s[i]
      /\ longer[n + 1] = x /\ DOMAIN s = 1 .. n /\ DOMAIN longer = 1 .. n + 1
  BY AppendProperties, LenProperties
<1> HIDE DEF longer
<1>2. DedupLines(s) = FlattenSeq(d) /\ DedupLines(longer) = FlattenSeq(e)
  BY <1>1, Zenon DEF DedupLines
<1>3. d \in Seq(Seq(L)) /\ Len(d) = n
  <2>1. ASSUME NEW i \in 1 .. n PROVE Once(s, i) \in Seq(L)
    <3>1. s[i] \in L
      BY ElementOfSeq
    <3> QED
      BY <3>1
  <2>2. d \in [1 .. n -> Seq(L)]
    BY <2>1
  <2> HIDE DEF d
  <2> QED
    BY <1>1, <2>2
<1>4. last \in Seq(L) /\ Len(d) \in Nat
  BY <1>1, <1>3
<1>5. e = Append(d, last)
  <2>1. ASSUME NEW i \in 1 .. n PROVE Once(longer, i) = Once(s, i)
    BY <1>1
  <2>2. Once(longer, n + 1) = last
    <3>1. s # <<>> <=> n + 1 > 1
      BY <1>1, EmptySeq
    <3>2. n + 1 > 1 => longer[n + 1 - 1] = Last(s)
      BY <1>1 DEF Last
    <3> QED
      BY <1>1, <3>1, <3>2
  <2> HIDE DEF Once, last
  <2>3. /\ Append(d, last) \in Seq(Seq(L)) /\ Len(Append(d, last)) = n + 1
        /\ \A i \in 1 .. n : Append(d, last)[i] = d[i]
        /\ Append(d, last)[n + 1] = last
    <3> HIDE DEF d
    <3> QED
      BY <1>3, <1>4, AppendProperties
  <2>4. ASSUME NEW i \in 1 .. n + 1 PROVE e[i] = Append(d, last)[i]
    <3>1. CASE i \in 1 .. n
      BY <2>1, <2>3, <3>1
    <3>2. CASE i = n + 1
      BY <2>2, <2>3, <3>2
    <3> QED
      BY <1>1, <3>1, <3>2
  <2>5. e \in Seq(Seq(L)) /\ Len(e) = n + 1
    <3>1. \A i \in 1 .. n + 1 : e[i] \in Seq(L)
      BY <2>3, <2>4, ElementOfSeq
    <3>2. e \in [1 .. n + 1 -> Seq(L)]
      BY <3>1
    <3> HIDE DEF e
    <3> QED
      BY <1>1, <3>2
  <2> HIDE DEF d, e
  <2> QED
    BY <2>3, <2>4, <2>5, SeqEqual
<1>6. DedupLines(longer) = DedupLines(s) \o last /\ DedupLines(s) \in Seq(L)
  <2> HIDE DEF d, e, last
  <2> QED
    BY <1>2, <1>3, <1>4, <1>5, FlattenSeqAppend, FlattenSeqType
<1>7. DedupLines(s) \o <<>> = DedupLines(s) /\ DedupLines(s) \o <<x>> = Append(DedupLines(s), x)
  BY <1>6, ConcatEmptySeq, AppendIsConcat
<1> QED
  BY <1>6, <1>7 DEF longer

\* However often a line comes out, it is kept once.
Copies(x, n) == [copy \in 1 .. n |-> x]

LEMMA CopiesDeduped ==
    ASSUME NEW L, NEW s \in Seq(L), NEW x \in L, NEW n \in Nat \ {0},
           s = <<>> \/ Last(s) # x
    PROVE  /\ s \o Copies(x, n) \in Seq(L)
           /\ s \o Copies(x, n) # <<>> /\ Last(s \o Copies(x, n)) = x
           /\ DedupLines(s \o Copies(x, n)) = Append(DedupLines(s), x)
<1> DEFINE Good(t) == /\ t \in Seq(L) /\ t # <<>> /\ Last(t) = x
                      /\ DedupLines(t) = Append(DedupLines(s), x)
           T == {m \in Nat : Good(s \o Copies(x, m + 1))}
<1>1. \A m \in Nat : /\ Copies(x, m) \in Seq(L) /\ Len(Copies(x, m)) = m
                     /\ Copies(x, m + 1) = Append(Copies(x, m), x)
  <2> SUFFICES ASSUME NEW m \in Nat
               PROVE  /\ Copies(x, m) \in Seq(L) /\ Len(Copies(x, m)) = m
                      /\ Copies(x, m + 1) = Append(Copies(x, m), x)
    OBVIOUS
  <2>1. /\ Copies(x, m) \in Seq(L) /\ Len(Copies(x, m)) = m
        /\ Copies(x, m + 1) \in Seq(L) /\ Len(Copies(x, m + 1)) = m + 1
        /\ \A i \in 1 .. m : Copies(x, m)[i] = x
        /\ \A i \in 1 .. m + 1 : Copies(x, m + 1)[i] = x
    BY DEF Copies
  <2>2. /\ Append(Copies(x, m), x) \in Seq(L) /\ Len(Append(Copies(x, m), x)) = m + 1
        /\ \A i \in 1 .. m : Append(Copies(x, m), x)[i] = Copies(x, m)[i]
        /\ Append(Copies(x, m), x)[m + 1] = x
    BY <2>1, AppendProperties
  <2>3. \A i \in 1 .. m + 1 : Copies(x, m + 1)[i] = Append(Copies(x, m), x)[i]
    BY <2>1, <2>2
  <2> QED
    BY <2>1, <2>2, <2>3, SeqEqual
<1>2. \A t \in Seq(L) : s \o Append(t, x) = Append(s \o t, x) /\ s \o t \in Seq(L)
  <2> SUFFICES ASSUME NEW t \in Seq(L)
               PROVE  s \o Append(t, x) = Append(s \o t, x) /\ s \o t \in Seq(L)
    OBVIOUS
  <2>1. <<x>> \in Seq(L)
    OBVIOUS
  <2>2. s \o t \in Seq(L)
    BY ConcatProperties
  <2>3. Append(t, x) = t \o <<x>> /\ Append(s \o t, x) = (s \o t) \o <<x>>
    BY <2>2, AppendIsConcat
  <2> QED
    BY <2>1, <2>2, <2>3, ConcatAssociative
<1>3. ASSUME NEW t \in Seq(L), t = s \/ Good(t) PROVE Good(Append(t, x))
  <2>1. Append(t, x) \in Seq(L) /\ Append(t, x) # <<>> /\ Last(Append(t, x)) = x
    BY AppendProperties DEF Last
  <2>2. DedupLines(Append(t, x)) =
           IF t # <<>> /\ Last(t) = x THEN DedupLines(t) ELSE Append(DedupLines(t), x)
    BY DedupAppend
  <2> QED
    BY <1>3, <2>1, <2>2
<1>4. 0 \in T
  <2>1. Copies(x, 0) = <<>> /\ s \o <<>> = s
    <3>1. Len(Copies(x, 0)) = 0 /\ Copies(x, 0) \in Seq(L)
      BY <1>1
    <3> QED
      BY <3>1, EmptySeq, ConcatEmptySeq
  <2>2. s \o Copies(x, 1) = Append(s, x)
    <3>1. Copies(x, 0 + 1) = Append(Copies(x, 0), x) /\ Copies(x, 0) \in Seq(L)
      BY <1>1
    <3> QED
      BY <1>2, <2>1, <3>1
  <2> HIDE DEF Good
  <2>3. Good(s \o Copies(x, 1))
    BY <1>3, <2>2
  <2>4. 0 + 1 = 1
    OBVIOUS
  <2> QED
    BY <2>3, <2>4
<1>5. ASSUME NEW m \in Nat, m \in T PROVE m + 1 \in T
  <2>1. m + 1 \in Nat /\ Good(s \o Copies(x, m + 1))
    BY <1>5
  <2>2. s \o Copies(x, m + 1 + 1) = Append(s \o Copies(x, m + 1), x)
    BY <1>1, <1>2, <2>1
  <2> HIDE DEF Good
  <2>3. s \o Copies(x, m + 1) \in Seq(L)
    BY <1>1, <1>2, <2>1
  <2> QED
    BY <1>3, <2>1, <2>2, <2>3
<1>6. Nat \subseteq T
  <2> HIDE DEF T
  <2> QED
    BY <1>4, <1>5, SetInduction
<1>7. n - 1 \in Nat /\ n - 1 + 1 = n
  OBVIOUS
<1> QED
  BY <1>6, <1>7

\* The lines that are read are those that are printed.
PrintedLines(r, n) == [k \in 1 .. n |-> r[k].line]

LEMMA RegisterTyped ==
    ASSUME NEW r \in Registers
    PROVE  /\ Len(r) \in Nat /\ DOMAIN r = 1 .. Len(r)
           /\ \A k \in 1 .. Len(r) : /\ r[k].line \in RegisterLines
                                      /\ r[k].value \in BOOLEAN
                                      /\ r[k].copies \in Nat \ {0}
           /\ \A k \in 1 .. Len(r) : r[k].value => r[k].line \notin Known
           /\ \A k \in 2 .. Len(r) : r[k].line # r[k - 1].line
           /\ \A k \in 2 .. Len(r) : r[k].value /\ r[k - 1].value =>
                  \A j \in 1 .. k - 2 : r[j].line # r[k - 1].line
<1>1. r \in Seq([line : RegisterLines, value : BOOLEAN, copies : Nat \ {0}])
  BY RegistersAssumption
<1>2. Len(r) \in Nat /\ DOMAIN r = 1 .. Len(r)
  BY <1>1, LenProperties
<1>3. ASSUME NEW k \in 1 .. Len(r)
      PROVE  /\ r[k].line \in RegisterLines /\ r[k].value \in BOOLEAN
             /\ r[k].copies \in Nat \ {0}
  <2>1. r[k] \in [line : RegisterLines, value : BOOLEAN, copies : Nat \ {0}]
    BY <1>1, ElementOfSeq, Zenon
  <2> QED
    BY <2>1
<1> QED
  BY <1>2, <1>3, RegistersAssumption

LEMMA PrintedLinesTyped ==
    ASSUME NEW r \in Registers, NEW n \in Nat, n <= Len(r)
    PROVE  PrintedLines(r, n) \in Seq(RegisterLines) /\ Len(PrintedLines(r, n)) = n
<1>1. PrintedLines(r, n) \in [1 .. n -> RegisterLines]
  BY RegisterTyped DEF PrintedLines
<1> QED
  BY <1>1

LEMMA LinesArePrinted ==
    ASSUME NEW r \in Registers PROVE LghLines(r) = PrintedLines(r, Len(r))
<1> DEFINE L == RegisterLines
           Part(k) == Copies(r[k].line, r[k].copies)
           Parts(n) == [k \in 1 .. n |-> Part(k)]
           Good(n) == /\ FlattenSeq(Parts(n)) \in Seq(L)
                      /\ n > 0 => /\ FlattenSeq(Parts(n)) # <<>>
                                  /\ Last(FlattenSeq(Parts(n))) = r[n].line
                      /\ n = 0 => FlattenSeq(Parts(n)) = <<>>
                      /\ DedupLines(FlattenSeq(Parts(n))) = PrintedLines(r, n)
           T == {n \in Nat : n <= Len(r) => Good(n)}
<1>1. \A k \in 1 .. Len(r) : Part(k) \in Seq(L)
  BY RegisterTyped DEF Copies
<1>2. ASSUME NEW n \in Nat, n <= Len(r)
      PROVE  Parts(n) \in Seq(Seq(L)) /\ Len(Parts(n)) = n
  <2> HIDE DEF Part
  <2>1. Parts(n) \in [1 .. n -> Seq(L)]
    BY <1>1, <1>2, RegisterTyped
  <2> HIDE DEF Parts
  <2> QED
    BY <2>1, <1>2
<1>3. ASSUME NEW n \in Nat, n + 1 <= Len(r)
      PROVE  Parts(n + 1) = Append(Parts(n), Part(n + 1))
  <2> HIDE DEF Part
  <2>1. /\ Parts(n) \in Seq(Seq(L)) /\ Len(Parts(n)) = n
        /\ Parts(n + 1) \in Seq(Seq(L)) /\ Len(Parts(n + 1)) = n + 1
        /\ Part(n + 1) \in Seq(L)
    BY <1>1, <1>2, <1>3, RegisterTyped
  <2>2. \A k \in 1 .. n : Parts(n + 1)[k] = Parts(n)[k]
    OBVIOUS
  <2>3. Parts(n + 1)[n + 1] = Part(n + 1)
    OBVIOUS
  <2> HIDE DEF Parts
  <2> DEFINE a == Append(Parts(n), Part(n + 1))
  <2>4. /\ a \in Seq(Seq(L)) /\ Len(a) = n + 1
        /\ \A k \in 1 .. n : a[k] = Parts(n)[k] /\ a[n + 1] = Part(n + 1)
    BY <2>1, AppendProperties
  <2> HIDE DEF a
  <2>5. \A k \in 1 .. n + 1 : Parts(n + 1)[k] = a[k]
    BY <2>1, <2>2, <2>3, <2>4, AppendProperties DEF a
  <2>6. Parts(n + 1) = a
    BY <2>1, <2>4, <2>5, SeqEqual
  <2> QED
    BY <2>6 DEF a
<1>4. 0 \in T
  <2>1. Len(Parts(0)) = 0 /\ Parts(0) \in Seq(Seq(L))
    BY <1>2, RegisterTyped
  <2> HIDE DEF Parts
  <2>2. FlattenSeq(Parts(0)) = <<>>
    BY <2>1, FlattenSeqIs
  <2>3. DedupLines(<<>>) = <<>>
    <3> DEFINE d == [i \in DOMAIN <<>> |-> IF i > 1 /\ <<>>[i] = <<>>[i - 1] THEN <<>>
                                          ELSE << <<>>[i] >>]
    <3>1. DOMAIN <<>> = 1 .. 0 /\ 1 .. 0 = {}
      OBVIOUS
    <3>2. d \in [1 .. 0 -> Seq(L)]
      BY <3>1
    <3> HIDE DEF d
    <3>3. d \in Seq(Seq(L)) /\ Len(d) = 0
      BY <3>2
    <3>4. FlattenSeq(d) = <<>>
      BY <3>3, FlattenSeqIs
    <3> QED
      BY <3>4 DEF DedupLines, d
  <2>4. PrintedLines(r, 0) = <<>> /\ <<>> \in Seq(L)
    BY DEF PrintedLines
  <2>5. DedupLines(FlattenSeq(Parts(0))) = PrintedLines(r, 0)
    BY <2>2, <2>3, <2>4, Zenon
  <2>6. FlattenSeq(Parts(0)) \in Seq(L)
    BY <2>2, <2>4, Zenon
  <2>7. ~(0 > 0) /\ 0 \in Nat
    OBVIOUS
  <2> QED
    BY <2>2, <2>5, <2>6, <2>7, Zenon
<1>5. ASSUME NEW n \in Nat, n \in T PROVE n + 1 \in T
  <2> SUFFICES ASSUME n + 1 <= Len(r) PROVE Good(n + 1)
    OBVIOUS
  <2> DEFINE s == FlattenSeq(Parts(n))
             x == r[n + 1].line
             c == r[n + 1].copies
  <2>1. n <= Len(r) /\ Good(n) /\ n + 1 \in 1 .. Len(r)
    BY <1>5, RegisterTyped
  <2>2. FlattenSeq(Parts(n + 1)) = s \o Copies(x, c)
    <3> HIDE DEF Parts
    <3>1. Copies(x, c) \in Seq(L)
      BY <1>1, <2>1
    <3> QED
      BY <1>2, <1>3, <2>1, <3>1, FlattenSeqAppend
  <2>3. x \in L /\ c \in Nat \ {0}
    BY <2>1, RegisterTyped
  <2>4. s = <<>> \/ Last(s) # x
    <3>1. CASE n = 0
      BY <2>1, <3>1
    <3>2. CASE n # 0
      <4>1. n + 1 \in 2 .. Len(r) /\ n + 1 - 1 = n /\ n > 0
        BY <2>1, <3>2
      <4>2. r[n + 1].line # r[n].line
        BY <4>1, RegisterTyped
      <4> QED
        BY <2>1, <4>1, <4>2
    <3> QED
      BY <3>1, <3>2
  <2> HIDE DEF s
  <2>5. /\ s \o Copies(x, c) \in Seq(L) /\ s \o Copies(x, c) # <<>>
        /\ Last(s \o Copies(x, c)) = x
        /\ DedupLines(s \o Copies(x, c)) = Append(PrintedLines(r, n), x)
    <3>1. s \in Seq(L) /\ DedupLines(s) = PrintedLines(r, n)
      BY <2>1 DEF s
    <3> HIDE DEF x, c
    <3> QED
      BY <2>3, <2>4, <3>1, CopiesDeduped
  <2>6. Append(PrintedLines(r, n), x) = PrintedLines(r, n + 1)
    <3>1. /\ PrintedLines(r, n) \in Seq(L) /\ Len(PrintedLines(r, n)) = n
          /\ PrintedLines(r, n + 1) \in Seq(L) /\ Len(PrintedLines(r, n + 1)) = n + 1
      BY <2>1, PrintedLinesTyped
    <3>2. /\ Append(PrintedLines(r, n), x) \in Seq(L)
          /\ Len(Append(PrintedLines(r, n), x)) = n + 1
          /\ \A k \in 1 .. n : Append(PrintedLines(r, n), x)[k] = PrintedLines(r, n)[k]
          /\ Append(PrintedLines(r, n), x)[n + 1] = x
      BY <2>3, <3>1, AppendProperties
    <3>3. \A k \in 1 .. n + 1 : Append(PrintedLines(r, n), x)[k] = PrintedLines(r, n + 1)[k]
      BY <3>2 DEF PrintedLines
    <3> QED
      BY <3>1, <3>2, <3>3, SeqEqual
  <2>7. n + 1 > 0 /\ n + 1 # 0
    OBVIOUS
  <2> HIDE DEF Parts, x, c
  <2> QED
    BY <2>2, <2>5, <2>6, <2>7 DEF x
<1>6. Nat \subseteq T
  <2> HIDE DEF T
  <2> QED
    BY <1>4, <1>5, SetInduction
<1>7. LghLines(r) = DedupLines(FlattenSeq(Parts(Len(r))))
  BY RegisterTyped, Zenon DEF LghLines, Rendering, Copies
<1> QED
  BY <1>6, <1>7, RegisterTyped

-----------------------------------------------------------------------------
\* The cells: from label to label.

\* Inductive: only labels that were read have a key, and of each key the first
\* that has a value gave it.
LghInv ==
    /\ register \in Registers /\ linesRead \in 0 .. Len(register)
    /\ \A key \in DOMAIN lghCell :
          \E k \in 1 .. linesRead :
              register[k].line \in Known /\ LghStems[register[k].line] = key
    /\ \A k \in 1 .. linesRead :
          FirstWithValue(k) =>
              /\ LghStems[register[k].line] \in DOMAIN lghCell
              /\ lghCell[LghStems[register[k].line]] = register[k + 1].line

LEMMA LghLinesAre ==
    ASSUME register \in Registers
    PROVE  /\ Len(register) \in Nat /\ Len(LghLines(register)) = Len(register)
           /\ \A k \in 1 .. Len(register) : LghLines(register)[k] = register[k].line
<1>1. Len(register) \in Nat
  BY RegisterTyped
<1>2. LghLines(register) = PrintedLines(register, Len(register))
  BY LinesArePrinted
<1> QED
  BY <1>1, <1>2, PrintedLinesTyped DEF PrintedLines

LEMMA LghInitially == LghInit => LghInv
<1> SUFFICES ASSUME LghInit PROVE LghInv
  OBVIOUS
<1>1. Len(register) \in Nat /\ 1 .. linesRead = {} /\ linesRead = 0
  BY RegisterTyped DEF LghInit
<1>2. DOMAIN lghCell = {}
  BY DEF LghInit
<1> QED
  BY <1>1, <1>2 DEF LghInit, LghInv

LEMMA ReadLabelKeeps == LghInv /\ ReadLabel => LghInv'
<1> SUFFICES ASSUME LghInv, ReadLabel PROVE LghInv'
  OBVIOUS
<1> DEFINE n == linesRead
           lines == LghLines(register)
           stem == register[n + 1].line
           values == {j \in n + 2 .. Len(lines) : lines[j] \notin Known}
           new == stem \in Known /\ values # {} /\ LghStems[stem] \notin DOMAIN lghCell
<1>1. /\ register \in Registers /\ n \in Nat /\ Len(register) \in Nat
      /\ n + 1 \in 1 .. Len(register) /\ Len(lines) = Len(register)
      /\ \A k \in 1 .. Len(register) : lines[k] = register[k].line
      /\ linesRead' = n + 1 /\ UNCHANGED register
  BY LghLinesAre DEF LghInv, ReadLabel
<1>2. lghCell' = IF new THEN [key \in DOMAIN lghCell \cup {LghStems[stem]} |->
                                IF key \in DOMAIN lghCell THEN lghCell[key]
                                ELSE lines[Min(values)]]
                 ELSE lghCell
  <2>1. lines[n + 1] = stem
    BY <1>1
  <2> QED
    BY <2>1, Zenon DEF ReadLabel
<1> HIDE DEF lines, values
<1>3. /\ DOMAIN lghCell' = DOMAIN lghCell \cup (IF new THEN {LghStems[stem]} ELSE {})
      /\ \A key \in DOMAIN lghCell : lghCell'[key] = lghCell[key]
      /\ new => lghCell'[LghStems[stem]] = lines[Min(values)]
  BY <1>2
<1>4. \A k : FirstWithValue(k)' <=> FirstWithValue(k)
  BY <1>1 DEF FirstWithValue
<1>5. ASSUME NEW key \in DOMAIN lghCell'
      PROVE  \E k \in 1 .. n + 1 :
                register[k].line \in Known /\ LghStems[register[k].line] = key
  <2>1. CASE key \in DOMAIN lghCell
    BY <1>1, <2>1 DEF LghInv
  <2>2. CASE key \notin DOMAIN lghCell
    BY <1>1, <1>3, <2>2
  <2> QED
    BY <2>1, <2>2
<1>6. ASSUME NEW k \in 1 .. n + 1, FirstWithValue(k)
      PROVE  /\ LghStems[register[k].line] \in DOMAIN lghCell'
             /\ lghCell'[LghStems[register[k].line]] = register[k + 1].line
  <2>1. CASE k \in 1 .. n
    BY <1>3, <1>6, <2>1 DEF LghInv
  <2>2. CASE k = n + 1
    <3>1. /\ stem \in Known /\ n + 2 <= Len(register) /\ register[n + 2].value
          /\ \A j \in 1 .. n : register[j].line \in Known =>
                                  LghStems[register[j].line] # LghStems[stem]
      <4>1. n + 1 + 1 = n + 2 /\ n + 1 - 1 = n
        BY <1>1
      <4> QED
        BY <1>1, <1>6, <2>2, <4>1 DEF FirstWithValue
    <3>2. LghStems[stem] \notin DOMAIN lghCell
      BY <3>1 DEF LghInv
    <3>3. n + 2 \in values /\ values \subseteq n + 2 .. Len(lines)
      <4>1. n + 2 \in 1 .. Len(register)
        BY <1>1, <3>1
      <4>2. register[n + 2].line \notin Known
        BY <1>1, <3>1, <4>1, RegisterTyped
      <4> QED
        BY <1>1, <3>1, <4>1, <4>2 DEF values
    <3>4. Min(values) = n + 2
      <4>1. n + 2 \in Int /\ Len(lines) \in Int
        BY <1>1
      <4> QED
        BY <3>3, <4>1, LeastOf
    <3>5. new
      BY <3>1, <3>2, <3>3
    <3> QED
      BY <1>1, <1>3, <2>2, <3>1, <3>4, <3>5
  <2> QED
    BY <1>1, <2>1, <2>2
<1> QED
  BY <1>1, <1>4, <1>5, <1>6 DEF LghInv

LEMMA LghInductive == LghInv /\ [ReadLabel]_lghVars => LghInv'
<1>1. LghInv /\ UNCHANGED lghVars => LghInv'
  BY DEF LghInv, lghVars, FirstWithValue
<1> QED
  BY <1>1, ReadLabelKeeps

\* The line below the first line of a value of two.
LEMMA SecondLine ==
    ASSUME register \in Registers, NEW k \in 1 .. Len(register),
           k + 2 <= Len(register), register[k + 1].value, register[k + 2].value
    PROVE  LineAfter(LghLines(register), register[k + 1].line) = register[k + 2].line
<1> DEFINE lines == LghLines(register)
           target == register[k + 1].line
           I == {i \in 1 .. Len(lines) : lines[i] = target}
<1>1. /\ Len(register) \in Nat /\ Len(lines) = Len(register)
      /\ \A i \in 1 .. Len(register) : lines[i] = register[i].line
  BY LghLinesAre
<1>2. k + 1 \in 1 .. Len(register) /\ k + 2 \in 2 .. Len(register) /\ k + 2 - 1 = k + 1
      /\ k + 2 - 2 = k
  BY <1>1
<1>3. \A j \in 1 .. k : register[j].line # target
  <2>1. PICK i \in 2 .. Len(register) : i = k + 2
    BY <1>2
  <2>2. register[i].value /\ register[i - 1].value /\ register[i - 1].line = target
    BY <1>2, <2>1
  <2>3. \A j \in 1 .. i - 2 : register[j].line # register[i - 1].line
    BY <2>2, RegisterTyped
  <2> QED
    BY <1>2, <2>1, <2>2, <2>3
<1> HIDE DEF lines
<1>4. k + 1 \in I /\ I \subseteq k + 1 .. Len(lines)
  <2>1. lines[k + 1] = target
    BY <1>1, <1>2
  <2>2. ASSUME NEW i \in I PROVE i \in k + 1 .. Len(lines)
    <3>1. i \in 1 .. Len(register) /\ register[i].line = target
      BY <1>1
    <3>2. i \notin 1 .. k
      BY <1>3, <3>1
    <3> QED
      BY <1>1, <3>1, <3>2
  <2> QED
    BY <1>1, <1>2, <2>1, <2>2
<1>5. Min(I) = k + 1
  <2>1. k + 1 \in Int /\ Len(lines) \in Int
    BY <1>1
  <2> HIDE DEF I
  <2> QED
    BY <1>4, <2>1, LeastOf
<1>6. SelectInSeq(lines, LAMBDA l : l = target) = k + 1
  BY <1>4, <1>5 DEF SelectInSeq
<1> QED
  BY <1>1, <1>2, <1>6 DEF LineAfter, lines

\* Every label with a value has the first line of it and its postort the second,
\* for any lagenhetsforteckning and however often each of its lines comes out
\* (_lgh_label_to_value, _lgh_line_after).
THEOREM CellsTheorem == LghSpec => []CellsArePrinted
<1>1. LghInv => CellsArePrinted
  <2> SUFFICES ASSUME LghInv, linesRead = Len(LghLines(register)),
                      NEW k \in DOMAIN register, FirstWithValue(k)
               PROVE  LET key == LghStems[register[k].line]
                          value == register[k + 1].line
                      IN  /\ key \in DOMAIN lghCell /\ lghCell[key] = value
                          /\ k + 2 <= Len(register) /\ register[k + 2].value =>
                                LineAfter(LghLines(register), value) = register[k + 2].line
    BY DEF CellsArePrinted
  <2>1. register \in Registers /\ linesRead = Len(register) /\ k \in 1 .. Len(register)
    BY LghLinesAre, RegisterTyped DEF LghInv
  <2>2. register[k + 1].value
    BY DEF FirstWithValue
  <2> QED
    BY <2>1, <2>2, SecondLine DEF LghInv
<1> QED
  BY <1>1, LghInitially, LghInductive, PTL DEF LghSpec

-----------------------------------------------------------------------------
\* The evidence: the lines of a piece.

Single(u, x) == Len(u) = 1 /\ u[1] = x

Double(u, x, y) == Len(u) = 2 /\ u[1] = x /\ u[2] = y

LEMMA Tuples ==
    ASSUME NEW S, NEW x \in S, NEW y \in S
    PROVE  /\ <<x>> \in Seq(S) /\ Single(<<x>>, x)
           /\ <<x, y>> \in Seq(S) /\ Double(<<x, y>>, x, y)
  BY DEF Single, Double

LineRecords ==
    [header : Sections \cup {NoValue}, phrase : {"mortgage", "purchase", NoValue},
     row : ReportWords \cup {NoValue}, named : ReportWords \cup {NoValue}]

NameIn(piece) == IF piece.legible THEN piece.other ELSE NoValue

HeadOf(piece, name) ==
    [header |-> NoValue, phrase |-> piece.phrase, row |-> piece.row, named |-> name]

BelowOf(piece) ==
    [header |-> NoValue, phrase |-> NoValue, row |-> NoValue, named |-> NameIn(piece)]

HeaderRecord(h) == [header |-> h, phrase |-> NoValue, row |-> NoValue, named |-> NoValue]

LEMMA LineRecordsAre ==
    ASSUME NEW piece \in Pieces
    PROVE  /\ Line \in LineRecords /\ Line = HeaderRecord(NoValue)
           /\ \A h \in Sections : Header(h) = HeaderRecord(h) /\ Header(h) \in LineRecords
           /\ HeadOf(piece, NoValue) \in LineRecords
           /\ HeadOf(piece, NameIn(piece)) \in LineRecords
           /\ BelowOf(piece) \in LineRecords
<1>1. Line = HeaderRecord(NoValue)
  BY DEF Line, HeaderRecord
<1>2. \A h \in Sections : Header(h) = HeaderRecord(h)
  BY DEF Header, Line, HeaderRecord
<1>3. /\ piece.phrase \in {"mortgage", "purchase", NoValue}
      /\ piece.row \in ReportWords \cup {NoValue}
      /\ NameIn(piece) \in ReportWords \cup {NoValue}
  BY DEF Pieces, NameIn
<1> QED
  BY <1>1, <1>2, <1>3 DEF LineRecords, HeadOf, BelowOf, HeaderRecord

LEMMA PageBreakIs ==
    ASSUME NEW piece \in Pieces
    PROVE  /\ PageBreak(piece) \in Seq(LineRecords)
           /\ Len(PageBreak(piece)) >= 3
           /\ PageBreak(piece)[1] = Line /\ PageBreak(piece)[2] = Line
           /\ \A k \in 1 .. Len(PageBreak(piece)) :
                 \/ PageBreak(piece)[k] \in {Line, Header(piece.section)}
                 \/ PageBreak(piece)[k] = Header("agare") /\ piece.columns
<1> DEFINE three == <<Line, Line, Header(piece.section)>>
           last == IF piece.columns THEN <<Header("agare")>> ELSE <<>>
<1>1. /\ Line \in LineRecords /\ Header(piece.section) \in LineRecords
      /\ Header("agare") \in LineRecords
  <2>1. piece.section \in Sections /\ "agare" \in Sections
    BY DEF Pieces, Sections
  <2> QED
    BY <2>1, LineRecordsAre
<1>2. /\ three \in Seq(LineRecords) /\ Len(three) = 3
      /\ three[1] = Line /\ three[2] = Line /\ three[3] = Header(piece.section)
  BY <1>1
<1>3. /\ last \in Seq(LineRecords) /\ Len(last) \in {0, 1}
      /\ Len(last) = 1 => last[1] = Header("agare") /\ piece.columns
  BY <1>1
<1>4. PageBreak(piece) = three \o last
  BY DEF PageBreak
<1> HIDE DEF three, last
<1>5. /\ PageBreak(piece) \in Seq(LineRecords) /\ Len(PageBreak(piece)) = 3 + Len(last)
      /\ \A k \in 1 .. 3 + Len(last) :
            PageBreak(piece)[k] = IF k <= 3 THEN three[k] ELSE last[k - 3]
  <2>1. PageBreak(piece) \in Seq(LineRecords) /\ Joins(PageBreak(piece), three, last)
    BY <1>2, <1>3, <1>4, Joined
  <2>2. \A k \in 1 .. 3 + Len(last) : k > 3 => k - 3 \in 1 .. Len(last) /\ 3 + (k - 3) = k
    BY <1>3
  <2> QED
    BY <1>2, <2>1, <2>2 DEF Joins
<1> QED
  BY <1>2, <1>3, <1>5

LEMMA PieceLinesAre ==
    ASSUME NEW piece \in Pieces
    PROVE  /\ piece.kind = "title" => PieceLines(piece) = <<Header(piece.section)>>
           /\ piece.kind = "columns" => PieceLines(piece) = <<Header("agare")>>
           /\ piece.kind = "page" => PieceLines(piece) = PageBreak(piece)
           /\ piece.kind = "line" => PieceLines(piece) = <<HeadOf(piece, NameIn(piece))>>
           /\ piece.kind = "wrapped" =>
                 PieceLines(piece) = <<HeadOf(piece, NoValue), BelowOf(piece)>>
           /\ piece.kind = "torn" =>
                 PieceLines(piece) = <<HeadOf(piece, NoValue)>> \o PageBreak(piece)
                                        \o <<BelowOf(piece)>>
<1> DEFINE head == [header |-> NoValue, phrase |-> piece.phrase, row |-> piece.row,
                    named |-> NoValue]
<1>1. [head EXCEPT !.named = NameIn(piece)] = HeadOf(piece, NameIn(piece))
  BY DEF HeadOf
<1>2. head = HeadOf(piece, NoValue)
  BY DEF HeadOf
<1>3. [Line EXCEPT !.named = NameIn(piece)] = BelowOf(piece)
  BY DEF Line, BelowOf
<1>4. CASE piece.kind = "title"
  BY <1>4 DEF PieceLines
<1>5. CASE piece.kind = "columns"
  BY <1>5 DEF PieceLines
<1>6. CASE piece.kind = "page"
  BY <1>6 DEF PieceLines
<1>7. CASE piece.kind = "line"
  BY <1>1, <1>7 DEF PieceLines, NameIn
<1>8. CASE piece.kind = "wrapped"
  BY <1>2, <1>3, <1>8 DEF PieceLines, NameIn
<1>9. CASE piece.kind = "torn"
  BY <1>2, <1>3, <1>9 DEF PieceLines, NameIn
<1> QED
  BY <1>4, <1>5, <1>6, <1>7, <1>8, <1>9 DEF Pieces, RowKinds

\* What the first line of a piece says, and the line after it.
FirstLine(piece, lines) ==
    /\ piece.kind = "title" => lines[1] = Header(piece.section)
    /\ piece.kind = "columns" => lines[1] = Header("agare")
    /\ piece.kind = "page" => lines[1] = Line
    /\ piece.kind = "line" => lines[1] = HeadOf(piece, NameIn(piece))
    /\ piece.kind = "wrapped" =>
          /\ lines[1] = HeadOf(piece, NoValue)
          /\ Len(lines) >= 2 /\ lines[2] = BelowOf(piece)
    /\ piece.kind = "torn" =>
          /\ lines[1] = HeadOf(piece, NoValue)
          /\ Len(lines) >= 2 /\ lines[2] = Line

\* The others have no phrase, and no header of another section.
LaterLine(piece, line) ==
    /\ line.phrase = NoValue
    /\ \/ line.header \in {NoValue, piece.section}
       \/ line.header = "agare" /\ piece.columns

LEMMA LaterLines ==
    ASSUME NEW piece \in Pieces
    PROVE  /\ LaterLine(piece, Line) /\ LaterLine(piece, BelowOf(piece))
           /\ LaterLine(piece, Header(piece.section))
           /\ piece.columns => LaterLine(piece, Header("agare"))
<1>1. piece.section \in Sections /\ "agare" \in Sections
  BY DEF Pieces, Sections
<1>2. /\ Line = HeaderRecord(NoValue) /\ Header(piece.section) = HeaderRecord(piece.section)
      /\ Header("agare") = HeaderRecord("agare")
  BY <1>1, LineRecordsAre
<1> QED
  BY <1>2 DEF LaterLine, HeaderRecord, BelowOf

LEMMA PieceIs ==
    ASSUME NEW piece \in Pieces
    PROVE  /\ PieceLines(piece) \in Seq(LineRecords) /\ Len(PieceLines(piece)) >= 1
           /\ FirstLine(piece, PieceLines(piece))
           /\ \A k \in 2 .. Len(PieceLines(piece)) : LaterLine(piece, PieceLines(piece)[k])
<1> DEFINE head == HeadOf(piece, NoValue)
           whole == HeadOf(piece, NameIn(piece))
           below == BelowOf(piece)
           title == Header(piece.section)
           agare == Header("agare")
           lines == PieceLines(piece)
           break == PageBreak(piece)
<1>1. /\ Line \in LineRecords /\ title \in LineRecords /\ agare \in LineRecords
      /\ head \in LineRecords /\ whole \in LineRecords /\ below \in LineRecords
  <2>1. piece.section \in Sections /\ "agare" \in Sections
    BY DEF Pieces, Sections
  <2> QED
    BY <2>1, LineRecordsAre
<1>2. /\ LaterLine(piece, Line) /\ LaterLine(piece, below) /\ LaterLine(piece, title)
      /\ piece.columns => LaterLine(piece, agare)
  BY LaterLines
<1>3. /\ piece.kind = "title" => lines = <<title>>
      /\ piece.kind = "columns" => lines = <<agare>>
      /\ piece.kind = "page" => lines = break
      /\ piece.kind = "line" => lines = <<whole>>
      /\ piece.kind = "wrapped" => lines = <<head, below>>
      /\ piece.kind = "torn" => lines = <<head>> \o break \o <<below>>
  BY PieceLinesAre
<1>4. /\ break \in Seq(LineRecords) /\ Len(break) >= 3 /\ break[1] = Line
      /\ \A k \in 1 .. Len(break) : LaterLine(piece, break[k])
  <2>1. /\ break \in Seq(LineRecords) /\ Len(break) >= 3 /\ break[1] = Line
        /\ \A k \in 1 .. Len(break) : \/ break[k] \in {Line, title}
                                      \/ break[k] = agare /\ piece.columns
    BY PageBreakIs
  <2> HIDE DEF break, title, agare
  <2> QED
    BY <1>2, <2>1
<1> DEFINE Right == /\ lines \in Seq(LineRecords) /\ Len(lines) >= 1
                    /\ \A k \in 2 .. Len(lines) : LaterLine(piece, lines[k])
<1>5. CASE piece.kind = "title"
  <2> HIDE DEF title, lines
  <2>1. lines \in Seq(LineRecords) /\ Single(lines, title)
    BY <1>1, <1>3, <1>5, Tuples, Zenon
  <2> QED
    BY <1>5, <2>1 DEF FirstLine, Single, title, lines
<1>6. CASE piece.kind = "columns"
  <2> HIDE DEF agare, lines
  <2>1. lines \in Seq(LineRecords) /\ Single(lines, agare)
    BY <1>1, <1>3, <1>6, Tuples, Zenon
  <2> QED
    BY <1>6, <2>1 DEF FirstLine, Single, agare, lines
<1>7. CASE piece.kind = "line"
  <2> HIDE DEF whole, lines
  <2>1. lines \in Seq(LineRecords) /\ Single(lines, whole)
    BY <1>1, <1>3, <1>7, Tuples, Zenon
  <2> QED
    BY <1>7, <2>1 DEF FirstLine, Single, whole, lines
<1>8. CASE piece.kind = "wrapped"
  <2> HIDE DEF head, below, lines
  <2>1. lines \in Seq(LineRecords) /\ Double(lines, head, below)
    BY <1>1, <1>3, <1>8, Tuples, Zenon
  <2> QED
    BY <1>2, <1>8, <2>1 DEF FirstLine, Double, head, below, lines
<1>9. CASE piece.kind = "page"
  <2> HIDE DEF break, lines
  <2>1. Right /\ lines[1] = Line
    BY <1>3, <1>4, <1>9
  <2> QED
    BY <1>9, <2>1 DEF FirstLine, lines
<1>10. CASE piece.kind = "torn"
  <2> DEFINE one == <<head>>
             most == one \o break
             end == <<below>>
  <2> HIDE DEF head, below, break, lines
  <2>1. /\ one \in Seq(LineRecords) /\ Single(one, head)
        /\ end \in Seq(LineRecords) /\ Single(end, below)
    BY <1>1, Tuples, Zenon
  <2>2. lines = most \o end
    BY <1>3, <1>10
  <2> HIDE DEF one, end
  <2>3. /\ most \in Seq(LineRecords) /\ Len(most) = 1 + Len(break)
        /\ most[1] = head /\ \A k \in 1 .. Len(break) : most[1 + k] = break[k]
    <3>1. most \in Seq(LineRecords) /\ Joins(most, one, break)
      BY <1>4, <2>1, Joined
    <3> HIDE DEF most
    <3> QED
      BY <2>1, <3>1 DEF Joins, Single
  <2> HIDE DEF most
  <2>4. /\ lines \in Seq(LineRecords) /\ Len(lines) = Len(most) + 1
        /\ \A k \in 1 .. Len(most) : lines[k] = most[k]
        /\ lines[Len(most) + 1] = below
    <3>1. lines \in Seq(LineRecords) /\ Joins(lines, most, end)
      BY <2>1, <2>2, <2>3, Joined
    <3> QED
      BY <2>1, <3>1 DEF Joins, Single
  <2>5. Len(break) \in Nat /\ Len(most) = 1 + Len(break)
    BY <1>4, <2>3
  <2>6. ASSUME NEW k \in 2 .. Len(lines) PROVE LaterLine(piece, lines[k])
    <3>1. CASE k = Len(most) + 1
      BY <1>2, <2>4, <3>1
    <3>2. CASE k # Len(most) + 1
      <4>1. k - 1 \in 1 .. Len(break) /\ 1 + (k - 1) = k /\ k \in 1 .. Len(most)
        BY <2>4, <2>5, <3>2
      <4>2. lines[k] = break[k - 1]
        BY <2>3, <2>4, <4>1
      <4> QED
        BY <1>4, <4>1, <4>2
    <3> QED
      BY <3>1, <3>2
  <2>7. lines[1] = head /\ Len(lines) >= 2 /\ lines[2] = Line
    <3>1. /\ 1 \in 1 .. Len(most) /\ 2 \in 1 .. Len(most) /\ 1 \in 1 .. Len(break)
          /\ 1 + 1 = 2
      BY <1>4, <2>5
    <3>2. most[1 + 1] = break[1]
      BY <2>3, <3>1
    <3> QED
      BY <1>4, <2>3, <2>4, <2>5, <3>1, <3>2
  <2> QED
    BY <1>10, <2>4, <2>5, <2>6, <2>7 DEF FirstLine, head, lines
<1> QED
  BY <1>5, <1>6, <1>7, <1>8, <1>9, <1>10 DEF Pieces, RowKinds

-----------------------------------------------------------------------------
\* The evidence: the lines of a report, piece after piece.

\* The lines of each piece, and of the first m pieces.
PieceTexts(r) == [i \in DOMAIN r.pieces |-> PieceLines(r.pieces[i])]

LinesOf(r, m) == UpTo(PieceTexts(r), m)

LEMMA ReportIs ==
    ASSUME NEW r \in Reports
    PROVE  /\ r.banner \in BOOLEAN /\ Len(r.pieces) \in Nat
           /\ DOMAIN r.pieces = 1 .. Len(r.pieces)
           /\ \A i \in 1 .. Len(r.pieces) :
                 /\ r.pieces[i] \in Pieces /\ Printable(r.pieces[i])
                 /\ i = 1 => r.pieces[i].kind = "title"
                 /\ i # 1 => Follows(r.pieces[i], r.pieces[i - 1])
<1>1. /\ r.banner \in BOOLEAN /\ r.pieces \in Seq(Pieces)
      /\ \A i \in DOMAIN r.pieces :
            /\ Printable(r.pieces[i])
            /\ IF i = 1 THEN r.pieces[i].kind = "title"
               ELSE Follows(r.pieces[i], r.pieces[i - 1])
  BY ReportsAssumption
<1>2. Len(r.pieces) \in Nat /\ DOMAIN r.pieces = 1 .. Len(r.pieces)
  BY <1>1, LenProperties
<1>3. \A i \in 1 .. Len(r.pieces) : r.pieces[i] \in Pieces
  BY <1>1, ElementOfSeq
<1> QED
  BY <1>1, <1>2, <1>3

LEMMA TextsAre ==
    ASSUME NEW r \in Reports
    PROVE  /\ PieceTexts(r) \in Seq(Seq(LineRecords))
           /\ Len(PieceTexts(r)) = Len(r.pieces)
           /\ \A i \in 1 .. Len(r.pieces) : PieceTexts(r)[i] = PieceLines(r.pieces[i])
<1>1. /\ Len(r.pieces) \in Nat /\ DOMAIN r.pieces = 1 .. Len(r.pieces)
      /\ \A i \in 1 .. Len(r.pieces) : PieceLines(r.pieces[i]) \in Seq(LineRecords)
  BY ReportIs, PieceIs
<1> DEFINE texts == PieceTexts(r)
<1>2. /\ texts \in [1 .. Len(r.pieces) -> Seq(LineRecords)]
      /\ \A i \in 1 .. Len(r.pieces) : texts[i] = PieceLines(r.pieces[i])
  BY <1>1 DEF PieceTexts
<1> HIDE DEF texts
<1>3. texts \in Seq(Seq(LineRecords)) /\ Len(texts) = Len(r.pieces)
  BY <1>1, <1>2
<1> QED
  BY <1>2, <1>3 DEF texts

LEMMA LinesOfNext ==
    ASSUME NEW r \in Reports, NEW m \in 0 .. Len(r.pieces)
    PROVE  /\ LinesOf(r, m) \in Seq(LineRecords)
           /\ m = 0 => LinesOf(r, m) = <<>>
           /\ m < Len(r.pieces) =>
                 LinesOf(r, m + 1) = LinesOf(r, m) \o PieceLines(r.pieces[m + 1])
<1>1. m < Len(r.pieces) => m + 1 \in 1 .. Len(r.pieces)
  BY ReportIs
<1> QED
  BY <1>1, TextsAre, UpToNext DEF LinesOf

LEMMA ReportLines ==
    ASSUME NEW r \in Reports
    PROVE  LinesOf(r, Len(r.pieces)) = Lines(r)
<1>1. LinesOf(r, Len(r.pieces)) = FlattenSeq(PieceTexts(r))
  BY TextsAre, UpToAll DEF LinesOf
<1> QED
  BY <1>1 DEF Lines, PieceTexts

\* Where the lines of the m-th piece are.
Placed(r, m) ==
    LET lines == PieceLines(r.pieces[m])
        above == Len(LinesOf(r, m - 1))
    IN  /\ above \in Nat /\ Len(LinesOf(r, m)) = above + Len(lines)
        /\ Len(LinesOf(r, m)) <= Len(Lines(r))
        /\ \A k \in 1 .. Len(lines) : Lines(r)[above + k] = lines[k]

LEMMA PiecePlaced ==
    ASSUME NEW r \in Reports, NEW m \in 1 .. Len(r.pieces)
    PROVE  Placed(r, m)
<1> DEFINE texts == PieceTexts(r)
<1>1. /\ texts \in Seq(Seq(LineRecords)) /\ m \in 1 .. Len(texts) /\ m \in Int
      /\ texts[m] = PieceLines(r.pieces[m])
  BY TextsAre, ReportIs
<1>2. FlattenSeq(texts) = Lines(r)
  BY DEF Lines, PieceTexts
<1> HIDE DEF texts
<1>3. PlacedAt(texts, m, Lines(r))
  BY <1>1, <1>2, BlockPlaced
<1>4. /\ Offset(texts, m) = Len(LinesOf(r, m - 1))
      /\ Offset(texts, m + 1) = Len(LinesOf(r, m))
  BY <1>1, OffsetIs DEF Offset, LinesOf, texts
<1> QED
  BY <1>1, <1>3, <1>4 DEF Placed, PlacedAt

-----------------------------------------------------------------------------
\* The evidence: the rows that fire, and the sections that are open.

FiredIn(r, n) == {i \in 1 .. n : Fires(r.pieces[i])}

LEMMA FiredFinite ==
    ASSUME NEW r, NEW n \in Nat
    PROVE  IsFiniteSet(FiredIn(r, n)) /\ Cardinality(FiredIn(r, n)) \in Nat
<1>1. FiredIn(r, n) \subseteq 1 .. n /\ IsFiniteSet(1 .. n)
  BY FS_Interval DEF FiredIn
<1> QED
  BY <1>1, FS_Subset, FS_CardinalityType

LEMMA FiredNext ==
    ASSUME NEW r, NEW n \in Nat
    PROVE  /\ FiredIn(r, 0) = {} /\ Cardinality(FiredIn(r, 0)) = 0
           /\ FiredIn(r, n + 1) = IF Fires(r.pieces[n + 1]) THEN FiredIn(r, n) \cup {n + 1}
                                  ELSE FiredIn(r, n)
           /\ Fires(r.pieces[n + 1]) =>
                 Cardinality(FiredIn(r, n + 1)) = Cardinality(FiredIn(r, n)) + 1
           /\ \A i \in FiredIn(r, n) :
                 Cardinality(FiredIn(r, i)) \in 1 .. Cardinality(FiredIn(r, n))
<1>1. FiredIn(r, 0) = {}
  BY DEF FiredIn
<1>2. Cardinality(FiredIn(r, 0)) = 0
  BY <1>1, FS_EmptySet
<1>3. FiredIn(r, n + 1) = IF Fires(r.pieces[n + 1]) THEN FiredIn(r, n) \cup {n + 1}
                         ELSE FiredIn(r, n)
  BY DEF FiredIn
<1>4. Fires(r.pieces[n + 1]) =>
         Cardinality(FiredIn(r, n + 1)) = Cardinality(FiredIn(r, n)) + 1
  <2>1. n + 1 \notin FiredIn(r, n)
    BY DEF FiredIn
  <2>2. IsFiniteSet(FiredIn(r, n))
    BY FiredFinite
  <2> QED
    BY <1>3, <2>1, <2>2, FS_AddElement
<1>5. ASSUME NEW i \in FiredIn(r, n)
      PROVE  Cardinality(FiredIn(r, i)) \in 1 .. Cardinality(FiredIn(r, n))
  <2>1. i \in Nat /\ i \in FiredIn(r, i) /\ FiredIn(r, i) \subseteq FiredIn(r, n)
    BY DEF FiredIn
  <2>2. /\ IsFiniteSet(FiredIn(r, n)) /\ Cardinality(FiredIn(r, n)) \in Nat
        /\ IsFiniteSet(FiredIn(r, i)) /\ Cardinality(FiredIn(r, i)) \in Nat
    BY <2>1, FiredFinite
  <2>3. Cardinality(FiredIn(r, i)) <= Cardinality(FiredIn(r, n))
    BY <2>1, <2>2, FS_Subset
  <2>4. Cardinality(FiredIn(r, i)) # 0
    BY <2>1, <2>2, FS_EmptySet
  <2> QED
    BY <2>2, <2>3, <2>4
<1> QED
  BY <1>1, <1>2, <1>3, <1>4, <1>5

\* The section a piece leaves open.
OpenIn(piece) == IF piece.section \in Opening THEN piece.section ELSE NoValue

OpenAfter(r, n) == IF n = 0 THEN NoValue ELSE OpenIn(r.pieces[n])

LEMMA StaysOpen ==
    ASSUME NEW piece \in Pieces, Printable(piece), NEW line, LaterLine(piece, line),
           line.header # NoValue
    PROVE  SectionForHeader(line.header, OpenIn(piece)) = OpenIn(piece)
<1>1. CASE line.header = piece.section
  BY <1>1 DEF SectionForHeader, OpenIn, Ownership, Opening
<1>2. CASE line.header = "agare" /\ piece.columns
  <2>1. piece.section \in Ownership
    BY <1>2 DEF Printable
  <2> QED
    BY <1>2, <2>1 DEF SectionForHeader, OpenIn, Ownership, Opening
<1> QED
  BY <1>1, <1>2 DEF LaterLine

\* The first line of a piece opens its section, or leaves it open.
LEMMA Opens ==
    ASSUME NEW r \in Reports, NEW n \in Nat, n + 1 \in 1 .. Len(r.pieces)
    PROVE  LET piece == r.pieces[n + 1]
               line == PieceLines(piece)[1]
           IN  OpenIn(piece) = IF line.header = NoValue THEN OpenAfter(r, n)
                               ELSE SectionForHeader(line.header, OpenAfter(r, n))
<1> DEFINE piece == r.pieces[n + 1]
           line == PieceLines(piece)[1]
           current == OpenAfter(r, n)
<1>1. /\ piece \in Pieces /\ Printable(piece)
      /\ n = 0 => piece.kind = "title"
      /\ n # 0 => Follows(piece, r.pieces[n])
  <2>1. n + 1 = 1 <=> n = 0
    OBVIOUS
  <2>2. n + 1 - 1 = n
    OBVIOUS
  <2> QED
    BY <2>1, <2>2, ReportIs
<1>2. FirstLine(piece, PieceLines(piece))
  BY <1>1, PieceIs
<1>3. NoValue \notin Sections
  BY ReportsAssumption
<1>4. piece.section \in Sections /\ "agare" \in Sections
  BY <1>1 DEF Pieces, Sections
<1>5. piece.kind # "title" => current = OpenIn(piece)
  BY <1>1 DEF Follows, OpenAfter, OpenIn
<1>6. piece.kind = "title" => (piece.section = "agare" => current \notin Ownership)
  <2>1. NoValue \notin Ownership
    BY <1>3 DEF Sections, Ownership
  <2> QED
    BY <1>1, <2>1 DEF Follows, OpenAfter, OpenIn
<1> SUFFICES OpenIn(piece) = IF line.header = NoValue THEN current
                             ELSE SectionForHeader(line.header, current)
  OBVIOUS
<1> HIDE DEF current
<1>7. CASE piece.kind = "title"
  <2>1. line.header = piece.section
    <3>1. line = Header(piece.section)
      BY <1>2, <1>7 DEF FirstLine
    <3>2. Header(piece.section) = HeaderRecord(piece.section)
      BY <1>1, <1>4, LineRecordsAre
    <3> HIDE DEF line, piece
    <3> QED
      BY <3>1, <3>2 DEF HeaderRecord
  <2> HIDE DEF line
  <2> QED
    BY <1>3, <1>4, <1>6, <1>7, <2>1 DEF SectionForHeader, OpenIn, Opening, Ownership
<1>8. CASE piece.kind = "columns"
  <2>1. line.header = "agare"
    <3>1. line = Header("agare")
      BY <1>2, <1>8 DEF FirstLine
    <3>2. Header("agare") = HeaderRecord("agare")
      BY <1>1, <1>4, LineRecordsAre
    <3> HIDE DEF line, piece
    <3> QED
      BY <3>1, <3>2 DEF HeaderRecord
  <2>2. piece.section \in Ownership
    BY <1>1, <1>8 DEF Printable
  <2> HIDE DEF line
  <2> QED
    BY <1>3, <1>4, <1>5, <1>8, <2>1, <2>2 DEF SectionForHeader, OpenIn, Opening, Ownership
<1>9. CASE piece.kind \in RowKinds \cup {"page"}
  <2>1. line.header = NoValue
    <3>1. line \in {Line, HeadOf(piece, NoValue), HeadOf(piece, NameIn(piece))}
      BY <1>2, <1>9 DEF FirstLine, RowKinds
    <3> HIDE DEF line
    <3> QED
      BY <3>1 DEF Line, HeadOf
  <2>2. piece.kind # "title"
    BY <1>9 DEF RowKinds
  <2> HIDE DEF line
  <2> QED
    BY <1>5, <2>1, <2>2
<1> QED
  BY <1>1, <1>7, <1>8, <1>9 DEF Pieces

\* What the evidence says of a row.
Told(row, found) ==
    /\ found.section = row.section /\ found.row = row.row
    /\ \/ found.other = row.other
       \/ found.other = NoValue /\ row.kind = "torn"
       \/ ~row.legible

Findings ==
    [section : Sections, row : ReportWords \cup {NoValue}, other : ReportWords \cup {NoValue}]

LEMMA MortgageNames ==
    ASSUME NEW r \in Reports, NEW n \in Nat, n + 1 \in 1 .. Len(r.pieces),
           r.pieces[n + 1].kind \in RowKinds, r.pieces[n + 1].other # NoValue,
           NEW at, at = Len(LinesOf(r, n)) + 1
    PROVE  LET row == r.pieces[n + 1]
               other == OtherProperty(Lines(r), at)
           IN  \/ other = row.other
               \/ other = NoValue /\ row.kind = "torn"
               \/ ~row.legible
<1> DEFINE row == r.pieces[n + 1]
           said == PieceLines(row)
<1>1. row \in Pieces
  BY ReportIs
<1>2. FirstLine(row, said) /\ said \in Seq(LineRecords) /\ Len(said) >= 1
  BY <1>1, PieceIs
<1>3. Placed(r, n + 1) /\ n + 1 - 1 = n
  BY PiecePlaced
<1>4. Len(said) \in Nat
  BY <1>2, LenProperties
<1> HIDE DEF said
<1>5. /\ Len(LinesOf(r, n)) \in Nat /\ at \in Nat
      /\ at - 1 + Len(said) <= Len(Lines(r))
      /\ \A k \in 1 .. Len(said) : Lines(r)[at - 1 + k] = said[k]
  BY <1>3, <1>4 DEF Placed, said
<1>6. Lines(r)[at] = said[1]
  <2>1. 1 \in 1 .. Len(said) /\ at - 1 + 1 = at
    BY <1>2, <1>4, <1>5
  <2> QED
    BY <1>5, <2>1
<1>7. Len(Lines(r)) \in Nat
  <2>1. Lines(r) \in Seq(LineRecords)
    BY ReportIs, LinesOfNext, ReportLines
  <2> QED
    BY <2>1, LenProperties
<1>8. Len(said) >= 2 => at < Len(Lines(r)) /\ Lines(r)[at + 1] = said[2]
  <2>1. Len(said) >= 2 => 2 \in 1 .. Len(said) /\ at - 1 + 2 = at + 1
    BY <1>4, <1>5
  <2> QED
    BY <1>4, <1>5, <1>7, <2>1
<1> SUFFICES ASSUME row.legible
             PROVE  \/ OtherProperty(Lines(r), at) = row.other
                    \/ OtherProperty(Lines(r), at) = NoValue /\ row.kind = "torn"
  OBVIOUS
<1>9. NameIn(row) = row.other
  BY DEF NameIn
<1>10. CASE row.kind = "line"
  <2>1. Lines(r)[at].named = row.other
    BY <1>2, <1>6, <1>9, <1>10 DEF FirstLine, HeadOf
  <2> QED
    BY <2>1 DEF OtherProperty
<1>11. CASE row.kind = "wrapped"
  <2>1. Lines(r)[at].named = NoValue
    BY <1>2, <1>6, <1>11 DEF FirstLine, HeadOf
  <2>2. at < Len(Lines(r)) /\ Lines(r)[at + 1].named = row.other
    BY <1>2, <1>8, <1>9, <1>11 DEF FirstLine, BelowOf
  <2> QED
    BY <2>1, <2>2 DEF OtherProperty
<1>12. CASE row.kind = "torn"
  <2>1. Lines(r)[at].named = NoValue
    BY <1>2, <1>6, <1>12 DEF FirstLine, HeadOf
  <2>2. at < Len(Lines(r)) /\ Lines(r)[at + 1].named = NoValue
    BY <1>2, <1>8, <1>12 DEF FirstLine, Line
  <2> QED
    BY <1>12, <2>1, <2>2 DEF OtherProperty
<1> QED
  BY <1>10, <1>11, <1>12 DEF RowKinds

-----------------------------------------------------------------------------
\* The evidence: from line to line.

FoundUpTo(n) ==
    /\ Len(evidence) = Cardinality(FiredIn(report, n))
    /\ \A i \in FiredIn(report, n) :
          Told(report.pieces[i], evidence[Cardinality(FiredIn(report, i))])

\* The walk has begun to read the n-th piece, and not the one after it.
WalkedTo(n) ==
    /\ n = 0 => read = 0
    /\ n # 0 => Len(LinesOf(report, n - 1)) < read
    /\ read <= Len(LinesOf(report, n))
    /\ section = OpenAfter(report, n)
    /\ FoundUpTo(n)

WalkInv ==
    /\ report \in Reports /\ read \in Nat /\ evidence \in Seq(Findings)
    /\ ~report.banner => evidence = <<>> /\ read = Len(Lines(report))
    /\ report.banner => \E n \in 0 .. Len(report.pieces) : WalkedTo(n)

LEMMA LinesTyped ==
    ASSUME NEW r \in Reports
    PROVE  Lines(r) \in Seq(LineRecords) /\ Len(Lines(r)) \in Nat
<1>1. Lines(r) \in Seq(LineRecords)
  BY ReportIs, LinesOfNext, ReportLines
<1> QED
  BY <1>1, LenProperties

LEMMA NothingRead ==
    ASSUME NEW r \in Reports
    PROVE  LinesOf(r, 0) = <<>> /\ Len(LinesOf(r, 0)) = 0 /\ 0 \in 0 .. Len(r.pieces)
<1>1. 0 \in 0 .. Len(r.pieces)
  BY ReportIs
<1>2. LinesOf(r, 0) = <<>>
  BY <1>1, LinesOfNext
<1> QED
  BY <1>1, <1>2

LEMMA WalkInitially == WalkInit => WalkInv
<1> SUFFICES ASSUME WalkInit PROVE WalkInv
  OBVIOUS
<1>1. report \in Reports /\ section = NoValue /\ evidence = <<>>
  BY DEF WalkInit
<1>2. report.banner \in BOOLEAN /\ Len(Lines(report)) \in Nat
  BY <1>1, ReportIs, LinesTyped
<1>3. read = IF report.banner THEN 0 ELSE Len(Lines(report))
  BY DEF WalkInit
<1>4. read \in Nat /\ evidence \in Seq(Findings)
  BY <1>1, <1>2, <1>3
<1>5. ASSUME report.banner PROVE WalkedTo(0)
  <2>1. read = 0 /\ Len(LinesOf(report, 0)) = 0
    BY <1>1, <1>3, <1>5, NothingRead
  <2>2. FoundUpTo(0)
    <3>1. FiredIn(report, 0) = {} /\ Cardinality(FiredIn(report, 0)) = 0 /\ Len(evidence) = 0
      BY <1>1, FiredNext
    <3> QED
      BY <3>1 DEF FoundUpTo
  <2> QED
    BY <1>1, <2>1, <2>2 DEF WalkedTo, OpenAfter
<1> QED
  BY <1>1, <1>3, <1>4, <1>5, NothingRead DEF WalkInv

\* A row that fires adds itself to the evidence, and nothing else does.
Reads(r, before, after, n) ==
    LET row == r.pieces[n]
    IN  /\ Fires(row) => \E found \in Findings :
                            Told(row, found) /\ after = Append(before, found)
        /\ ~Fires(row) => after = before

LEMMA FoundNext ==
    ASSUME NEW r \in Reports, NEW n \in Nat, n + 1 \in 1 .. Len(r.pieces),
           report = r, report' = r, evidence \in Seq(Findings), FoundUpTo(n),
           Reads(r, evidence, evidence', n + 1)
    PROVE  evidence' \in Seq(Findings) /\ FoundUpTo(n + 1)'
<1> DEFINE many(i) == Cardinality(FiredIn(r, i))
<1>1. /\ Len(evidence) = many(n)
      /\ \A i \in FiredIn(r, n) : Told(r.pieces[i], evidence[many(i)])
  BY DEF FoundUpTo
<1>2. SUFFICES /\ evidence' \in Seq(Findings) /\ Len(evidence') = many(n + 1)
               /\ \A i \in FiredIn(r, n + 1) : Told(r.pieces[i], evidence'[many(i)])
  BY DEF FoundUpTo
<1>3. \A i \in FiredIn(r, n) : many(i) \in 1 .. many(n)
  BY FiredNext
<1>4. CASE Fires(r.pieces[n + 1])
  <2>1. PICK found \in Findings :
            Told(r.pieces[n + 1], found) /\ evidence' = Append(evidence, found)
    BY <1>4 DEF Reads
  <2>2. FiredIn(r, n + 1) = FiredIn(r, n) \cup {n + 1} /\ many(n + 1) = many(n) + 1
    BY <1>4, FiredNext
  <2> HIDE DEF many
  <2>3. /\ evidence' \in Seq(Findings) /\ Len(evidence') = many(n) + 1
        /\ \A k \in 1 .. many(n) : evidence'[k] = evidence[k]
        /\ evidence'[many(n) + 1] = found
    BY <1>1, <2>1, AppendProperties
  <2> QED
    BY <1>1, <1>3, <2>1, <2>2, <2>3
<1>5. CASE ~Fires(r.pieces[n + 1])
  <2>1. FiredIn(r, n + 1) = FiredIn(r, n) /\ evidence' = evidence
    BY <1>5, FiredNext DEF Reads
  <2> QED
    BY <1>1, <2>1
<1> QED
  BY <1>4, <1>5

LEMMA ReadLineKeeps ==
    ASSUME WalkInv, ReadLine PROVE WalkInv'
<1> DEFINE r == report
           lines == Lines(report)
           line == lines[read + 1]
<1>1. /\ r \in Reports /\ read \in Nat /\ evidence \in Seq(Findings)
      /\ ~r.banner => evidence = <<>> /\ read = Len(lines)
      /\ r.banner => \E n \in 0 .. Len(r.pieces) : WalkedTo(n)
  BY DEF WalkInv
<1>2. /\ read < Len(lines) /\ read' = read + 1 /\ report' = report
      /\ section' = IF line.header = NoValue THEN section
                    ELSE SectionForHeader(line.header, section)
      /\ evidence' =
            IF line.header = NoValue /\ section = "inteckningar" /\ line.phrase = "mortgage"
            THEN Append(evidence, [section |-> section, row |-> line.row,
                                   other |-> OtherProperty(lines, read + 1)])
            ELSE IF line.header = NoValue /\ section = "agare" /\ line.phrase = "purchase"
            THEN Append(evidence, [section |-> section, row |-> line.row, other |-> NoValue])
            ELSE evidence
  BY DEF ReadLine
<1>3. lines \in Seq(LineRecords) /\ Len(lines) \in Nat /\ r.banner \in BOOLEAN
  BY <1>1, LinesTyped, ReportIs
<1>4. r.banner
  BY <1>1, <1>2, <1>3
<1>5. PICK n \in 0 .. Len(r.pieces) : WalkedTo(n)
  BY <1>1, <1>4
<1>6. n \in Nat /\ Len(r.pieces) \in Nat
  BY <1>1, ReportIs
<1>7. /\ n = 0 => read = 0
      /\ n # 0 => Len(LinesOf(r, n - 1)) < read
      /\ read <= Len(LinesOf(r, n)) /\ section = OpenAfter(r, n) /\ FoundUpTo(n)
  BY <1>5 DEF WalkedTo
<1>8. LinesOf(r, n) \in Seq(LineRecords) /\ Len(LinesOf(r, n)) \in Nat
  BY <1>1, LinesOfNext
<1>9. NoValue \notin {"mortgage", "purchase"} \cup Sections
  BY ReportsAssumption
<1> HIDE DEF lines, line
<1>10. CASE read < Len(LinesOf(r, n))
  <2> DEFINE piece == r.pieces[n]
             k == read + 1 - Len(LinesOf(r, n - 1))
  <2>1. n # 0 /\ n \in 1 .. Len(r.pieces)
    BY <1>1, <1>6, <1>7, <1>10, NothingRead
  <2>2. Placed(r, n) /\ piece \in Pieces /\ Printable(piece)
    BY <1>1, <2>1, PiecePlaced, ReportIs
  <2>3. k \in 2 .. Len(PieceLines(piece)) /\ Len(LinesOf(r, n - 1)) + k = read + 1
    <3>1. PieceLines(piece) \in Seq(LineRecords)
      BY <2>2, PieceIs
    <3>2. Len(PieceLines(piece)) \in Nat
      BY <3>1, LenProperties
    <3>3. Len(LinesOf(r, n - 1)) \in Nat
          /\ Len(LinesOf(r, n)) = Len(LinesOf(r, n - 1)) + Len(PieceLines(piece))
      BY <2>2 DEF Placed
    <3> QED
      BY <1>1, <1>7, <1>10, <2>1, <3>2, <3>3
  <2>4. line = PieceLines(piece)[k]
    <3>1. \A j \in 1 .. Len(PieceLines(piece)) :
             Lines(r)[Len(LinesOf(r, n - 1)) + j] = PieceLines(piece)[j]
      BY <2>2 DEF Placed
    <3>2. k \in 1 .. Len(PieceLines(piece))
      BY <2>3
    <3> HIDE DEF k, piece
    <3> QED
      BY <2>3, <3>1, <3>2 DEF line, lines
  <2>5. LaterLine(piece, line)
    <3>1. \A j \in 2 .. Len(PieceLines(piece)) : LaterLine(piece, PieceLines(piece)[j])
      BY <2>2, PieceIs
    <3> HIDE DEF k, piece
    <3> QED
      BY <2>3, <2>4, <3>1
  <2>6. line.phrase = NoValue
    BY <2>5 DEF LaterLine
  <2>7. evidence' = evidence
    BY <1>2, <1>9, <2>6
  <2>8. section' = section
    <3>1. section = OpenIn(piece)
      BY <1>7, <2>1 DEF OpenAfter
    <3>2. line.header # NoValue => SectionForHeader(line.header, OpenIn(piece)) = OpenIn(piece)
      BY <2>2, <2>5, StaysOpen
    <3> HIDE DEF piece
    <3> QED
      BY <1>2, <3>1, <3>2
  <2>9. WalkedTo(n)'
    <3>1. /\ n # 0 => Len(LinesOf(r, n - 1)) < read + 1
          /\ read + 1 <= Len(LinesOf(r, n))
      <4>1. n # 0 => Len(LinesOf(r, n - 1)) \in Nat
        BY <2>2 DEF Placed
      <4> QED
        BY <1>1, <1>7, <1>8, <1>10, <4>1
    <3>2. FoundUpTo(n)'
      BY <1>2, <1>7, <2>7 DEF FoundUpTo
    <3> QED
      BY <1>2, <1>7, <2>1, <2>8, <3>1, <3>2 DEF WalkedTo
  <2> QED
    BY <1>1, <1>2, <1>4, <2>7, <2>9 DEF WalkInv
<1>11. CASE read = Len(LinesOf(r, n))
  <2> DEFINE piece == r.pieces[n + 1]
             found == [section |-> section, row |-> line.row,
                       other |-> IF section = "inteckningar" THEN OtherProperty(lines, read + 1)
                                 ELSE NoValue]
  <2>1. n + 1 \in 1 .. Len(r.pieces) /\ n + 1 - 1 = n /\ n + 1 \in 0 .. Len(r.pieces)
    <3>1. n # Len(r.pieces)
      BY <1>1, <1>2, <1>3, <1>11, ReportLines DEF lines
    <3> QED
      BY <1>6, <3>1
  <2>2. /\ Placed(r, n + 1) /\ piece \in Pieces /\ Printable(piece)
    BY <1>1, <2>1, PiecePlaced, ReportIs
  <2>3. /\ FirstLine(piece, PieceLines(piece)) /\ PieceLines(piece) \in Seq(LineRecords)
        /\ Len(PieceLines(piece)) >= 1
    BY <2>2, PieceIs
  <2>4. Len(PieceLines(piece)) \in Nat /\ 1 \in 1 .. Len(PieceLines(piece))
    <3>1. Len(PieceLines(piece)) \in Nat
      BY <2>3, LenProperties
    <3> QED
      BY <2>3, <3>1
  <2>5. line = PieceLines(piece)[1]
    <3>1. \A j \in 1 .. Len(PieceLines(piece)) :
             Lines(r)[Len(LinesOf(r, n)) + j] = PieceLines(piece)[j]
      BY <2>1, <2>2 DEF Placed
    <3> HIDE DEF piece
    <3> QED
      BY <1>11, <2>4, <3>1 DEF line, lines
  <2>6. section' = OpenIn(piece)
    <3>1. OpenIn(piece) = IF line.header = NoValue THEN OpenAfter(r, n)
                          ELSE SectionForHeader(line.header, OpenAfter(r, n))
      BY <1>1, <1>6, <2>1, <2>5, Opens
    <3> HIDE DEF piece
    <3> QED
      BY <1>2, <1>7, <3>1
  <2>7. read + 1 <= Len(LinesOf(r, n + 1)) /\ Len(LinesOf(r, n)) < read + 1
    <3>1. Len(LinesOf(r, n + 1)) = Len(LinesOf(r, n)) + Len(PieceLines(piece))
      BY <2>1, <2>2 DEF Placed
    <3> HIDE DEF piece
    <3> QED
      BY <1>1, <1>8, <1>11, <2>3, <2>4, <3>1
  <2>8. Reads(r, evidence, evidence', n + 1)
    <3>1. CASE piece.kind \in {"title", "columns", "page"}
      <4>1. ~Fires(piece)
        BY <3>1 DEF Fires, RowKinds
      <4>2. line.phrase = NoValue
        <5>1. piece.section \in Sections /\ "agare" \in Sections
          BY <2>2 DEF Pieces, Sections
        <5>2. line \in {Line, Header(piece.section), Header("agare")}
          BY <2>3, <2>5, <3>1 DEF FirstLine
        <5>3. line \in {HeaderRecord(NoValue), HeaderRecord(piece.section), HeaderRecord("agare")}
          BY <2>2, <5>1, <5>2, LineRecordsAre
        <5> HIDE DEF piece
        <5> QED
          BY <5>3 DEF HeaderRecord
      <4>3. evidence' = evidence
        BY <1>2, <1>9, <4>2
      <4> QED
        BY <4>1, <4>3 DEF Reads
    <3>2. CASE piece.kind \in RowKinds
      <4>1. line.header = NoValue /\ line.phrase = piece.phrase /\ line.row = piece.row
        <5>1. line \in {HeadOf(piece, NoValue), HeadOf(piece, NameIn(piece))}
          BY <2>3, <2>5, <3>2 DEF FirstLine, RowKinds
        <5> HIDE DEF piece
        <5> QED
          BY <5>1 DEF HeadOf
      <4>2. section = OpenIn(piece)
        BY <1>2, <2>6, <4>1
      <4>3. piece.section \in Sections /\ piece.row \in ReportWords \cup {NoValue}
        BY <2>2 DEF Pieces
      <4>4. /\ section = "inteckningar" <=> piece.section = "inteckningar"
            /\ section = "agare" <=> piece.section = "agare"
        BY <1>9, <4>2, <4>3 DEF OpenIn, Opening, Sections
      <4>5. Fires(piece) => evidence' = Append(evidence, found)
        <5> HIDE DEF piece
        <5>1. CASE piece.section = "inteckningar" /\ piece.phrase = "mortgage"
          BY <1>2, <4>1, <4>4, <5>1
        <5>2. CASE piece.section = "agare" /\ piece.phrase = "purchase"
          BY <1>2, <4>1, <4>4, <5>2
        <5> QED
          BY <5>1, <5>2 DEF Fires
      <4>6. ~Fires(piece) => evidence' = evidence
        <5> HIDE DEF piece
        <5> QED
          BY <1>2, <3>2, <4>1, <4>4 DEF Fires
      <4>7. ASSUME Fires(piece) PROVE Told(piece, found) /\ found \in Findings
        <5>1. found.section = piece.section /\ found.row = piece.row
          BY <4>1, <4>4, <4>7 DEF Fires
        <5>2. CASE piece.section = "inteckningar"
          <6>1. found.other = OtherProperty(Lines(r), read + 1)
            BY <4>4, <5>2 DEF lines
          <6>2. piece.other # NoValue
            BY <2>2, <4>7, <5>2 DEF Printable
          <6>3. \/ found.other = piece.other
                \/ found.other = NoValue /\ piece.kind = "torn"
                \/ ~piece.legible
            BY <1>1, <1>6, <1>11, <2>1, <3>2, <6>1, <6>2, MortgageNames
          <6>4. found.other \in ReportWords \cup {NoValue}
            <7>1. \A i \in 1 .. Len(lines) : lines[i].named \in ReportWords \cup {NoValue}
              <8>1. \A i \in 1 .. Len(lines) : lines[i] \in LineRecords
                BY <1>3, ElementOfSeq, Zenon
              <8> QED
                BY <8>1 DEF LineRecords
            <7>2. read + 1 \in 1 .. Len(lines)
                  /\ (read + 1 < Len(lines) => read + 1 + 1 \in 1 .. Len(lines))
              BY <1>1, <1>2, <1>3
            <7> HIDE DEF found
            <7> QED
              BY <6>1, <7>1, <7>2 DEF OtherProperty, lines
          <6> HIDE DEF found, piece
          <6> QED
            BY <5>1, <6>3, <6>4, <4>3 DEF Told, Findings, found
        <5>3. CASE piece.section = "agare"
          <6>1. found.other = NoValue
            BY <4>4, <5>3
          <6>2. piece.other = NoValue
            BY <2>2, <4>7, <5>3 DEF Printable
          <6> HIDE DEF found, piece
          <6> QED
            BY <4>3, <5>1, <6>1, <6>2 DEF Told, Findings, found
        <5> QED
          BY <4>7, <5>2, <5>3 DEF Fires
      <4> HIDE DEF found
      <4> QED
        BY <4>5, <4>6, <4>7 DEF Reads
    <3> QED
      BY <2>2, <3>1, <3>2 DEF Pieces
  <2>9. evidence' \in Seq(Findings) /\ FoundUpTo(n + 1)'
    BY <1>1, <1>2, <1>6, <1>7, <2>1, <2>8, FoundNext
  <2>10. WalkedTo(n + 1)'
    <3>1. section' = OpenAfter(r, n + 1)
      BY <1>6, <2>6 DEF OpenAfter
    <3>2. n + 1 # 0
      BY <1>6
    <3> QED
      BY <1>2, <2>1, <2>7, <2>9, <3>1, <3>2 DEF WalkedTo
  <2> QED
    BY <1>1, <1>2, <1>4, <2>1, <2>9, <2>10 DEF WalkInv
<1> QED
  BY <1>1, <1>7, <1>8, <1>10, <1>11

LEMMA WalkInductive == WalkInv /\ [ReadLine]_walkVars => WalkInv'
<1>1. ASSUME WalkInv, ReadLine PROVE WalkInv'
  BY <1>1, ReadLineKeeps
<1>2. ASSUME WalkInv, UNCHANGED walkVars PROVE WalkInv'
  BY <1>2 DEF WalkInv, walkVars, WalkedTo, FoundUpTo
<1> QED
  BY <1>1, <1>2

LEMMA WalkSays == WalkInv => EvidenceIsSaid
<1> SUFFICES ASSUME WalkInv PROVE EvidenceIsSaid
  OBVIOUS
<1> DEFINE M == Len(report.pieces)
<1>1. /\ report \in Reports /\ read \in Nat
      /\ ~report.banner => evidence = <<>>
      /\ report.banner => \E n \in 0 .. M : WalkedTo(n)
  BY DEF WalkInv
<1>2. \A n : FiredUpTo(n) = FiredIn(report, n)
  BY DEF FiredUpTo, FiredIn
<1>3. ASSUME report.banner, read = Len(Lines(report)) PROVE FoundUpTo(M)
  <2>1. PICK n \in 0 .. M : WalkedTo(n)
    BY <1>1, <1>3
  <2>2. M \in Nat /\ n \in Nat
    BY <1>1, ReportIs
  <2>3. CASE n = M
    BY <2>1, <2>3 DEF WalkedTo
  <2>4. CASE n # M
    <3>1. n + 1 \in 1 .. M /\ n + 1 - 1 = n
      BY <2>2, <2>4
    <3>2. Placed(report, n + 1) /\ report.pieces[n + 1] \in Pieces
      BY <1>1, <3>1, PiecePlaced, ReportIs
    <3>3. /\ PieceLines(report.pieces[n + 1]) \in Seq(LineRecords)
          /\ Len(PieceLines(report.pieces[n + 1])) >= 1
      BY <3>2, PieceIs
    <3>4. Len(PieceLines(report.pieces[n + 1])) \in Nat
      BY <3>3, LenProperties
    <3>5. Len(LinesOf(report, n)) \in Nat /\ Len(LinesOf(report, n)) < Len(Lines(report))
      <4>1. /\ Len(LinesOf(report, n)) \in Nat
            /\ Len(LinesOf(report, n + 1)) =
                  Len(LinesOf(report, n)) + Len(PieceLines(report.pieces[n + 1]))
            /\ Len(LinesOf(report, n + 1)) <= Len(Lines(report))
        BY <3>1, <3>2 DEF Placed
      <4>2. Len(Lines(report)) \in Nat
        BY <1>1, LinesTyped
      <4> QED
        BY <3>3, <3>4, <4>1, <4>2
    <3>6. read <= Len(LinesOf(report, n))
      BY <2>1 DEF WalkedTo
    <3>7. Len(Lines(report)) \in Nat
      BY <1>1, LinesTyped
    <3> QED
      BY <1>3, <3>5, <3>6, <3>7
  <2> QED
    BY <2>3, <2>4
<1>4. ASSUME FoundUpTo(M)
      PROVE  /\ Len(evidence) = Cardinality(FiredUpTo(M))
             /\ \A i \in FiredUpTo(M) :
                   Told(report.pieces[i], evidence[Cardinality(FiredUpTo(i))])
  BY <1>2, <1>4 DEF FoundUpTo
<1> QED
  BY <1>1, <1>3, <1>4 DEF EvidenceIsSaid, Told

\* What a Fastighetsrapport that has been read to its end was found to say of
\* other properties (detect_samintecknad): its evidence is, in order, the
\* mortgages that encumber another property and the purchases by the present
\* owners that covered one, each with the property it names, however the report
\* breaks into lines and pages; and a text of another kind has none.
THEOREM EvidenceTheorem == WalkSpec => []EvidenceIsSaid
<1> QED
  BY WalkInitially, WalkInductive, WalkSays, PTL DEF WalkSpec

-----------------------------------------------------------------------------
\* The parser: positions.

\* What the first m of an enumeration are.
Images(o, m) == {o[i] : i \in 1 .. m}

\* An increasing enumeration counts its elements.
LEMMA CountOf ==
    ASSUME NEW n \in Nat, NEW o \in [1 .. n -> Int],
           \A k, l \in 1 .. n : k < l => o[k] < o[l], NEW k \in 0 .. n
    PROVE  Cardinality(Images(o, k)) = k
<1> DEFINE T == {m \in Nat : m <= n => /\ IsFiniteSet(Images(o, m))
                                   /\ Cardinality(Images(o, m)) = m}
<1>1. 0 \in T
  <2>1. Images(o, 0) = {}
    BY DEF Images
  <2> QED
    BY <2>1, FS_EmptySet
<1>2. ASSUME NEW m \in Nat, m \in T PROVE m + 1 \in T
  <2> SUFFICES ASSUME m + 1 <= n
               PROVE  IsFiniteSet(Images(o, m + 1)) /\ Cardinality(Images(o, m + 1)) = m + 1
    OBVIOUS
  <2>1. IsFiniteSet(Images(o, m)) /\ Cardinality(Images(o, m)) = m
    BY <1>2
  <2>2. m + 1 \in 1 .. n /\ \A i \in 1 .. m + 1 : i \in 1 .. m \/ i = m + 1
    OBVIOUS
  <2>3. Images(o, m + 1) = Images(o, m) \cup {o[m + 1]}
    BY <2>2 DEF Images
  <2>4. o[m + 1] \notin Images(o, m)
    <3>1. \A i \in 1 .. m : i \in 1 .. n /\ i < m + 1
      OBVIOUS
    <3>2. \A i \in 1 .. m : o[i] < o[m + 1]
      BY <2>2, <3>1
    <3>3. \A i \in 1 .. m : o[i] \in Int /\ o[m + 1] \in Int
      BY <2>2, <3>1
    <3>4. \A i \in 1 .. m : o[i] # o[m + 1]
      BY <3>2, <3>3
    <3> QED
      BY <3>4 DEF Images
  <2> DEFINE first == Images(o, m)
             x == o[m + 1]
  <2>5. IsFiniteSet(first) /\ x \notin first /\ Cardinality(first) = m
    BY <2>1, <2>4
  <2> HIDE DEF first, x
  <2>6. /\ IsFiniteSet(first \cup {x})
        /\ Cardinality(first \cup {x}) = Cardinality(first) + 1
    BY <2>5, FS_AddElement
  <2> QED
    BY <2>3, <2>5, <2>6 DEF first, x
<1>3. Nat \subseteq T
  <2> HIDE DEF T
  <2> QED
    BY <1>1, <1>2, SetInduction
<1> QED
  BY <1>3

\* An increasing enumeration of a set is Positions of it.
LEMMA PositionsAre ==
    ASSUME NEW n \in Nat, NEW o \in [1 .. n -> Int],
           \A k, l \in 1 .. n : k < l => o[k] < o[l]
    PROVE  Positions(Images(o, n)) = o
<1> DEFINE P == Images(o, n)
           below(x) == {j \in P : j < x}
<1>1. Cardinality(P) = n
  BY CountOf
<1>2. ASSUME NEW k \in 1 .. n PROVE Cardinality(below(o[k])) = k - 1
  <2>1. below(o[k]) = Images(o, k - 1)
    <3>1. \A i \in 1 .. k - 1 : i \in 1 .. n /\ i < k
      OBVIOUS
    <3>2. \A i \in 1 .. n : ~(i < k) => i = k \/ k < i
      OBVIOUS
    <3>3. \A i \in 1 .. n : i < k => i \in 1 .. k - 1
      OBVIOUS
    <3>4. \A i \in 1 .. n : o[i] \in Int
      OBVIOUS
    <3>5. \A i \in 1 .. n : o[i] < o[k] => i \in 1 .. k - 1
      <4> SUFFICES ASSUME NEW i \in 1 .. n, o[i] < o[k], ~(i < k) PROVE FALSE
        BY <3>3
      <4>1. CASE i = k
        BY <3>4, <4>1
      <4>2. CASE k < i
        <5>1. o[k] < o[i]
          BY <4>2
        <5> QED
          BY <3>4, <5>1
      <4> QED
        BY <3>2, <4>1, <4>2
    <3>6. \A i \in 1 .. k - 1 : o[i] < o[k]
      BY <3>1
    <3> QED
      BY <3>1, <3>5, <3>6 DEF Images
  <2>2. k - 1 \in 0 .. n
    OBVIOUS
  <2> QED
    BY <2>1, <2>2, CountOf
<1>3. ASSUME NEW k \in 1 .. n
      PROVE  (CHOOSE i \in P : Cardinality(below(i)) = k - 1) = o[k]
  <2>1. o[k] \in P /\ Cardinality(below(o[k])) = k - 1
    BY <1>2 DEF Images
  <2>2. ASSUME NEW i \in P, Cardinality(below(i)) = k - 1 PROVE i = o[k]
    <3>1. PICK l \in 1 .. n : i = o[l]
      BY DEF Images
    <3>2. Cardinality(below(i)) = l - 1
      <4> HIDE DEF below
      <4> QED
        BY <1>2, <3>1
    <3>3. l - 1 = k - 1
      BY <2>2, <3>2
    <3>4. l = k
      BY <3>3
    <3> QED
      BY <3>1, <3>4
  <2> HIDE DEF below, P
  <2>3. \E i \in P : Cardinality(below(i)) = k - 1
    BY <2>1
  <2> QED
    BY <2>2, <2>3
<1>4. Positions(P) = [k \in 1 .. n |-> CHOOSE i \in P : Cardinality(below(i)) = k - 1]
  <2> HIDE DEF P
  <2> QED
    BY <1>1 DEF Positions
<1>5. Positions(P) = [k \in 1 .. n |-> o[k]]
  <2> HIDE DEF below, P
  <2> QED
    BY <1>3, <1>4
<1>6. o = [k \in 1 .. n |-> o[k]]
  OBVIOUS
<1> QED
  BY <1>5, <1>6

-----------------------------------------------------------------------------
\* The parser: texts that begin no command.

\* A word that is not the last stands in p, just before a block, or inside one.
LEMMA WordAt ==
    ASSUME NEW w, NEW p, NEW b, NEW s, Laid(w, p, b, s),
           \A k \in 1 .. Len(b) : Len(b[k]) >= 1,
           NEW i \in 1 .. Len(w) - 1
    PROVE  \/ i < Len(p)
           \/ \E k \in 1 .. Len(b) : i = s[k]
           \/ \E k \in 1 .. Len(b) : \E j \in 1 .. Len(b[k]) - 1 : i = s[k] + j
<1>1. /\ Len(p) \in Nat /\ Len(b) \in Nat /\ Len(w) \in Nat
      /\ s[1] = Len(p) /\ s[Len(b) + 1] = Len(w)
      /\ \A k \in 1 .. Len(b) + 1 : s[k] \in Nat
      /\ \A k \in 1 .. Len(b) : Len(b[k]) \in Nat /\ s[k + 1] = s[k] + Len(b[k])
  BY DEF Laid
<1>2. \A l \in 1 .. Len(w) :
         l <= Len(p) \/ \E k \in 1 .. Len(b) : \E j \in 1 .. Len(b[k]) : l = s[k] + j
  BY DEF Laid
<1>3. i \in 1 .. Len(w) /\ i \in Int
  BY <1>1
<1>4. CASE i < Len(p)
  BY <1>4
<1>5. CASE i = Len(p)
  <2>1. Len(b) # 0
    <3> SUFFICES ASSUME Len(b) = 0 PROVE FALSE
      OBVIOUS
    <3>1. Len(b) + 1 = 1
      OBVIOUS
    <3>2. Len(w) = Len(p)
      BY <1>1, <3>1
    <3> QED
      BY <1>1, <1>5, <3>2
  <2>2. 1 \in 1 .. Len(b)
    BY <1>1, <2>1
  <2> QED
    BY <1>1, <1>5, <2>2
<1>6. CASE i > Len(p)
  <2>1. ~(i <= Len(p))
    BY <1>1, <1>3, <1>6
  <2>2. PICK k \in 1 .. Len(b) : \E j \in 1 .. Len(b[k]) : i = s[k] + j
    BY <1>2, <1>3, <2>1, Zenon
  <2>3. PICK j \in 1 .. Len(b[k]) : i = s[k] + j
    BY <2>2
  <2>4. CASE j = Len(b[k])
    <3>1. i = s[k + 1]
      BY <1>1, <2>3, <2>4
    <3>2. k # Len(b)
      <4> SUFFICES ASSUME k = Len(b) PROVE FALSE
        OBVIOUS
      <4>1. i = Len(w)
        BY <1>1, <3>1
      <4> QED
        BY <1>1, <4>1
    <3>3. k + 1 \in 1 .. Len(b)
      BY <1>1, <3>2
    <3> QED
      BY <3>1, <3>3
  <2>5. CASE j # Len(b[k])
    <3>1. j \in 1 .. Len(b[k]) - 1
      BY <1>1, <2>5
    <3> QED
      BY <2>3, <3>1
  <2> QED
    BY <2>4, <2>5
<1> QED
  BY <1>1, <1>3, <1>4, <1>5, <1>6

\* Texts that begin no command, joined, begin none, unless one ends in "command".
LEMMA NoCommandJoined ==
    ASSUME NEW S, NEW s \in Seq(S), NEW t \in Seq(S), NoCommand(s), NoCommand(t),
           Len(s) # 0 /\ Len(t) # 0 => s[Len(s)] # "command" \/ t[1] \notin Operations
    PROVE  NoCommand(s \o t)
<1> DEFINE u == s \o t
<1>1. Joins(u, s, t)
  BY Joined
<1> HIDE DEF u
<1> SUFFICES ASSUME NEW i \in 1 .. Len(u) - 1, u[i] = "command"
             PROVE  u[i + 1] \notin Operations
  BY DEF NoCommand, u
<1>2. /\ Len(s) \in Nat /\ Len(t) \in Nat /\ Len(u) = Len(s) + Len(t)
      /\ \A k \in 1 .. Len(s) : u[k] = s[k]
      /\ \A k \in 1 .. Len(t) : u[Len(s) + k] = t[k]
  BY <1>1 DEF Joins
<1>3. CASE i < Len(s)
  <2>1. i \in 1 .. Len(s) - 1 /\ i \in 1 .. Len(s) /\ i + 1 \in 1 .. Len(s)
    BY <1>2, <1>3
  <2> QED
    BY <1>2, <2>1 DEF NoCommand
<1>4. CASE i = Len(s)
  <2>1. i \in 1 .. Len(s) /\ 1 \in 1 .. Len(t) /\ Len(s) # 0 /\ Len(t) # 0
    BY <1>2, <1>4
  <2>2. u[i] = s[Len(s)] /\ u[i + 1] = t[1]
    BY <1>2, <1>4, <2>1
  <2> QED
    BY <2>1, <2>2
<1>5. CASE i > Len(s)
  <2>1. /\ i - Len(s) \in 1 .. Len(t) - 1 /\ i - Len(s) \in 1 .. Len(t)
        /\ i - Len(s) + 1 \in 1 .. Len(t)
        /\ Len(s) + (i - Len(s)) = i /\ Len(s) + (i - Len(s) + 1) = i + 1
    BY <1>2, <1>5
  <2>2. u[Len(s) + (i - Len(s))] = t[i - Len(s)]
        /\ u[Len(s) + (i - Len(s) + 1)] = t[i - Len(s) + 1]
    BY <1>2, <2>1
  <2> QED
    BY <2>1, <2>2 DEF NoCommand
<1> QED
  BY <1>2, <1>3, <1>4, <1>5

\* The same of a text and the blocks after it.
LEMMA NoCommandLaid ==
    ASSUME NEW w, NEW p, NEW b, NEW s, Laid(w, p, b, s), NoCommand(p),
           \A k \in 1 .. Len(b) : /\ Len(b[k]) >= 1 /\ NoCommand(b[k])
                                  /\ b[k][1] \notin Operations
    PROVE  NoCommand(w)
<1> SUFFICES ASSUME NEW i \in 1 .. Len(w) - 1, w[i] = "command"
             PROVE  w[i + 1] \notin Operations
  BY DEF NoCommand
<1>1. /\ Len(p) \in Nat /\ Len(w) \in Nat /\ Len(b) \in Nat
      /\ \A l \in 1 .. Len(p) : w[l] = p[l]
      /\ \A k \in 1 .. Len(b) : Len(b[k]) \in Nat /\ s[k] \in Nat
      /\ \A k \in 1 .. Len(b) : \A j \in 1 .. Len(b[k]) : w[s[k] + j] = b[k][j]
  BY DEF Laid
<1>2. CASE i < Len(p)
  <2>1. i \in 1 .. Len(p) - 1 /\ i \in 1 .. Len(p) /\ i + 1 \in 1 .. Len(p)
    BY <1>1, <1>2
  <2> QED
    BY <1>1, <2>1 DEF NoCommand
<1>3. ASSUME NEW k \in 1 .. Len(b), i = s[k] PROVE w[i + 1] \notin Operations
  <2>1. 1 \in 1 .. Len(b[k])
    BY <1>1
  <2> QED
    BY <1>1, <1>3, <2>1
<1>4. ASSUME NEW k \in 1 .. Len(b), NEW j \in 1 .. Len(b[k]) - 1, i = s[k] + j
      PROVE  w[i + 1] \notin Operations
  <2>1. j \in 1 .. Len(b[k]) /\ j + 1 \in 1 .. Len(b[k]) /\ s[k] + j + 1 = s[k] + (j + 1)
    BY <1>1
  <2>2. w[i] = b[k][j] /\ w[i + 1] = b[k][j + 1]
    BY <1>1, <1>4, <2>1
  <2> QED
    BY <2>2 DEF NoCommand
<1> QED
  BY <1>2, <1>3, <1>4, WordAt

-----------------------------------------------------------------------------
\* The parser: utterances and their texts.

\* The words of the grammar are in the vocabulary, and digits are none of them.
LEMMA WordsKnown ==
    /\ Number \subseteq Vocabulary /\ Number \cap Keywords = {}
    /\ Keys \subseteq Vocabulary /\ Operations \subseteq Vocabulary
    /\ Tables \subseteq Vocabulary
    /\ "command" \in Vocabulary /\ "dimension" \in Vocabulary /\ "value" \in Vocabulary
    /\ "command" \in Keywords /\ "dimension" \in Keywords /\ "value" \in Keywords
    /\ Keys \subseteq Keywords /\ Tables \subseteq Keywords /\ Operations \subseteq Keywords
<1>1. Number \cup Keywords \subseteq Vocabulary /\ Number \cap Keywords = {}
  BY GrammarAssumption
<1> QED
  BY <1>1 DEF Keywords

\* No word of the grammar plays two parts.
LEMMA WordsApart ==
    /\ Tables = {"task", "note"}
    /\ "command" \notin Operations /\ "dimension" \notin Operations
    /\ Tables \cap Operations = {} /\ "command" \notin Tables
    /\ \A key \in Keys : key # "command" /\ key # "dimension" /\ key # "value"
    /\ Number \cap Tables = {} /\ Number \cap Operations = {}
    /\ "command" \notin Number /\ "dimension" \notin Number /\ "value" \notin Number
    /\ Number \cap Keys = {}
<1>1. Tables = {"task", "note"}
  BY DEF Tables, TableDimensions
<1>2. Keys = {"title", "content", "date", "priority", "label", "status", "tag"}
  BY DEF Keys, TableDimensions
<1>3. /\ "command" \notin Operations /\ "dimension" \notin Operations
      /\ Tables \cap Operations = {} /\ "command" \notin Tables
  BY <1>1 DEF Operations
<1>4. \A key \in Keys : key # "command" /\ key # "dimension" /\ key # "value"
  BY <1>2
<1> QED
  BY <1>1, <1>3, <1>4, WordsKnown

\* Who has said what: the parts of an utterance and their types.
UtteranceTyped(u) ==
    /\ u.operation \in Operations /\ u.table \in Tables
    /\ u.lead \in Seq(Vocabulary) /\ u.number \in Seq(Number)
    /\ u.preamble \in Seq(Vocabulary) /\ u.dims \in Seq([key : Keys, value : Seq(Vocabulary)])
    /\ Len(u.dims) \in Nat /\ DOMAIN u.dims = 1 .. Len(u.dims)
    /\ \A k \in 1 .. Len(u.dims) :
          u.dims[k].key \in Keys /\ u.dims[k].value \in Seq(Vocabulary)

LEMMA UtteranceIs ==
    ASSUME NEW u \in Utterance PROVE UtteranceTyped(u)
<1> DEFINE D == [key : Keys, value : Seq(Vocabulary)]
           dims == u.dims
<1>1. /\ u.operation \in Operations /\ u.table \in Tables
      /\ u.lead \in Seq(Vocabulary) /\ u.number \in Seq(Number)
      /\ u.preamble \in Seq(Vocabulary) /\ dims \in Seq(D)
  BY DEF Utterance
<1>2. \A d \in D : d.key \in Keys /\ d.value \in Seq(Vocabulary)
  OBVIOUS
<1> HIDE DEF D, dims
<1>3. \A k \in 1 .. Len(dims) : dims[k] \in D
  BY <1>1, ElementOfSeq
<1>4. Len(dims) \in Nat /\ DOMAIN dims = 1 .. Len(dims)
  BY <1>1, LenProperties
<1> QED
  BY <1>1, <1>2, <1>3, <1>4 DEF UtteranceTyped, dims, D

\* A dimension as it is said.
DimOf(d) == <<"dimension", d.key, "value">> \o d.value

DimSaid(x, d) ==
    /\ x \in Seq(Vocabulary) /\ Len(d.value) \in Nat /\ Len(x) = 3 + Len(d.value)
    /\ x[1] = "dimension" /\ x[2] = d.key /\ x[3] = "value"
    /\ \A i \in 1 .. Len(d.value) : x[3 + i] = d.value[i]

LEMMA DimOfIs ==
    ASSUME NEW d, d.key \in Keys, d.value \in Seq(Vocabulary)
    PROVE  /\ DimSaid(DimOf(d), d)
           /\ NoCommand(d.value) => NoCommand(DimOf(d))
<1> DEFINE head == <<"dimension", d.key, "value">>
           v == d.value
           x == head \o v
<1>1. /\ Len(head) = 3 /\ head[1] = "dimension" /\ head[2] = d.key /\ head[3] = "value"
      /\ head \in Seq(Vocabulary)
  BY WordsKnown
<1>2. v \in Seq(Vocabulary)
  OBVIOUS
<1>3. NoCommand(head)
  <2>1. \A i \in 1 .. Len(head) - 1 : i = 1 \/ i = 2
    BY <1>1
  <2>2. head[1] # "command" /\ head[2] # "command"
    BY <1>1, WordsApart
  <2> HIDE DEF head
  <2> QED
    BY <2>1, <2>2 DEF NoCommand
<1>4. NoCommand(v) => NoCommand(x)
  <2> SUFFICES ASSUME NoCommand(v) PROVE NoCommand(x)
    OBVIOUS
  <2>1. head[Len(head)] # "command"
    BY <1>1
  <2> HIDE DEF head, v
  <2> QED
    BY <1>1, <1>2, <1>3, <2>1, NoCommandJoined
<1>5. x \in Seq(Vocabulary) /\ Joins(x, head, v)
  <2> HIDE DEF head, v
  <2> QED
    BY <1>1, <1>2, Joined
<1> HIDE DEF x
<1>6. /\ Len(v) \in Nat /\ Len(x) = 3 + Len(v)
      /\ \A i \in 1 .. Len(v) : x[3 + i] = v[i]
      /\ \A k \in 1 .. 3 : x[k] = head[k]
  <2> HIDE DEF head, v
  <2> QED
    BY <1>1, <1>5 DEF Joins
<1>7. x[1] = "dimension" /\ x[2] = d.key /\ x[3] = "value"
  <2> HIDE DEF head
  <2>1. 1 \in 1 .. 3 /\ 2 \in 1 .. 3 /\ 3 \in 1 .. 3
    OBVIOUS
  <2> QED
    BY <1>1, <1>6, <2>1
<1>8. DimSaid(x, d)
  BY <1>5, <1>6, <1>7 DEF DimSaid
<1> QED
  BY <1>4, <1>8 DEF DimOf, x

\* The dimensions of an utterance, and where they stand in its text.
DimBlocks(u) == [k \in DOMAIN u.dims |-> DimOf(u.dims[k])]

DimsLaid(u, s) ==
    /\ Laid(Details(u), u.preamble, DimBlocks(u), s)
    /\ Len(DimBlocks(u)) = Len(u.dims)
    /\ \A k \in 1 .. Len(u.dims) : DimSaid(DimBlocks(u)[k], u.dims[k])

LEMMA DetailsAre ==
    ASSUME NEW u \in Utterance
    PROVE  /\ Details(u) \in Seq(Vocabulary)
           /\ \E s : DimsLaid(u, s)
           /\ Grammatical(u) => NoCommand(Details(u))
<1> DEFINE b == DimBlocks(u)
<1>1. UtteranceTyped(u)
  BY UtteranceIs
<1>2. \A k \in 1 .. Len(u.dims) : b[k] = DimOf(u.dims[k])
  BY <1>1 DEF DimBlocks, UtteranceTyped
<1>3. \A k \in 1 .. Len(u.dims) : DimSaid(b[k], u.dims[k])
  <2> TAKE k \in 1 .. Len(u.dims)
  <2>1. u.dims[k].key \in Keys /\ u.dims[k].value \in Seq(Vocabulary)
    BY <1>1 DEF UtteranceTyped
  <2> HIDE DEF b
  <2> QED
    BY <1>2, <2>1, DimOfIs
<1>4. b \in Seq(Seq(Vocabulary)) /\ Len(b) = Len(u.dims)
  <2>1. \A k \in 1 .. Len(u.dims) : DimOf(u.dims[k]) \in Seq(Vocabulary)
    BY <1>2, <1>3 DEF DimSaid
  <2>2. Len(u.dims) \in Nat /\ DOMAIN u.dims = 1 .. Len(u.dims)
    BY <1>1 DEF UtteranceTyped
  <2>3. b = [k \in 1 .. Len(u.dims) |-> DimOf(u.dims[k])]
    BY <2>2 DEF DimBlocks
  <2> QED
    BY <2>1, <2>2, <2>3
<1>5. Details(u) = u.preamble \o FlattenSeq(b)
  BY DEF Details, Spoken, DimBlocks, DimOf
<1> HIDE DEF b
<1>6. /\ Details(u) \in Seq(Vocabulary)
      /\ \E s : Laid(Details(u), u.preamble, b, s)
  <2>1. u.preamble \in Seq(Vocabulary)
    BY <1>1 DEF UtteranceTyped
  <2> QED
    BY <1>4, <1>5, <2>1, Layout
<1>7. PICK s : Laid(Details(u), u.preamble, b, s)
  BY <1>6
<1>8. DimsLaid(u, s)
  BY <1>3, <1>4, <1>7 DEF DimsLaid, b
<1>9. ASSUME Grammatical(u) PROVE NoCommand(Details(u))
  <2>1. /\ NoCommand(u.preamble)
        /\ \A k \in 1 .. Len(u.dims) : NoCommand(u.dims[k].value)
    BY <1>1, <1>9 DEF Grammatical, UtteranceTyped
  <2>2. ASSUME NEW k \in 1 .. Len(b)
        PROVE  Len(b[k]) >= 1 /\ NoCommand(b[k]) /\ b[k][1] \notin Operations
    <3>1. k \in 1 .. Len(u.dims) /\ DimSaid(b[k], u.dims[k])
      BY <1>3, <1>4
    <3>2. Len(b[k]) >= 1 /\ b[k][1] \notin Operations
      BY <3>1, WordsApart DEF DimSaid
    <3>3. u.dims[k].key \in Keys /\ u.dims[k].value \in Seq(Vocabulary)
      BY <1>1, <3>1 DEF UtteranceTyped
    <3>4. NoCommand(DimOf(u.dims[k]))
      BY <2>1, <3>1, <3>3, DimOfIs
    <3> QED
      BY <1>2, <3>1, <3>2, <3>4
  <2> QED
    BY <1>7, <2>1, <2>2, NoCommandLaid
<1> QED
  BY <1>6, <1>8, <1>9

\* What is said up to the table.
UpToTable(u) == <<u.operation>> \o u.lead \o <<u.table>>

HeadSaid(h, u) ==
    /\ h \in Seq(Vocabulary) /\ Len(u.lead) \in Nat /\ Len(h) = Len(u.lead) + 2
    /\ h[1] = u.operation /\ h[Len(u.lead) + 2] = u.table
    /\ \A i \in 1 .. Len(u.lead) : h[i + 1] = u.lead[i]

LEMMA HeadIs ==
    ASSUME NEW u \in Utterance
    PROVE  HeadSaid(UpToTable(u), u) /\ (Grammatical(u) => NoCommand(UpToTable(u)))
<1> DEFINE o == <<u.operation>>
           l == u.lead
           t == <<u.table>>
           ol == o \o l
           h == ol \o t
<1>1. /\ u.operation \in Operations /\ u.table \in Tables /\ l \in Seq(Vocabulary)
  BY UtteranceIs DEF UtteranceTyped
<1>2. /\ o \in Seq(Vocabulary) /\ Len(o) = 1 /\ o[1] = u.operation
      /\ t \in Seq(Vocabulary) /\ Len(t) = 1 /\ t[1] = u.table
  BY <1>1, WordsKnown
<1>3. u.operation # "command" /\ t[1] \notin Operations
  BY <1>1, <1>2, WordsApart
<1> HIDE DEF o, l, t
<1>4. ol \in Seq(Vocabulary) /\ Joins(ol, o, l)
  BY <1>1, <1>2, Joined
<1>5. h \in Seq(Vocabulary) /\ Joins(h, ol, t)
  <2> HIDE DEF ol
  <2> QED
    BY <1>2, <1>4, Joined
<1>6. NoCommand(o) /\ NoCommand(t)
  BY <1>2 DEF NoCommand
<1>7. ASSUME NoCommand(l) PROVE NoCommand(h)
  <2>1. NoCommand(ol)
    <3>1. o[Len(o)] # "command"
      BY <1>2, <1>3
    <3> QED
      BY <1>1, <1>2, <1>6, <1>7, <3>1, NoCommandJoined
  <2> HIDE DEF ol
  <2> QED
    BY <1>2, <1>3, <1>4, <1>6, <2>1, NoCommandJoined
<1> HIDE DEF h, ol
<1>8. /\ Len(l) \in Nat /\ Len(ol) = 1 + Len(l) /\ Len(h) = Len(ol) + 1
      /\ \A k \in 1 .. 1 : ol[k] = o[k]
      /\ \A k \in 1 .. Len(l) : ol[1 + k] = l[k]
      /\ \A k \in 1 .. Len(ol) : h[k] = ol[k]
      /\ \A k \in 1 .. 1 : h[Len(ol) + k] = t[k]
  BY <1>2, <1>4, <1>5 DEF Joins
<1>9. h[1] = u.operation
  <2>1. 1 \in 1 .. Len(ol) /\ 1 \in 1 .. 1
    BY <1>8
  <2> QED
    BY <1>2, <1>8, <2>1
<1>10. h[Len(l) + 2] = u.table
  <2>1. Len(ol) + 1 = Len(l) + 2 /\ 1 \in 1 .. 1
    BY <1>8
  <2> QED
    BY <1>2, <1>8, <2>1
<1>11. ASSUME NEW i \in 1 .. Len(l) PROVE h[i + 1] = l[i]
  <2>1. i + 1 \in 1 .. Len(ol) /\ i + 1 = 1 + i
    BY <1>8
  <2> QED
    BY <1>8, <2>1
<1>12. Len(h) = Len(l) + 2
  BY <1>8
<1>13. HeadSaid(h, u)
  BY <1>5, <1>8, <1>9, <1>10, <1>11, <1>12 DEF HeadSaid, l
<1>14. Grammatical(u) => NoCommand(l)
  BY DEF Grammatical, l
<1> QED
  BY <1>7, <1>13, <1>14 DEF UpToTable, h, ol, o, l, t

\* What is said after the table.
Rest(u) == u.number \o Details(u)

LEMMA RestIs ==
    ASSUME NEW u \in Utterance
    PROVE  /\ Rest(u) \in Seq(Vocabulary)
           /\ u.number \in Seq(Vocabulary)
           /\ Grammatical(u) => NoCommand(Rest(u))
<1>1. u.number \in Seq(Number) /\ Details(u) \in Seq(Vocabulary)
  BY UtteranceIs, DetailsAre DEF UtteranceTyped
<1> DEFINE n == u.number
           d == Details(u)
<1> HIDE DEF n, d
<1>2. /\ Len(n) \in Nat /\ \A i \in 1 .. Len(n) : n[i] \in Number
  BY <1>1, LenProperties, ElementOfSeq DEF n
<1>3. n \in Seq(Vocabulary)
  <2>1. \A i \in 1 .. Len(n) : n[i] \in Vocabulary
    BY <1>2, WordsKnown
  <2>2. n = [i \in 1 .. Len(n) |-> n[i]]
    BY <1>1, LenProperties DEF n
  <2> QED
    BY <1>2, <2>1, <2>2
<1>4. n \o d \in Seq(Vocabulary)
  BY <1>1, <1>3, ConcatProperties DEF d
<1>5. ASSUME Grammatical(u) PROVE NoCommand(n \o d)
  <2>1. NoCommand(d)
    BY <1>5, DetailsAre DEF d
  <2>2. NoCommand(n)
    BY <1>2, WordsApart DEF NoCommand
  <2>3. Len(n) # 0 => n[Len(n)] # "command"
    BY <1>2, WordsApart
  <2>4. d \in Seq(Vocabulary)
    BY <1>1 DEF d
  <2> QED
    BY <1>3, <2>1, <2>2, <2>3, <2>4, NoCommandJoined
<1> QED
  BY <1>3, <1>4, <1>5 DEF Rest, n, d

\* A segment begins with its operation, and no other command begins inside it.
LEMMA SegmentIs ==
    ASSUME NEW u \in Utterance
    PROVE  /\ Segment(u) \in Seq(Vocabulary)
           /\ Segment(u) = UpToTable(u) \o Rest(u)
           /\ Joins(Segment(u), UpToTable(u), Rest(u))
           /\ Len(Segment(u)) >= 2 /\ Segment(u)[1] = u.operation
           /\ Grammatical(u) => NoCommand(Segment(u))
<1> DEFINE h == UpToTable(u)
           r == Rest(u)
           g == h \o r
<1>1. Segment(u) = g
  BY DEF Segment, UpToTable, Rest
<1>2. HeadSaid(h, u) /\ r \in Seq(Vocabulary)
  BY HeadIs, RestIs
<1>3. h \in Seq(Vocabulary) /\ Len(h) >= 2 /\ h[1] = u.operation
      /\ h[Len(h)] = u.table
  BY <1>2 DEF HeadSaid
<1>4. Grammatical(u) => NoCommand(h) /\ NoCommand(r)
  BY HeadIs, RestIs
<1>5. u.table # "command"
  BY UtteranceIs, WordsApart DEF UtteranceTyped
<1> HIDE DEF h, r
<1>6. g \in Seq(Vocabulary) /\ Joins(g, h, r)
  BY <1>2, <1>3, Joined
<1>7. Len(g) >= 2 /\ g[1] = u.operation
  <2> HIDE DEF g
  <2>1. 1 \in 1 .. Len(h)
    BY <1>3, <1>6 DEF Joins
  <2> QED
    BY <1>3, <1>6, <2>1 DEF Joins
<1>8. Grammatical(u) => NoCommand(g)
  BY <1>2, <1>3, <1>4, <1>5, NoCommandJoined
<1> QED
  BY <1>1, <1>6, <1>7, <1>8 DEF h, r

-----------------------------------------------------------------------------
\* The parser: speeches and their transcriptions.

\* What the grammar asks of a speech.
SpeechTyped(sp) ==
    /\ sp.preface \in Seq(Vocabulary) /\ NoCommand(sp.preface)
    /\ sp.utterances \in Seq(Utterance) /\ Len(sp.utterances) \in Nat
    /\ DOMAIN sp.utterances = 1 .. Len(sp.utterances)
    /\ \A k \in 1 .. Len(sp.utterances) :
          /\ sp.utterances[k] \in Utterance /\ Grammatical(sp.utterances[k])
          /\ sp.utterances[k].heading = StripFillers(sp.utterances[k].preamble)

LEMMA SpeechIs ==
    ASSUME NEW sp \in Speeches PROVE SpeechTyped(sp)
<1> DEFINE us == sp.utterances
<1>1. /\ sp.preface \in Seq(Vocabulary) /\ NoCommand(sp.preface)
      /\ us \in Seq(Utterance)
      /\ \A k \in DOMAIN us :
            Grammatical(us[k]) /\ us[k].heading = StripFillers(us[k].preamble)
  BY GrammarAssumption
<1> HIDE DEF us
<1>2. Len(us) \in Nat /\ DOMAIN us = 1 .. Len(us)
  BY <1>1, LenProperties
<1>3. \A k \in 1 .. Len(us) : us[k] \in Utterance
  BY <1>1, ElementOfSeq
<1> QED
  BY <1>1, <1>2, <1>3 DEF SpeechTyped, us

\* A command as it is said: no other begins inside it.
CommandSaid(x, u) ==
    /\ x \in Seq(Vocabulary) /\ Len(Segment(u)) \in Nat /\ Len(x) = 1 + Len(Segment(u))
    /\ Len(x) >= 3 /\ x[1] = "command" /\ x[2] \in Operations
    /\ \A i \in 1 .. Len(Segment(u)) : x[1 + i] = Segment(u)[i]
    /\ Grammatical(u) =>
          \A i \in 2 .. Len(x) - 1 : x[i] = "command" => x[i + 1] \notin Operations

LEMMA CommandIs ==
    ASSUME NEW u \in Utterance PROVE CommandSaid(Rendered(u), u)
<1> DEFINE c == <<"command">>
           g == Segment(u)
           x == c \o g
<1>1. /\ c \in Seq(Vocabulary) /\ Len(c) = 1 /\ c[1] = "command"
  BY WordsKnown
<1>2. /\ g \in Seq(Vocabulary) /\ Len(g) >= 2 /\ g[1] \in Operations
      /\ Grammatical(u) => NoCommand(g)
  BY SegmentIs, UtteranceIs DEF UtteranceTyped
<1> HIDE DEF c, g
<1>3. x \in Seq(Vocabulary) /\ Joins(x, c, g)
  BY <1>1, <1>2, Joined
<1> HIDE DEF x
<1>4. /\ Len(g) \in Nat /\ Len(x) = 1 + Len(g)
      /\ \A i \in 1 .. 1 : x[i] = c[i]
      /\ \A i \in 1 .. Len(g) : x[1 + i] = g[i]
  BY <1>1, <1>3 DEF Joins
<1>5. x[1] = "command" /\ Len(x) >= 3
  <2>1. 1 \in 1 .. 1
    OBVIOUS
  <2> QED
    BY <1>1, <1>2, <1>4, <2>1
<1>6. x[2] \in Operations
  <2>1. 1 \in 1 .. Len(g) /\ 1 + 1 = 2
    BY <1>2, <1>4
  <2> QED
    BY <1>2, <1>4, <2>1
<1>7. ASSUME Grammatical(u), NEW i \in 2 .. Len(x) - 1, x[i] = "command"
      PROVE  x[i + 1] \notin Operations
  <2>1. /\ i - 1 \in 1 .. Len(g) - 1 /\ i - 1 \in 1 .. Len(g) /\ i - 1 + 1 \in 1 .. Len(g)
        /\ 1 + (i - 1) = i /\ 1 + (i - 1 + 1) = i + 1
    BY <1>4
  <2>2. x[1 + (i - 1)] = g[i - 1] /\ x[1 + (i - 1 + 1)] = g[i - 1 + 1]
    BY <1>4, <2>1
  <2> QED
    BY <1>2, <1>7, <2>1, <2>2 DEF NoCommand
<1>8. CommandSaid(x, u)
  BY <1>3, <1>4, <1>5, <1>6, <1>7 DEF CommandSaid, g
<1> QED
  BY <1>8 DEF Rendered, x, c, g

\* The commands of a speech, and where they stand in its transcription.
CommandBlocks(sp) == [k \in DOMAIN sp.utterances |-> Rendered(sp.utterances[k])]

Transcription(sp) == sp.preface \o Text(sp.utterances)

SpeechLaid(sp, s) ==
    /\ Laid(Transcription(sp), sp.preface, CommandBlocks(sp), s)
    /\ Len(CommandBlocks(sp)) = Len(sp.utterances)
    /\ \A k \in 1 .. Len(sp.utterances) : CommandSaid(CommandBlocks(sp)[k], sp.utterances[k])

LEMMA TranscriptionIs ==
    ASSUME NEW sp \in Speeches
    PROVE  Transcription(sp) \in Seq(Vocabulary) /\ \E s : SpeechLaid(sp, s)
<1> DEFINE b == CommandBlocks(sp)
           us == sp.utterances
<1>1. SpeechTyped(sp)
  BY SpeechIs
<1>2. \A k \in 1 .. Len(us) : b[k] = Rendered(us[k]) /\ us[k] \in Utterance
  BY <1>1 DEF CommandBlocks, SpeechTyped
<1>3. \A k \in 1 .. Len(us) : CommandSaid(b[k], us[k])
  <2> HIDE DEF b, us
  <2> QED
    BY <1>2, CommandIs
<1>4. b \in Seq(Seq(Vocabulary)) /\ Len(b) = Len(us)
  <2>1. \A k \in 1 .. Len(us) : Rendered(us[k]) \in Seq(Vocabulary)
    BY <1>2, <1>3 DEF CommandSaid
  <2>2. Len(us) \in Nat /\ DOMAIN us = 1 .. Len(us)
    BY <1>1 DEF SpeechTyped
  <2>3. b = [k \in 1 .. Len(us) |-> Rendered(us[k])]
    BY <2>2 DEF CommandBlocks
  <2> QED
    BY <2>1, <2>2, <2>3
<1>5. Transcription(sp) = sp.preface \o FlattenSeq(b)
  BY DEF Transcription, Text, CommandBlocks
<1> HIDE DEF b
<1>6. /\ Transcription(sp) \in Seq(Vocabulary)
      /\ \E s : Laid(Transcription(sp), sp.preface, b, s)
  <2>1. sp.preface \in Seq(Vocabulary)
    BY <1>1 DEF SpeechTyped
  <2> QED
    BY <1>4, <1>5, <2>1, Layout
<1>7. PICK s : Laid(Transcription(sp), sp.preface, b, s)
  BY <1>6
<1>8. SpeechLaid(sp, s)
  BY <1>3, <1>4, <1>7 DEF SpeechLaid, b
<1> QED
  BY <1>6, <1>8

\* Commands begin where they were said to.
LEMMA BeginsAre ==
    ASSUME NEW sp \in Speeches, NEW s, SpeechLaid(sp, s)
    PROVE  Begins(Transcription(sp)) =
               Images([k \in 1 .. Len(sp.utterances) |-> s[k] + 1], Len(sp.utterances))
<1> DEFINE w == Transcription(sp)
           p == sp.preface
           b == CommandBlocks(sp)
           n == Len(sp.utterances)
           o == [k \in 1 .. n |-> s[k] + 1]
<1>1. /\ n \in Nat /\ Len(b) = n /\ NoCommand(p)
      /\ Laid(w, p, b, s)
      /\ \A k \in 1 .. n : CommandSaid(b[k], sp.utterances[k])
      /\ \A k \in 1 .. n : Grammatical(sp.utterances[k])
  BY SpeechIs DEF SpeechLaid, SpeechTyped
<1>2. w \in Seq(Vocabulary) /\ Len(w) \in Nat /\ DOMAIN w = 1 .. Len(w)
  BY TranscriptionIs, LenProperties
<1>3. \A k \in 1 .. n : o[k] = s[k] + 1
  OBVIOUS
<1> HIDE DEF w, p, b, n, o
<1>4. /\ Len(p) \in Nat /\ \A l \in 1 .. Len(p) : w[l] = p[l]
      /\ \A k \in 1 .. n : Len(b[k]) \in Nat /\ s[k] \in Nat
      /\ \A k \in 1 .. n : s[k] + Len(b[k]) <= Len(w)
      /\ \A k \in 1 .. n : \A j \in 1 .. Len(b[k]) : w[s[k] + j] = b[k][j]
  <2>1. \A k \in 1 .. n : k + 1 \in 1 .. n + 1 /\ k \in 1 .. n + 1
    BY <1>1
  <2>2. /\ Len(p) \in Nat /\ \A l \in 1 .. Len(p) : w[l] = p[l]
        /\ \A k \in 1 .. n + 1 : s[k] \in Nat /\ s[k] <= Len(w)
        /\ \A k \in 1 .. n : Len(b[k]) \in Nat /\ s[k + 1] = s[k] + Len(b[k])
        /\ \A k \in 1 .. n : \A j \in 1 .. Len(b[k]) : w[s[k] + j] = b[k][j]
    BY <1>1 DEF Laid
  <2> QED
    BY <2>1, <2>2
<1>5. \A k \in 1 .. n : /\ Len(b[k]) >= 3 /\ b[k][1] = "command" /\ b[k][2] \in Operations
                        /\ \A i \in 2 .. Len(b[k]) - 1 :
                              b[k][i] = "command" => b[k][i + 1] \notin Operations
  BY <1>1 DEF CommandSaid
<1>6. ASSUME NEW k \in 1 .. n PROVE o[k] \in Begins(w)
  <2>1. 1 \in 1 .. Len(b[k]) /\ 2 \in 1 .. Len(b[k])
    BY <1>4, <1>5
  <2>2. w[s[k] + 1] = "command" /\ w[s[k] + 2] \in Operations
    BY <1>4, <1>5, <2>1
  <2>3. s[k] + 1 \in 1 .. Len(w) /\ s[k] + 1 < Len(w) /\ s[k] + 1 + 1 = s[k] + 2
    BY <1>2, <1>4, <1>5
  <2> QED
    BY <1>2, <1>3, <2>2, <2>3 DEF Begins
<1>7. ASSUME NEW i \in Begins(w) PROVE \E k \in 1 .. n : i = o[k]
  <2>1. i \in 1 .. Len(w) - 1 /\ w[i] = "command" /\ w[i + 1] \in Operations
    BY <1>2 DEF Begins
  <2>2. ~(i < Len(p))
    <3> SUFFICES ASSUME i < Len(p) PROVE FALSE
      OBVIOUS
    <3>1. i \in 1 .. Len(p) - 1 /\ i \in 1 .. Len(p) /\ i + 1 \in 1 .. Len(p)
      BY <1>2, <1>4, <2>1
    <3> QED
      BY <1>1, <1>4, <2>1, <3>1 DEF NoCommand
  <2>3. ~ \E k \in 1 .. n : i = s[k]
    <3> SUFFICES ASSUME NEW k \in 1 .. n, i = s[k] PROVE FALSE
      OBVIOUS
    <3>1. 1 \in 1 .. Len(b[k])
      BY <1>4, <1>5
    <3>2. w[i + 1] = "command"
      BY <1>4, <1>5, <3>1
    <3> QED
      BY <2>1, <3>2, WordsApart
  <2>4. PICK k \in 1 .. n : \E j \in 1 .. Len(b[k]) - 1 : i = s[k] + j
    <3>1. \A k \in 1 .. Len(b) : Len(b[k]) >= 1
      BY <1>1, <1>4, <1>5
    <3>2. Laid(w, p, b, s)
      BY <1>1
    <3>3. i \in 1 .. Len(w) - 1
      BY <2>1
    <3>4. \/ i < Len(p)
          \/ \E k \in 1 .. Len(b) : i = s[k]
          \/ \E k \in 1 .. Len(b) : \E j \in 1 .. Len(b[k]) - 1 : i = s[k] + j
      BY <3>1, <3>2, <3>3, WordAt
    <3> QED
      BY <1>1, <2>2, <2>3, <3>4, Zenon
  <2>5. PICK j \in 1 .. Len(b[k]) - 1 : i = s[k] + j
    BY <2>4
  <2>6. j \in 1 .. Len(b[k]) /\ j + 1 \in 1 .. Len(b[k]) /\ s[k] + j + 1 = s[k] + (j + 1)
    BY <1>4
  <2>7. w[i] = b[k][j] /\ w[i + 1] = b[k][j + 1]
    BY <1>4, <2>5, <2>6
  <2>8. ~(j \in 2 .. Len(b[k]) - 1)
    BY <1>5, <2>1, <2>7
  <2>9. j = 1
    BY <1>4, <2>8
  <2> QED
    BY <1>3, <2>5, <2>9
<1>8. Begins(w) = Images(o, n)
  BY <1>6, <1>7 DEF Images
<1> QED
  BY <1>8 DEF w, o, n

\* A text is cut into what was said after each "command".
LEMMA SplitIs ==
    ASSUME NEW sp \in Speeches
    PROVE  SplitCommands(Transcription(sp)) =
               [k \in 1 .. Len(sp.utterances) |-> Segment(sp.utterances[k])]
<1> DEFINE w == Transcription(sp)
           us == sp.utterances
           b == CommandBlocks(sp)
           n == Len(us)
           seg(k) == Segment(us[k])
<1>1. PICK s : SpeechLaid(sp, s)
  BY TranscriptionIs
<1> DEFINE o == [k \in 1 .. n |-> s[k] + 1]
<1>2. /\ n \in Nat /\ Len(b) = n
      /\ Laid(w, sp.preface, b, s)
      /\ \A k \in 1 .. n : CommandSaid(b[k], us[k]) /\ us[k] \in Utterance
  BY <1>1, SpeechIs DEF SpeechLaid, SpeechTyped
<1>3. w \in Seq(Vocabulary) /\ Len(w) \in Nat
  BY TranscriptionIs, LenProperties
<1>4. Begins(w) = Images(o, n)
  BY <1>1, BeginsAre
<1> HIDE DEF w, us, b, n
<1>5. /\ \A k \in 1 .. n + 1 : s[k] \in Nat /\ s[k] <= Len(w)
      /\ \A k \in 1 .. n : Len(b[k]) \in Nat /\ s[k + 1] = s[k] + Len(b[k])
      /\ \A k \in 1 .. n : \A j \in 1 .. Len(b[k]) : w[s[k] + j] = b[k][j]
      /\ \A k, l \in 1 .. n : k < l => s[k] + Len(b[k]) <= s[l]
      /\ s[n + 1] = Len(w)
  BY <1>2 DEF Laid
<1>6. \A k \in 1 .. n : Len(b[k]) >= 3
  BY <1>2 DEF CommandSaid
<1>7. \A k \in 1 .. n : k \in 1 .. n + 1 /\ k + 1 \in 1 .. n + 1 /\ s[k] \in Nat
  BY <1>2, <1>5
<1>8. \A k \in 1 .. n : o[k] = s[k] + 1
  OBVIOUS
<1>9. o \in [1 .. n -> Int]
  BY <1>7
<1>10. DOMAIN o = 1 .. n /\ Len(o) = n
  <2>1. o \in Seq(Int)
    BY <1>2, <1>9
  <2> QED
    BY <1>2, <1>9, <2>1, LenProperties
<1> HIDE DEF o
<1>11. \A k, l \in 1 .. n : k < l => o[k] < o[l]
  <2> SUFFICES ASSUME NEW k \in 1 .. n, NEW l \in 1 .. n, k < l PROVE o[k] < o[l]
    OBVIOUS
  <2>1. s[k] + Len(b[k]) <= s[l] /\ Len(b[k]) \in Nat /\ Len(b[k]) >= 3
    BY <1>5, <1>6
  <2>2. s[k] \in Nat /\ s[l] \in Nat
    BY <1>7
  <2>3. s[k] + 1 < s[l] + 1
    BY <2>1, <2>2
  <2> QED
    BY <1>8, <2>3
<1>12. Positions(Begins(w)) = o
  BY <1>2, <1>4, <1>9, <1>11, PositionsAre
<1>13. ASSUME NEW k \in 1 .. n
       PROVE  SubSeq(w, o[k] + 1, IF k < Len(o) THEN o[k + 1] - 1 ELSE Len(w)) = seg(k)
  <2> DEFINE e == IF k < Len(o) THEN o[k + 1] - 1 ELSE Len(w)
             g == seg(k)
             x == SubSeq(w, o[k] + 1, e)
  <2>1. e = s[k + 1]
    <3>1. CASE k < n
      <4>1. k + 1 \in 1 .. n
        BY <1>2, <3>1
      <4>2. o[k + 1] = s[k + 1] + 1 /\ s[k + 1] \in Nat
        BY <1>7, <1>8, <4>1
      <4>3. e = o[k + 1] - 1
        BY <1>10, <3>1
      <4> HIDE DEF e
      <4> QED
        BY <4>2, <4>3
    <3>2. CASE ~(k < n)
      <4>1. k = n
        BY <1>2, <3>2
      <4>2. e = Len(w)
        BY <1>10, <3>2
      <4> QED
        BY <1>5, <4>1, <4>2
    <3> QED
      BY <3>1, <3>2
  <2>2. /\ g \in Seq(Vocabulary) /\ Len(g) \in Nat /\ Len(b[k]) = 1 + Len(g)
        /\ \A i \in 1 .. Len(g) : b[k][1 + i] = g[i]
    <3>1. CommandSaid(b[k], us[k]) /\ us[k] \in Utterance
      BY <1>2
    <3> QED
      BY <3>1, SegmentIs DEF CommandSaid
  <2> HIDE DEF e, g
  <2>3. /\ s[k] \in Nat /\ s[k + 1] = s[k] + 1 + Len(g) /\ s[k + 1] <= Len(w)
        /\ o[k] + 1 = s[k] + 2
    <3>1. s[k] \in Nat /\ s[k + 1] = s[k] + Len(b[k]) /\ s[k + 1] <= Len(w)
      BY <1>5, <1>7
    <3>2. o[k] = s[k] + 1
      BY <1>8
    <3>3. s[k] + Len(b[k]) = s[k] + 1 + Len(g)
      <4> DEFINE a == s[k]
                 c == Len(g)
      <4>1. a \in Nat /\ c \in Nat
        BY <2>2, <3>1
      <4>2. Len(b[k]) = 1 + c
        BY <2>2
      <4> HIDE DEF a, c
      <4>3. a + (1 + c) = a + 1 + c
        BY <4>1
      <4> QED
        BY <4>2, <4>3, Zenon DEF a, c
    <3>4. s[k] + 1 + 1 = s[k] + 2
      BY <3>1
    <3> QED
      BY <3>1, <3>2, <3>3, <3>4
  <2>4. \A i \in s[k] + 2 .. s[k + 1] : w[i] \in Vocabulary
    <3>1. \A i \in 1 .. Len(w) : w[i] \in Vocabulary
      BY <1>3, ElementOfSeq
    <3>2. \A i \in s[k] + 2 .. s[k + 1] : i \in 1 .. Len(w)
      BY <1>3, <2>2, <2>3
    <3> QED
      BY <3>1, <3>2
  <2> DEFINE m == s[k] + 2
             l == s[k + 1]
  <2>5. m \in Int /\ l \in Int /\ l - m + 1 = Len(g) /\ (m <= l <=> Len(g) # 0)
    BY <2>2, <2>3
  <2>6. x = SubSeq(w, m, l)
    BY <2>1, <2>3
  <2> HIDE DEF x, m, l
  <2>7. /\ x \in Seq(Vocabulary) /\ Len(x) = IF m <= l THEN l - m + 1 ELSE 0
        /\ \A i \in 1 .. l - m + 1 : x[i] = w[m + i - 1]
    <3>1. \A i \in m .. l : w[i] \in Vocabulary
      BY <2>4 DEF m, l
    <3> QED
      BY <2>5, <2>6, <3>1, SubSeqProperties
  <2>8. Len(x) = Len(g)
    BY <2>2, <2>5, <2>7
  <2>9. ASSUME NEW i \in 1 .. Len(g) PROVE x[i] = g[i]
    <3>1. m + i - 1 = s[k] + (1 + i)
      <4> DEFINE a == s[k]
      <4>1. a \in Nat /\ i \in Int
        BY <2>2, <2>3
      <4>2. m = a + 2
        BY DEF m
      <4> HIDE DEF a
      <4>3. m + i - 1 = a + (1 + i)
        BY <4>1, <4>2
      <4> QED
        BY <4>3 DEF a
    <3>2. 1 + i \in 1 .. Len(b[k])
      BY <2>2
    <3>3. w[s[k] + (1 + i)] = b[k][1 + i]
      BY <1>5, <3>2
    <3> QED
      BY <2>2, <2>5, <2>7, <3>1, <3>3
  <2>10. x = g
    BY <2>2, <2>7, <2>8, <2>9, SeqEqual
  <2> QED
    BY <2>10 DEF x, g, e
<1>14. SplitCommands(w) =
          [k \in 1 .. n |->
              SubSeq(w, o[k] + 1, IF k < Len(o) THEN o[k + 1] - 1 ELSE Len(w))]
  BY <1>10, <1>12 DEF SplitCommands
<1> HIDE DEF seg
<1>15. SplitCommands(w) = [k \in 1 .. n |-> seg(k)]
  BY <1>13, <1>14
<1> QED
  BY <1>15 DEF w, n, seg, us

-----------------------------------------------------------------------------
\* The parser: dimensions and the preamble.

\* What the proofs about dimensions need of the layout.
DimsAt(u, s) ==
    /\ Len(u.dims) \in Nat /\ Len(u.preamble) \in Nat /\ Len(Details(u)) \in Nat
    /\ Details(u) \in Seq(Vocabulary) /\ DOMAIN Details(u) = 1 .. Len(Details(u))
    /\ \A i \in 1 .. Len(u.preamble) : Details(u)[i] = u.preamble[i]
    /\ s[1] = Len(u.preamble) /\ s[Len(u.dims) + 1] = Len(Details(u))
    /\ \A k \in 1 .. Len(u.dims) + 1 :
          s[k] \in Nat /\ s[k] <= Len(Details(u)) /\ s[k] >= Len(u.preamble)
    /\ \A k \in 1 .. Len(u.dims) :
          /\ k + 1 \in 1 .. Len(u.dims) + 1 /\ s[k] \in Nat
          /\ u.dims[k].key \in Keys /\ u.dims[k].value \in Seq(Vocabulary)
          /\ Len(u.dims[k].value) \in Nat
          /\ s[k + 1] = s[k] + 3 + Len(u.dims[k].value)
          /\ Details(u)[s[k] + 1] = "dimension" /\ Details(u)[s[k] + 2] = u.dims[k].key
          /\ Details(u)[s[k] + 3] = "value"
          /\ \A i \in 1 .. Len(u.dims[k].value) :
                Details(u)[s[k] + 3 + i] = u.dims[k].value[i]
    /\ \A k, l \in 1 .. Len(u.dims) :
          k < l => s[k] + 3 + Len(u.dims[k].value) <= s[l]
    /\ \A i \in 1 .. Len(Details(u)) - 1 :
          \/ i < Len(u.preamble)
          \/ \E k \in 1 .. Len(u.dims) : i = s[k]
          \/ \E k \in 1 .. Len(u.dims) :
                \E j \in 1 .. 2 + Len(u.dims[k].value) : i = s[k] + j

LEMMA DimsLaidAt ==
    ASSUME NEW u \in Utterance PROVE \E s : DimsAt(u, s)
<1> DEFINE D == Details(u)
           p == u.preamble
           dims == u.dims
           b == DimBlocks(u)
           n == Len(dims)
<1>1. PICK s : DimsLaid(u, s)
  BY DetailsAre
<1>2. D \in Seq(Vocabulary) /\ Len(D) \in Nat /\ DOMAIN D = 1 .. Len(D)
  BY DetailsAre, LenProperties
<1>3. /\ Laid(D, p, b, s) /\ Len(b) = n
      /\ \A k \in 1 .. n : DimSaid(b[k], dims[k])
  BY <1>1 DEF DimsLaid
<1>4. \A k \in 1 .. n : dims[k].key \in Keys /\ dims[k].value \in Seq(Vocabulary)
  BY UtteranceIs DEF UtteranceTyped
<1> HIDE DEF D, p, b, n, dims
<1>5. /\ Len(p) \in Nat /\ n \in Nat
      /\ \A i \in 1 .. Len(p) : D[i] = p[i]
      /\ s[1] = Len(p) /\ s[n + 1] = Len(D)
      /\ \A k \in 1 .. n + 1 : s[k] \in Nat /\ s[k] <= Len(D) /\ s[k] >= Len(p)
      /\ \A k \in 1 .. n : Len(b[k]) \in Nat /\ s[k + 1] = s[k] + Len(b[k])
      /\ \A k \in 1 .. n : \A j \in 1 .. Len(b[k]) : D[s[k] + j] = b[k][j]
      /\ \A k, l \in 1 .. n : k < l => s[k] + Len(b[k]) <= s[l]
  BY <1>3 DEF Laid
<1>6. \A k \in 1 .. n :
         /\ Len(dims[k].value) \in Nat /\ Len(b[k]) = 3 + Len(dims[k].value)
         /\ b[k][1] = "dimension" /\ b[k][2] = dims[k].key /\ b[k][3] = "value"
         /\ \A i \in 1 .. Len(dims[k].value) : b[k][3 + i] = dims[k].value[i]
  BY <1>3 DEF DimSaid
<1>7. \A k \in 1 .. n : k \in 1 .. n + 1 /\ k + 1 \in 1 .. n + 1 /\ s[k] \in Nat
  BY <1>5
<1>8. ASSUME NEW k \in 1 .. n
      PROVE  /\ s[k + 1] = s[k] + 3 + Len(dims[k].value)
             /\ D[s[k] + 1] = "dimension" /\ D[s[k] + 2] = dims[k].key
             /\ D[s[k] + 3] = "value"
             /\ \A i \in 1 .. Len(dims[k].value) : D[s[k] + 3 + i] = dims[k].value[i]
             /\ s[k] + Len(b[k]) = s[k] + 3 + Len(dims[k].value)
  <2> DEFINE a == s[k]
             v == Len(dims[k].value)
             c == Len(b[k])
  <2>1. a \in Nat /\ v \in Nat /\ c = 3 + v
    BY <1>6, <1>7
  <2>2. /\ s[k + 1] = a + c
        /\ \A j \in 1 .. c : D[a + j] = b[k][j]
    BY <1>5
  <2>3. \A i \in 1 .. v : b[k][3 + i] = dims[k].value[i]
    BY <1>6
  <2> HIDE DEF a, v, c
  <2>4. a + c = a + 3 + v
    BY <2>1
  <2>5. 1 \in 1 .. c /\ 2 \in 1 .. c /\ 3 \in 1 .. c
    BY <2>1
  <2>6. \A i \in 1 .. v : 3 + i \in 1 .. c /\ a + 3 + i = a + (3 + i)
    BY <2>1
  <2>7. \A i \in 1 .. v : D[a + 3 + i] = dims[k].value[i]
    BY <2>2, <2>3, <2>6
  <2>8. D[a + 1] = b[k][1] /\ D[a + 2] = b[k][2] /\ D[a + 3] = b[k][3]
    BY <2>2, <2>5
  <2> QED
    BY <1>6, <2>2, <2>4, <2>7, <2>8 DEF a, v, c
<1>9. \A k, l \in 1 .. n : k < l => s[k] + 3 + Len(dims[k].value) <= s[l]
  BY <1>5, <1>8
<1>10. ASSUME NEW i \in 1 .. Len(D) - 1
       PROVE  \/ i < Len(p)
              \/ \E k \in 1 .. n : i = s[k]
              \/ \E k \in 1 .. n : \E j \in 1 .. 2 + Len(dims[k].value) : i = s[k] + j
  <2>1. \A k \in 1 .. Len(b) : Len(b[k]) >= 1
    BY <1>3, <1>6
  <2>2. Laid(D, p, b, s)
    BY <1>3
  <2>3. \/ i < Len(p)
        \/ \E k \in 1 .. Len(b) : i = s[k]
        \/ \E k \in 1 .. Len(b) : \E j \in 1 .. Len(b[k]) - 1 : i = s[k] + j
    BY <2>1, <2>2, WordAt
  <2>4. \A k \in 1 .. n : Len(b[k]) - 1 = 2 + Len(dims[k].value)
    BY <1>6
  <2> QED
    BY <1>3, <2>3, <2>4
<1>11. DimsAt(u, s)
  <2>1. n = Len(dims) /\ dims = u.dims /\ D = Details(u) /\ p = u.preamble
    BY DEF n, dims, D, p
  <2> QED
    BY <1>2, <1>4, <1>5, <1>6, <1>7, <1>8, <1>9, <1>10, <2>1 DEF DimsAt
<1> QED
  BY <1>11

\* Dimensions are marked where they were given, and nowhere else.
LEMMA MarkersAre ==
    ASSUME NEW u \in Utterance, Grammatical(u), NEW s, DimsAt(u, s)
    PROVE  Markers(Details(u)) =
               Images([k \in 1 .. Len(u.dims) |-> s[k] + 1], Len(u.dims))
<1> DEFINE D == Details(u)
           p == u.preamble
           dims == u.dims
           n == Len(dims)
           o == [k \in 1 .. n |-> s[k] + 1]
<1>1. \A k \in 1 .. n : o[k] = s[k] + 1
  OBVIOUS
<1>2. NoMarker(p) /\ \A k \in 1 .. n : NoMarker(dims[k].value)
  BY UtteranceIs DEF Grammatical, UtteranceTyped
<1> HIDE DEF o
<1>3. /\ n \in Nat /\ Len(p) \in Nat /\ Len(D) \in Nat /\ DOMAIN D = 1 .. Len(D)
      /\ \A i \in 1 .. Len(p) : D[i] = p[i]
      /\ s[n + 1] = Len(D)
      /\ \A k \in 1 .. n + 1 : s[k] \in Nat /\ s[k] <= Len(D) /\ s[k] >= Len(p)
  BY DEF DimsAt
<1>4. \A k \in 1 .. n :
          /\ k + 1 \in 1 .. n + 1 /\ s[k] \in Nat /\ s[k] >= Len(p)
          /\ dims[k].key \in Keys /\ Len(dims[k].value) \in Nat
          /\ s[k + 1] = s[k] + 3 + Len(dims[k].value) /\ s[k + 1] <= Len(D)
          /\ D[s[k] + 1] = "dimension" /\ D[s[k] + 2] = dims[k].key
          /\ D[s[k] + 3] = "value"
          /\ \A i \in 1 .. Len(dims[k].value) : D[s[k] + 3 + i] = dims[k].value[i]
  <2>1. \A k \in 1 .. n : k \in 1 .. n + 1
    BY <1>3
  <2> QED
    BY <1>3, <2>1 DEF DimsAt
<1>5. \A i \in 1 .. Len(D) - 1 :
          \/ i < Len(p)
          \/ \E k \in 1 .. n : i = s[k]
          \/ \E k \in 1 .. n : \E j \in 1 .. 2 + Len(dims[k].value) : i = s[k] + j
  BY DEF DimsAt
<1> HIDE DEF D, p, n, dims
<1>6. \A key \in Keys : key # "dimension" /\ key # "value"
  BY WordsApart
<1>7. ASSUME NEW k \in 1 .. n PROVE s[k] + 1 \in Markers(D)
  <2> DEFINE a == s[k]
  <2>1. /\ a \in Nat /\ a + 3 <= Len(D)
        /\ D[a + 1] = "dimension" /\ D[a + 2] # "value" /\ D[a + 3] = "value"
    <3> DEFINE v == Len(dims[k].value)
    <3>1. /\ a \in Nat /\ dims[k].key \in Keys /\ v \in Nat
          /\ s[k + 1] = a + 3 + v /\ s[k + 1] <= Len(D)
          /\ D[a + 1] = "dimension" /\ D[a + 2] = dims[k].key /\ D[a + 3] = "value"
      BY <1>4
    <3> HIDE DEF a, v
    <3>2. a + 3 <= a + 3 + v
      BY <3>1
    <3>3. a + 3 <= Len(D)
      BY <1>3, <3>1, <3>2
    <3> QED
      BY <1>6, <3>1, <3>3
  <2> HIDE DEF a
  <2>2. /\ a + 1 \in DOMAIN D /\ a + 1 + 2 = a + 3 /\ a + 1 - 1 + 2 = a + 2
        /\ a + 1 + 2 <= Len(D)
    BY <1>3, <2>1
  <2> DEFINE c == a + 1
  <2>3. /\ c \in DOMAIN D /\ c + 2 = a + 3 /\ c - 1 + 2 = a + 2 /\ c + 2 <= Len(D)
        /\ D[c] = "dimension"
    BY <2>1, <2>2
  <2> HIDE DEF c
  <2>4. Marks(D, c) /\ ~ Marks(D, c - 1)
    BY <2>1, <2>3 DEF Marks
  <2>5. c \in Markers(D)
    BY <2>3, <2>4 DEF Markers
  <2> QED
    BY <2>5 DEF a, c
<1>8. ASSUME NEW i \in DOMAIN D, Marks(D, i) PROVE \E k \in 1 .. n : i = s[k] + 1
  <2>1. /\ i \in 1 .. Len(D) - 2 /\ i \in 1 .. Len(D) - 1 /\ i + 1 \in 1 .. Len(D) - 1
        /\ D[i] = "dimension" /\ D[i + 2] = "value"
    BY <1>3, <1>8 DEF Marks
  <2>2. \A k \in 1 .. n : i # s[k]
    <3> SUFFICES ASSUME NEW k \in 1 .. n, i = s[k] PROVE FALSE
      OBVIOUS
    <3> QED
      BY <1>4, <1>6, <2>1
  <2>3. \A k \in 1 .. n : i + 1 # s[k]
    <3> SUFFICES ASSUME NEW k \in 1 .. n, i + 1 = s[k] PROVE FALSE
      OBVIOUS
    <3>1. i + 2 = s[k] + 1
      BY <1>3, <2>1
    <3> QED
      BY <1>4, <2>1, <3>1
  <2>4. ~(i < Len(p))
    <3> SUFFICES ASSUME i < Len(p) PROVE FALSE
      OBVIOUS
    <3>1. CASE i + 1 < Len(p)
      <4>1. i \in 1 .. Len(p) - 2 /\ i \in 1 .. Len(p) /\ i + 2 \in 1 .. Len(p)
        BY <1>3, <2>1, <3>1
      <4> QED
        BY <1>2, <1>3, <2>1, <4>1 DEF NoMarker
    <3>2. CASE ~(i + 1 < Len(p))
      <4>1. i + 1 = Len(p)
        BY <1>3, <2>1, <3>2
      <4>2. PICK k \in 1 .. n : \E j \in 1 .. 2 + Len(dims[k].value) : i + 1 = s[k] + j
        BY <1>5, <2>1, <2>3, <3>2
      <4>3. PICK j \in 1 .. 2 + Len(dims[k].value) : i + 1 = s[k] + j
        BY <4>2
      <4>4. s[k] \in Nat /\ s[k] >= Len(p) /\ Len(dims[k].value) \in Nat
        BY <1>4
      <4> QED
        BY <1>3, <4>1, <4>3, <4>4
    <3> QED
      BY <3>1, <3>2
  <2>5. PICK k \in 1 .. n : \E j \in 1 .. 2 + Len(dims[k].value) : i = s[k] + j
    BY <1>5, <2>1, <2>2, <2>4
  <2> DEFINE v == dims[k].value
             a == s[k]
  <2>6. PICK j \in 1 .. 2 + Len(v) : i = a + j
    BY <2>5
  <2>7. /\ a \in Nat /\ Len(v) \in Nat /\ dims[k].key \in Keys
        /\ s[k + 1] = a + 3 + Len(v) /\ s[k + 1] <= Len(D)
        /\ D[a + 1] = "dimension" /\ D[a + 2] = dims[k].key /\ D[a + 3] = "value"
        /\ \A l \in 1 .. Len(v) : D[a + 3 + l] = v[l]
        /\ NoMarker(v)
    BY <1>2, <1>4
  <2> HIDE DEF v, a
  <2>8. j \notin {2, 3}
    BY <1>6, <2>1, <2>6, <2>7
  <2>9. CASE j >= 4
    <3>1. j - 3 \in 1 .. Len(v) /\ a + 3 + (j - 3) = i
      BY <2>6, <2>7, <2>9
    <3>2. CASE j + 1 <= 2 + Len(v)
      <4>1. j - 3 \in 1 .. Len(v) - 2 /\ j - 3 + 2 \in 1 .. Len(v)
            /\ a + 3 + (j - 3 + 2) = i + 2
        BY <2>6, <2>7, <2>9, <3>2
      <4>2. v[j - 3] = "dimension" /\ v[j - 3 + 2] = "value"
        BY <2>1, <2>7, <3>1, <4>1
      <4> QED
        BY <2>7, <4>1, <4>2 DEF NoMarker
    <3>3. CASE ~(j + 1 <= 2 + Len(v))
      <4>1. i + 1 = s[k + 1]
        <5>1. j = 2 + Len(v)
          BY <2>7, <3>3
        <5>2. a + (2 + Len(v)) + 1 = a + 3 + Len(v)
          BY <2>7
        <5> QED
          BY <2>6, <2>7, <5>1, <5>2
      <4>2. k # n
        <5> SUFFICES ASSUME k = n PROVE FALSE
          OBVIOUS
        <5>1. i + 1 = Len(D)
          BY <1>3, <4>1
        <5> QED
          BY <1>3, <2>1, <5>1
      <4>3. k + 1 \in 1 .. n
        BY <1>3, <4>2
      <4> QED
        BY <2>3, <4>1, <4>3
    <3> QED
      BY <3>2, <3>3
  <2>10. CASE ~(j >= 4)
    <3>1. j = 1
      BY <2>7, <2>8, <2>10
    <3> QED
      BY <2>6, <3>1 DEF a
  <2> QED
    BY <2>9, <2>10
<1>9. Markers(D) = Images(o, n)
  BY <1>1, <1>7, <1>8 DEF Images, Markers
<1> QED
  BY <1>9 DEF D, o, n, dims

\* Any stretch of a text that reads like x is x.
LEMMA StretchIs ==
    ASSUME NEW S, NEW t \in Seq(S), NEW x \in Seq(S), NEW a \in Nat, a + Len(x) <= Len(t),
           \A i \in 1 .. Len(x) : t[a + i] = x[i]
    PROVE  SubSeq(t, a + 1, a + Len(x)) = x
<1> DEFINE m == a + 1
           e == a + Len(x)
           y == SubSeq(t, m, e)
<1>1. Len(x) \in Nat /\ Len(t) \in Nat /\ \A i \in 1 .. Len(t) : t[i] \in S
  BY LenProperties, ElementOfSeq
<1>2. m \in Int /\ e \in Int /\ e - m + 1 = Len(x) /\ (m <= e <=> Len(x) # 0)
  BY <1>1
<1>3. \A i \in m .. e : i \in 1 .. Len(t)
  BY <1>1
<1>4. \A i \in 1 .. Len(x) : m + i - 1 = a + i
  BY <1>1
<1> HIDE DEF m, e
<1>5. /\ y \in Seq(S) /\ Len(y) = IF m <= e THEN e - m + 1 ELSE 0
      /\ \A i \in 1 .. e - m + 1 : y[i] = t[m + i - 1]
  <2>1. \A i \in m .. e : t[i] \in S
    BY <1>1, <1>3
  <2> QED
    BY <1>2, <2>1, SubSeqProperties
<1> HIDE DEF y
<1>6. Len(y) = Len(x)
  BY <1>1, <1>2, <1>5
<1>7. \A i \in 1 .. Len(y) : y[i] = x[i]
  BY <1>2, <1>4, <1>5, <1>6
<1>8. y = x
  BY <1>5, <1>6, <1>7, SeqEqual
<1> QED
  BY <1>8 DEF y, m, e

\* The preamble is what was said before the first dimension, without fillers.
LEMMA PreambleIs ==
    ASSUME NEW u \in Utterance, Grammatical(u)
    PROVE  Preamble(Details(u)) = StripFillers(u.preamble)
<1> DEFINE D == Details(u)
           p == u.preamble
           n == Len(u.dims)
<1>1. PICK s : DimsAt(u, s)
  BY DimsLaidAt
<1> DEFINE o == [k \in 1 .. n |-> s[k] + 1]
<1>2. Markers(D) = Images(o, n)
  BY <1>1, MarkersAre
<1>3. /\ n \in Nat /\ Len(p) \in Nat /\ Len(D) \in Nat /\ D \in Seq(Vocabulary)
      /\ \A i \in 1 .. Len(p) : D[i] = p[i]
      /\ s[1] = Len(p) /\ s[n + 1] = Len(D) /\ s[1] <= Len(D)
      /\ \A k \in 1 .. n : s[k] \in Nat /\ s[k] >= Len(p)
  <2>1. 1 \in 1 .. Len(u.dims) + 1 /\ \A k \in 1 .. n : k \in 1 .. n + 1
    BY <1>1 DEF DimsAt
  <2> QED
    BY <1>1, <2>1 DEF DimsAt
<1>4. \A k \in 1 .. n : o[k] = s[k] + 1
  OBVIOUS
<1>5. p \in Seq(Vocabulary)
  BY UtteranceIs DEF UtteranceTyped
<1> HIDE DEF D, p, n, o
<1>6. SubSeq(D, 1, Len(p)) = p
  <2>1. 0 + Len(p) <= Len(D) /\ 0 \in Nat /\ \A i \in 1 .. Len(p) : 0 + i = i
    BY <1>3
  <2>2. \A i \in 1 .. Len(p) : D[0 + i] = p[i]
    BY <1>3, <2>1
  <2>3. SubSeq(D, 0 + 1, 0 + Len(p)) = p
    BY <1>3, <1>5, <2>1, <2>2, StretchIs
  <2>4. 0 + 1 = 1 /\ 0 + Len(p) = Len(p)
    BY <1>3
  <2> QED
    BY <2>3, <2>4
<1>7. CASE n = 0
  <2>1. Markers(D) = {}
    BY <1>2, <1>7 DEF Images
  <2>2. Len(D) = Len(p)
    BY <1>3, <1>7
  <2>3. D = p
    BY <1>3, <1>6, <2>2, SubSeqFull
  <2> QED
    BY <2>1, <2>3 DEF Preamble, D, p
<1>8. CASE n # 0
  <2>1. 1 \in 1 .. n
    BY <1>3, <1>8
  <2>2. \A k \in 1 .. n : o[k] \in Int /\ o[1] <= o[k]
    BY <1>3, <1>4, <2>1
  <2>3. /\ Markers(D) \in SUBSET Int /\ o[1] \in Markers(D)
        /\ \A y \in Markers(D) : o[1] <= y
    BY <1>2, <2>1, <2>2 DEF Images
  <2>4. Min(Markers(D)) = o[1] /\ Markers(D) # {}
    BY <2>3, MinIs
  <2>5. o[1] - 1 = Len(p)
    BY <1>3, <1>4, <2>1
  <2>6. SubSeq(D, 1, Min(Markers(D)) - 1) = p
    BY <1>6, <2>4, <2>5
  <2> QED
    BY <2>4, <2>6 DEF Preamble, D, p
<1> QED
  BY <1>7, <1>8

\* The value of a dimension ends where the next one begins.
LEMMA ValueIs ==
    ASSUME NEW u \in Utterance, Grammatical(u), NEW s, DimsAt(u, s),
           NEW k \in 1 .. Len(u.dims)
    PROVE  ValueAt(Details(u), s[k] + 1) = u.dims[k].value
<1> DEFINE D == Details(u)
           n == Len(u.dims)
           o == [l \in 1 .. n |-> s[l] + 1]
           v == u.dims[k].value
           c == Len(v)
           a == s[k]
           m == s[k] + 1
           later == {i \in Markers(D) : i > m}
<1>1. Markers(D) = Images(o, n)
  BY MarkersAre
<1>2. \A l \in 1 .. n : o[l] = s[l] + 1
  OBVIOUS
<1>3. /\ n \in Nat /\ D \in Seq(Vocabulary) /\ Len(D) \in Nat
      /\ s[n + 1] = Len(D)
      /\ v \in Seq(Vocabulary) /\ c \in Nat /\ a \in Nat
      /\ \A l \in 1 .. n : s[l] \in Nat
      /\ \A j, l \in 1 .. n : j < l => s[j] + 3 + Len(u.dims[j].value) <= s[l]
      /\ s[k + 1] = a + 3 + c
      /\ \A i \in 1 .. c : D[a + 3 + i] = v[i]
      /\ s[k + 1] <= Len(D) /\ \A j \in 1 .. n : Len(u.dims[j].value) \in Nat
  BY DEF DimsAt
<1> HIDE DEF D, n, o, c, a
<1>4. (IF later = {} THEN Len(D) ELSE Min(later) - 1) = s[k + 1]
  <2>1. CASE k = n
    <3>1. ASSUME NEW l \in 1 .. n PROVE o[l] <= m
      <4>1. s[l] \in Nat /\ a \in Nat
        BY <1>3
      <4>2. CASE l = n
        BY <1>2, <2>1, <4>1, <4>2 DEF a
      <4>3. CASE l # n
        <5>1. l < n
          BY <1>3, <4>3
        <5>2. s[l] + 3 + Len(u.dims[l].value) <= a /\ Len(u.dims[l].value) \in Nat
          BY <1>3, <2>1, <5>1 DEF a
        <5> DEFINE x == Len(u.dims[l].value)
        <5>3. x \in Nat /\ s[l] + 3 + x <= a
          BY <5>2
        <5> HIDE DEF x
        <5>4. s[l] + 1 <= a + 1
          BY <4>1, <5>3
        <5> QED
          BY <1>2, <5>4 DEF a
      <4> QED
        BY <4>2, <4>3
    <3>2. \A l \in 1 .. n : o[l] \in Int /\ m \in Int
      <4>1. \A l \in 1 .. n : s[l] + 1 \in Int
        BY <1>3
      <4>2. m = a + 1 /\ a \in Nat
        BY <1>3 DEF a
      <4> HIDE DEF m
      <4> QED
        BY <1>2, <4>1, <4>2
    <3>3. later = {}
      BY <1>1, <3>1, <3>2 DEF Images
    <3>4. s[k + 1] = Len(D)
      BY <1>3, <2>1
    <3> QED
      BY <3>3, <3>4
  <2>2. CASE k # n
    <3>1. k + 1 \in 1 .. n /\ k < k + 1 /\ k \in Int
      BY <1>3, <2>2 DEF n
    <3>2. o[k + 1] \in later
      <4>1. o[k + 1] = s[k + 1] + 1 /\ s[k + 1] \in Nat
        BY <1>2, <1>3, <3>1
      <4>2. s[k + 1] = a + 3 + c /\ a \in Nat /\ c \in Nat /\ m = a + 1
        BY <1>3 DEF a
      <4> HIDE DEF m
      <4>3. o[k + 1] > m
        BY <4>1, <4>2
      <4> QED
        BY <1>1, <3>1, <4>3 DEF Images
    <3>3. ASSUME NEW l \in 1 .. n, o[l] > m PROVE o[k + 1] <= o[l]
      <4>1. /\ s[l] \in Nat /\ a \in Nat /\ o[l] = s[l] + 1 /\ m = a + 1
            /\ o[k + 1] = s[k + 1] + 1 /\ s[k + 1] \in Nat
        BY <1>2, <1>3, <3>1 DEF a
      <4>2. CASE l = k + 1
        BY <4>1, <4>2
      <4>3. CASE l > k + 1
        <5> DEFINE x == Len(u.dims[k + 1].value)
        <5>1. s[k + 1] + 3 + x <= s[l] /\ x \in Nat
          BY <1>3, <3>1, <4>3
        <5> HIDE DEF x
        <5> QED
          BY <4>1, <5>1
      <4>4. CASE l = k
        BY <3>3, <4>1, <4>4 DEF a
      <4>5. CASE l < k
        <5> DEFINE x == Len(u.dims[l].value)
        <5>1. s[l] + 3 + x <= a /\ x \in Nat
          BY <1>3, <4>5 DEF a, n
        <5> HIDE DEF x
        <5>2. s[l] + 1 <= a + 1
          BY <4>1, <5>1
        <5> HIDE DEF m
        <5> QED
          BY <3>3, <4>1, <5>2
      <4>6. l = k + 1 \/ l > k + 1 \/ l = k \/ l < k
        BY <3>1
      <4> QED
        BY <4>2, <4>3, <4>4, <4>5, <4>6
    <3>4. \A l \in 1 .. n : o[l] \in Int
      BY <1>2, <1>3
    <3>5. /\ later \in SUBSET Int /\ \A y \in later : o[k + 1] <= y
      BY <1>1, <3>3, <3>4 DEF Images
    <3> HIDE DEF later
    <3>6. Min(later) = o[k + 1] /\ later # {}
      BY <3>2, <3>5, MinIs
    <3>7. o[k + 1] - 1 = s[k + 1]
      BY <1>2, <1>3, <3>1
    <3> QED
      BY <3>6, <3>7
  <2> QED
    BY <2>1, <2>2
<1>5. SubSeq(D, a + 3 + 1, a + 3 + c) = v
  <2>1. a + 3 \in Nat /\ a + 3 + Len(v) <= Len(D)
    <3>1. a \in Nat /\ s[k + 1] = a + 3 + c /\ s[k + 1] <= Len(D) /\ c = Len(v)
      BY <1>3 DEF c
    <3> HIDE DEF v
    <3> QED
      BY <3>1
  <2>2. \A i \in 1 .. Len(v) : D[a + 3 + i] = v[i]
    BY <1>3 DEF c
  <2> HIDE DEF v
  <2> QED
    BY <1>3, <2>1, <2>2, StretchIs DEF c
<1>6. m + 3 = a + 3 + 1
  BY <1>3 DEF a
<1>7. ValueAt(D, m) = SubSeq(D, m + 3, IF later = {} THEN Len(D) ELSE Min(later) - 1)
  BY DEF ValueAt
<1> HIDE DEF later, m, v
<1>8. ValueAt(D, m) = v
  BY <1>3, <1>4, <1>5, <1>6, <1>7
<1> QED
  BY <1>8 DEF D, m, v

\* The dimensions that give a key a value.
Given(u, key) == {k \in DOMAIN u.dims : u.dims[k].key = key /\ u.dims[k].value # <<>>}

\* The last of them is what was said.
LEMMA SaidIs ==
    ASSUME NEW u \in Utterance, NEW key
    PROVE  /\ Given(u, key) = {} => Said(u, key) = <<>>
           /\ Given(u, key) # {} =>
                 \E l \in Given(u, key) :
                    /\ Said(u, key) = u.dims[l].value /\ Said(u, key) # <<>>
                    /\ \A k \in Given(u, key) : l >= k
<1>1. CASE Given(u, key) = {}
  BY <1>1 DEF Said, Given
<1>2. CASE Given(u, key) # {}
  <2> DEFINE G == Given(u, key)
             n == Len(u.dims)
  <2>1. n \in Nat /\ DOMAIN u.dims = 1 .. n
    BY UtteranceIs DEF UtteranceTyped
  <2>2. G \in SUBSET (1 .. n) /\ \A k \in G : u.dims[k].value # <<>>
    BY <2>1 DEF Given
  <2>3. Said(u, key) = u.dims[Max(G)].value
    BY <1>2 DEF Said, Given
  <2>4. G # {}
    BY <1>2
  <2> HIDE DEF G, n
  <2>5. PICK l \in G : \A k \in G : l >= k
    BY <2>1, <2>2, <2>4, GreatestExists
  <2>6. G \in SUBSET Int
    BY <2>1, <2>2
  <2>7. Max(G) = l
    BY <2>5, <2>6, MaxIs
  <2> QED
    BY <2>2, <2>3, <2>5, <2>7 DEF G
<1> QED
  BY <1>1, <1>2

\* The dimensions of a table that were said, and not left empty.
Heard(u, table) ==
    {key \in {u.dims[k].key : k \in DOMAIN u.dims} \cap TableDimensions[table] :
        Said(u, key) # <<>>}

\* The parser hears every key of the table with the last value given for it.
LEMMA DimensionsAre ==
    ASSUME NEW u \in Utterance, Grammatical(u), NEW table \in Tables
    PROVE  Dimensions(Details(u), table) = [key \in Heard(u, table) |-> Said(u, key)]
<1> DEFINE D == Details(u)
           n == Len(u.dims)
           T == TableDimensions[table]
<1>1. PICK s : DimsAt(u, s)
  BY DimsLaidAt
<1> DEFINE o == [k \in 1 .. n |-> s[k] + 1]
           valid == {m \in Markers(D) : D[m + 1] \in T /\ ValueAt(D, m) # <<>>}
           of(key) == {m \in valid : D[m + 1] = key}
<1>2. Markers(D) = Images(o, n)
  BY <1>1, MarkersAre
<1>3. \A k \in 1 .. n : o[k] = s[k] + 1
  OBVIOUS
<1>4. n \in Nat /\ DOMAIN u.dims = 1 .. n
  BY UtteranceIs DEF UtteranceTyped
<1>5. \A k \in 1 .. n : ValueAt(D, s[k] + 1) = u.dims[k].value
  BY <1>1, ValueIs
<1>6. \A k \in 1 .. n : /\ s[k] \in Nat /\ D[s[k] + 2] = u.dims[k].key
                        /\ Len(u.dims[k].value) \in Nat
  BY <1>1 DEF DimsAt
<1>7. \A j, l \in 1 .. n : j < l => s[j] + 3 + Len(u.dims[j].value) <= s[l]
  BY <1>1 DEF DimsAt
<1> HIDE DEF D, n, T, o
<1>8. \A k \in 1 .. n : /\ o[k] \in Int /\ D[o[k] + 1] = u.dims[k].key
                        /\ ValueAt(D, o[k]) = u.dims[k].value
  <2> TAKE k \in 1 .. n
  <2>1. s[k] \in Nat /\ s[k] + 1 + 1 = s[k] + 2
    BY <1>6
  <2>2. D[s[k] + 1 + 1] = u.dims[k].key
    BY <1>6, <2>1
  <2> QED
    BY <1>3, <1>5, <2>1, <2>2
<1>9. \A j, l \in 1 .. n : j < l => o[j] <= o[l]
  <2> SUFFICES ASSUME NEW j \in 1 .. n, NEW l \in 1 .. n, j < l PROVE o[j] <= o[l]
    OBVIOUS
  <2> DEFINE a == s[j]
             c == s[l]
             x == Len(u.dims[j].value)
  <2>1. a \in Nat /\ c \in Nat /\ x \in Nat /\ a + 3 + x <= c
    BY <1>6, <1>7
  <2>2. o[j] = a + 1 /\ o[l] = c + 1
    BY <1>3
  <2> HIDE DEF a, c, x
  <2> QED
    BY <2>1, <2>2
<1>10. \A m : m \in valid <=> \E k \in 1 .. n : /\ m = o[k] /\ u.dims[k].key \in T
                                               /\ u.dims[k].value # <<>>
  BY <1>2, <1>8 DEF Images
<1> HIDE DEF valid
<1>11. \A key : Given(u, key) = {k \in 1 .. n : u.dims[k].key = key /\ u.dims[k].value # <<>>}
  BY <1>4 DEF Given
<1>12. ASSUME NEW key PROVE key \in {D[m + 1] : m \in valid} <=> key \in Heard(u, table)
  <2>1. key \in {D[m + 1] : m \in valid} <=> key \in T /\ Given(u, key) # {}
    <3>1. ASSUME NEW m \in valid, key = D[m + 1] PROVE key \in T /\ Given(u, key) # {}
      <4>1. PICK k \in 1 .. n : m = o[k] /\ u.dims[k].key \in T /\ u.dims[k].value # <<>>
        BY <1>10
      <4>2. key = u.dims[k].key
        BY <1>8, <3>1, <4>1
      <4> QED
        BY <1>11, <4>1, <4>2
    <3>2. ASSUME key \in T, NEW k \in Given(u, key) PROVE key \in {D[m + 1] : m \in valid}
      <4>1. k \in 1 .. n /\ u.dims[k].key = key /\ u.dims[k].value # <<>>
        BY <1>11
      <4>2. o[k] \in valid
        BY <1>10, <3>2, <4>1
      <4>3. D[o[k] + 1] = key
        BY <1>8, <4>1
      <4> QED
        BY <4>2, <4>3
    <3> QED
      BY <3>1, <3>2
  <2>2. key \in Heard(u, table) <=>
           /\ key \in T /\ Said(u, key) # <<>>
           /\ \E k \in 1 .. n : key = u.dims[k].key
    BY <1>4 DEF Heard, T
  <2>3. Given(u, key) # {} => \E k \in 1 .. n : key = u.dims[k].key
    BY <1>11
  <2>4. Given(u, key) # {} <=> Said(u, key) # <<>>
    BY SaidIs
  <2> QED
    BY <2>1, <2>2, <2>3, <2>4
<1>13. ASSUME NEW key \in Heard(u, table)
       PROVE  ValueAt(D, Max(of(key))) = Said(u, key)
  <2>1. key \in T /\ Given(u, key) # {}
    <3>1. key \in T /\ Said(u, key) # <<>>
      BY DEF Heard, T
    <3> QED
      BY <3>1, SaidIs
  <2>2. PICK l \in Given(u, key) : /\ Said(u, key) = u.dims[l].value
                                   /\ \A k \in Given(u, key) : l >= k
    BY <2>1, SaidIs
  <2>3. l \in 1 .. n /\ u.dims[l].key = key /\ u.dims[l].value # <<>>
    BY <1>11
  <2>4. o[l] \in of(key)
    BY <1>8, <1>10, <2>1, <2>3
  <2>5. ASSUME NEW m \in of(key) PROVE m \in Int /\ o[l] >= m
    <3>1. PICK k \in 1 .. n : m = o[k] /\ u.dims[k].value # <<>>
      BY <1>10
    <3>2. k \in Given(u, key)
      BY <1>8, <1>11, <3>1
    <3>3. k = l \/ k < l
      BY <1>4, <2>2, <2>3, <3>2
    <3>4. o[k] <= o[l] \/ k = l
      BY <1>9, <2>3, <3>3
    <3> QED
      BY <1>8, <2>3, <3>1, <3>4
  <2>6. of(key) \in SUBSET Int
    BY <2>5
  <2> HIDE DEF of
  <2>7. Max(of(key)) = o[l]
    BY <2>4, <2>5, <2>6, MaxIs
  <2> QED
    BY <1>8, <2>2, <2>3, <2>7
<1>14. Dimensions(D, table) =
          [key \in {D[m + 1] : m \in valid} |-> ValueAt(D, Max(of(key)))]
  BY DEF Dimensions, valid, T
<1>15. {D[m + 1] : m \in valid} = Heard(u, table)
  BY <1>12
<1> HIDE DEF of
<1>16. Dimensions(D, table) = [key \in Heard(u, table) |-> ValueAt(D, Max(of(key)))]
  BY <1>14, <1>15
<1> QED
  BY <1>13, <1>16 DEF D

LEMMA GetIs ==
    ASSUME NEW u \in Utterance, Grammatical(u), NEW table \in Tables,
           NEW key \in TableDimensions[table]
    PROVE  Get(Dimensions(Details(u), table), key) = Said(u, key)
<1> DEFINE d == Dimensions(Details(u), table)
<1>1. d = [k \in Heard(u, table) |-> Said(u, k)]
  BY DimensionsAre
<1> HIDE DEF d
<1>2. CASE key \in Heard(u, table)
  BY <1>1, <1>2 DEF Get, d
<1>3. CASE key \notin Heard(u, table)
  <2>1. Said(u, key) = <<>>
    <3>1. Given(u, key) = {} \/ Said(u, key) = <<>>
      BY <1>3 DEF Heard, Given
    <3> QED
      BY <3>1, SaidIs
  <2> QED
    BY <1>1, <1>3, <2>1 DEF Get, d
<1> QED
  BY <1>2, <1>3

-----------------------------------------------------------------------------
\* The parser: dates and titles.

\* What is left of t without its first c words.
LEMMA FlattenedFrom ==
    ASSUME NEW S, NEW t \in Seq(S), NEW c \in {0, 1}, c <= Len(t),
           NEW b \in Seq(Seq(S)), Len(b) = Len(t),
           \A i \in 1 .. Len(t) : b[i] = IF i <= c THEN <<>> ELSE <<t[i]>>
    PROVE  FlattenSeq(b) = SubSeq(t, c + 1, Len(t))
<1> DEFINE N == Len(t)
           upto(m) == UpTo(b, m)
           left(m) == IF m <= c THEN 0 ELSE m - c
           T == {m \in Nat : m <= N =>
                    Len(upto(m)) = left(m) /\ \A k \in 1 .. left(m) : upto(m)[k] = t[c + k]}
<1>1. N \in Nat /\ c \in Nat /\ \A i \in 1 .. N : t[i] \in S
  BY LenProperties, ElementOfSeq
<1>2. 0 \in T
  <2>1. upto(0) = <<>>
    BY <1>1, UpToNext
  <2>2. left(0) = 0 /\ Len(<<>>) = 0
    BY <1>1
  <2> HIDE DEF upto, left
  <2> QED
    BY <2>1, <2>2
<1>3. ASSUME NEW m \in Nat, m \in T PROVE m + 1 \in T
  <2> SUFFICES ASSUME m + 1 <= N
               PROVE  /\ Len(upto(m + 1)) = left(m + 1)
                      /\ \A k \in 1 .. left(m + 1) : upto(m + 1)[k] = t[c + k]
    OBVIOUS
  <2> DEFINE x == upto(m)
             y == upto(m + 1)
             e == b[m + 1]
  <2>1. /\ m \in 0 .. Len(b) /\ m < Len(b) /\ m + 1 \in 1 .. N
    BY <1>1
  <2>2. x \in Seq(S) /\ y = x \o e
    BY <2>1, UpToNext
  <2>3. Len(x) = left(m) /\ \A k \in 1 .. left(m) : x[k] = t[c + k]
    <3> HIDE DEF x, left
    <3> QED
      BY <1>1, <1>3 DEF x
  <2>4. e = IF m + 1 <= c THEN <<>> ELSE <<t[m + 1]>>
    BY <2>1
  <2> HIDE DEF x, y, e, upto
  <2>5. CASE m + 1 <= c
    <3>1. e = <<>>
      BY <2>4, <2>5
    <3>2. y = x
      BY <2>2, <3>1, ConcatEmptySeq
    <3>3. left(m) = 0 /\ left(m + 1) = 0
      BY <1>1, <2>5
    <3> HIDE DEF left
    <3>4. Len(y) = left(m + 1) /\ \A k \in 1 .. left(m + 1) : y[k] = t[c + k]
      BY <2>3, <3>2, <3>3
    <3> QED
      BY <3>4 DEF y
  <2>6. CASE ~(m + 1 <= c)
    <3>1. e = <<t[m + 1]>> /\ t[m + 1] \in S
      BY <1>1, <2>1, <2>4, <2>6
    <3>2. e \in Seq(S) /\ Len(e) = 1 /\ e[1] = t[m + 1]
      BY <3>1
    <3>3. Joins(y, x, e)
      BY <2>2, <3>2, Joined
    <3>4. left(m + 1) = left(m) + 1 /\ left(m) \in Nat /\ c + left(m + 1) = m + 1
      BY <1>1, <2>6
    <3> HIDE DEF left
    <3>5. Len(y) = left(m + 1)
      BY <2>3, <3>2, <3>3, <3>4 DEF Joins
    <3>6. ASSUME NEW k \in 1 .. left(m + 1) PROVE y[k] = t[c + k]
      <4>1. CASE k <= left(m)
        <5>1. k \in 1 .. left(m)
          BY <3>4, <4>1
        <5> QED
          BY <2>3, <3>3, <5>1 DEF Joins
      <4>2. CASE ~(k <= left(m))
        <5>1. k = left(m) + 1 /\ k = left(m + 1)
          BY <3>4, <4>2
        <5>2. y[Len(x) + 1] = e[1]
          <6>1. 1 \in 1 .. Len(e)
            BY <3>2
          <6> QED
            BY <3>3, <6>1 DEF Joins
        <5>3. y[k] = t[m + 1]
          BY <2>3, <3>2, <5>1, <5>2
        <5> QED
          BY <3>4, <5>1, <5>3
      <4> QED
        BY <4>1, <4>2
    <3> QED
      BY <3>5, <3>6 DEF y
  <2> QED
    BY <2>5, <2>6
<1>4. Nat \subseteq T
  <2> HIDE DEF T
  <2> QED
    BY <1>2, <1>3, SetInduction
<1> DEFINE f == FlattenSeq(b)
           g == SubSeq(t, c + 1, N)
<1>5. f \in Seq(S) /\ f = upto(N)
  BY FlattenSeqType, UpToAll
<1>6. Len(f) = left(N) /\ \A k \in 1 .. left(N) : f[k] = t[c + k]
  <2> HIDE DEF f, upto, left
  <2> QED
    BY <1>1, <1>4, <1>5
<1>7. left(N) = N - c
  BY <1>1
<1>8. c + 1 \in Int /\ \A i \in c + 1 .. N : t[i] \in S
  BY <1>1
<1> HIDE DEF f, left, N
<1>9. /\ g \in Seq(S) /\ Len(g) = IF c + 1 <= N THEN N - (c + 1) + 1 ELSE 0
      /\ \A i \in 1 .. N - (c + 1) + 1 : g[i] = t[c + 1 + i - 1]
  <2> DEFINE m == c + 1
             h == SubSeq(t, m, N)
  <2>1. m \in Int /\ N \in Int /\ \A i \in m .. N : t[i] \in S
    BY <1>1, <1>8
  <2> HIDE DEF m
  <2>2. /\ h \in Seq(S) /\ Len(h) = IF m <= N THEN N - m + 1 ELSE 0
        /\ \A i \in 1 .. N - m + 1 : h[i] = t[m + i - 1]
    BY <2>1, SubSeqProperties
  <2> QED
    BY <2>2 DEF m
<1>10. N - (c + 1) + 1 = N - c /\ (~(c + 1 <= N) => N - c = 0)
       /\ \A i \in Int : c + 1 + i - 1 = c + i
  BY <1>1 DEF N
<1> HIDE DEF g
<1>11. Len(g) = N - c /\ \A i \in 1 .. N - c : g[i] = t[c + i]
  <2> DEFINE e == N - (c + 1) + 1
  <2>1. e = N - c /\ (~(c + 1 <= N) => N - c = 0)
    BY <1>10
  <2>2. /\ Len(g) = IF c + 1 <= N THEN e ELSE 0
        /\ \A i \in 1 .. e : g[i] = t[c + 1 + i - 1]
    BY <1>9
  <2> HIDE DEF e
  <2>3. Len(g) = N - c
    BY <2>1, <2>2
  <2>4. ASSUME NEW i \in 1 .. e PROVE g[i] = t[c + i]
    <3>1. c + 1 + i - 1 = c + i
      BY <1>1, <1>10, <2>1
    <3> QED
      BY <2>2, <3>1
  <2> QED
    BY <2>1, <2>3, <2>4
<1>12. f = g
  BY <1>5, <1>6, <1>7, <1>9, <1>11, SeqEqual
<1> QED
  BY <1>12 DEF f, g, N

\* A date is understood with or without "next" in front of it.
LEMMA DateIs ==
    ASSUME NEW t \in Seq(Vocabulary), \A i \in 2 .. Len(t) : t[i] # "next"
    PROVE  NormalizeDate(t) = Due(t)
<1> DEFINE N == Len(t)
           b == [i \in DOMAIN t |-> IF t[i] = "next" /\ i < N THEN <<>> ELSE <<t[i]>>]
           bare == FlattenSeq(b)
<1>1. N \in Nat /\ DOMAIN t = 1 .. N /\ \A i \in 1 .. N : t[i] \in Vocabulary
  BY LenProperties, ElementOfSeq
<1>2. NormalizeDate(t) = IF t # <<>> /\ bare \in Dates THEN bare ELSE <<>>
  BY DEF NormalizeDate
<1>3. \A date \in Dates : date # <<>> /\ \A i \in DOMAIN date : date[i] # "next"
  <2>1. \A date \in Dates : date # <<>> /\ "next" \notin ToSet(date)
    BY GrammarAssumption
  <2> QED
    BY <2>1 DEF ToSet
<1>4. b \in Seq(Seq(Vocabulary)) /\ Len(b) = N
  <2>1. \A i \in 1 .. N : (IF t[i] = "next" /\ i < N THEN <<>> ELSE <<t[i]>>) \in Seq(Vocabulary)
    BY <1>1
  <2>2. b \in [1 .. N -> Seq(Vocabulary)]
    BY <1>1, <2>1
  <2> HIDE DEF b
  <2> QED
    BY <1>1, <2>2
<1>5. \A i \in 1 .. N : b[i] = IF t[i] = "next" /\ i < N THEN <<>> ELSE <<t[i]>>
  BY <1>1
<1> HIDE DEF b
<1>6. CASE t = <<>>
  <2>1. t \notin Dates
    BY <1>3, <1>6
  <2>2. Due(t) = <<>>
    BY <1>6, <2>1 DEF Due
  <2> QED
    BY <1>2, <1>6, <2>2
<1>7. CASE t # <<>> /\ t[1] = "next" /\ N = 1
  <2>1. \A i \in 1 .. N : b[i] = IF i <= 0 THEN <<>> ELSE <<t[i]>>
    BY <1>5, <1>7
  <2>2. bare = SubSeq(t, 0 + 1, N)
    BY <1>1, <1>4, <2>1, FlattenedFrom
  <2>3. bare = t
    BY <2>2, SubSeqFull
  <2>4. t \notin Dates
    BY <1>1, <1>3, <1>7
  <2>5. Tail(t) \notin Dates
    <3>1. Tail(t) \in Seq(Vocabulary) /\ Len(Tail(t)) = 0
      BY <1>7, HeadTailProperties
    <3>2. Tail(t) = <<>>
      BY <3>1, EmptySeq
    <3> QED
      BY <1>3, <3>2
  <2>6. Due(t) = <<>>
    BY <2>4, <2>5 DEF Due
  <2> QED
    BY <1>2, <2>3, <2>4, <2>6
<1>8. CASE t # <<>> /\ t[1] = "next" /\ N # 1
  <2>1. N > 1
    <3>1. N # 0
      BY <1>8, EmptySeq
    <3> QED
      BY <1>1, <1>8, <3>1
  <2>2. \A i \in 1 .. N : b[i] = IF i <= 1 THEN <<>> ELSE <<t[i]>>
    <3> TAKE i \in 1 .. N
    <3>1. CASE i = 1
      <4>1. 1 \in 1 .. N /\ 1 < N /\ t[1] = "next"
        BY <1>1, <1>8, <2>1
      <4>2. b[1] = <<>>
        BY <1>5, <4>1
      <4> QED
        BY <3>1, <4>2
    <3>2. CASE i # 1
      <4>1. i \in 2 .. N /\ ~(i <= 1)
        BY <1>1, <3>2
      <4> QED
        BY <1>5, <4>1
    <3> QED
      BY <3>1, <3>2
  <2>3. bare = SubSeq(t, 2, N)
    <3> DEFINE c == 1
    <3>1. c \in {0, 1} /\ c <= Len(t) /\ c + 1 = 2
      BY <1>1, <2>1
    <3>2. \A i \in 1 .. Len(t) : b[i] = IF i <= c THEN <<>> ELSE <<t[i]>>
      BY <2>2
    <3>3. b \in Seq(Seq(Vocabulary)) /\ Len(b) = Len(t)
      BY <1>4
    <3> HIDE DEF c
    <3>4. bare = SubSeq(t, c + 1, Len(t))
      BY <3>1, <3>2, <3>3, FlattenedFrom
    <3> QED
      BY <3>1, <3>4
  <2>4. bare = Tail(t)
    BY <1>8, <2>3, TailIsSubSeq
  <2>5. t \notin Dates
    BY <1>1, <1>3, <1>8, <2>1
  <2> HIDE DEF bare
  <2> QED
    BY <1>2, <1>8, <2>4, <2>5 DEF Due
<1>9. CASE t # <<>> /\ t[1] # "next"
  <2>1. \A i \in 1 .. N : b[i] = IF i <= 0 THEN <<>> ELSE <<t[i]>>
    <3> TAKE i \in 1 .. N
    <3>1. t[i] # "next"
      <4>1. i = 1 \/ i \in 2 .. N
        BY <1>1
      <4> QED
        BY <1>9, <4>1
    <3> QED
      BY <1>5, <3>1
  <2>2. bare = SubSeq(t, 0 + 1, N)
    BY <1>1, <1>4, <2>1, FlattenedFrom
  <2>3. bare = t
    BY <2>2, SubSeqFull
  <2> HIDE DEF bare
  <2> QED
    BY <1>2, <1>9, <2>3 DEF Due
<1> QED
  BY <1>6, <1>7, <1>8, <1>9

\* The title is the first of what it may be taken from.
LEMMA FirstOfTwo ==
    ASSUME NEW x, NEW y
    PROVE  FirstOf(<<x, y>>) = IF x # <<>> THEN x ELSE y
<1> DEFINE t == <<x, y>>
           spoken == {k \in DOMAIN t : t[k] # <<>>}
<1>1. DOMAIN t = {1, 2} /\ t[1] = x /\ t[2] = y
  OBVIOUS
<1>2. FirstOf(t) = IF spoken = {} THEN <<>> ELSE t[Min(spoken)]
  BY DEF FirstOf
<1> HIDE DEF t
<1>3. spoken \in SUBSET Int
  BY <1>1
<1>4. CASE x # <<>>
  <2>1. 1 \in spoken /\ \A k \in spoken : 1 <= k
    BY <1>1, <1>4
  <2> HIDE DEF spoken
  <2>2. Min(spoken) = 1 /\ spoken # {}
    BY <1>3, <2>1, MinIs
  <2> QED
    BY <1>1, <1>2, <1>4, <2>2 DEF t
<1>5. CASE x = <<>> /\ y # <<>>
  <2>1. 2 \in spoken /\ \A k \in spoken : 2 <= k
    BY <1>1, <1>5
  <2> HIDE DEF spoken
  <2>2. Min(spoken) = 2 /\ spoken # {}
    BY <1>3, <2>1, MinIs
  <2> QED
    BY <1>1, <1>2, <1>5, <2>2 DEF t
<1>6. CASE x = <<>> /\ y = <<>>
  <2>1. spoken = {}
    BY <1>1, <1>6
  <2> QED
    BY <1>2, <1>6, <2>1 DEF t
<1> QED
  BY <1>4, <1>5, <1>6

LEMMA FirstOfThree ==
    ASSUME NEW x, NEW y, NEW z
    PROVE  FirstOf(<<x, y, z>>) = FirstOf(<<FirstOf(<<x, y>>), z>>)
<1> DEFINE t == <<x, y, z>>
           spoken == {k \in DOMAIN t : t[k] # <<>>}
<1>1. DOMAIN t = {1, 2, 3} /\ t[1] = x /\ t[2] = y /\ t[3] = z
  OBVIOUS
<1>2. FirstOf(t) = IF spoken = {} THEN <<>> ELSE t[Min(spoken)]
  BY DEF FirstOf
<1>3. FirstOf(<<FirstOf(<<x, y>>), z>>) =
         IF x # <<>> THEN x ELSE IF y # <<>> THEN y ELSE z
  <2>1. FirstOf(<<x, y>>) = IF x # <<>> THEN x ELSE y
    BY FirstOfTwo
  <2> DEFINE h == FirstOf(<<x, y>>)
  <2> HIDE DEF h
  <2>2. FirstOf(<<h, z>>) = IF h # <<>> THEN h ELSE z
    BY FirstOfTwo
  <2> QED
    BY <2>1, <2>2 DEF h
<1> HIDE DEF t
<1>4. spoken \in SUBSET Int
  BY <1>1
<1>5. CASE x # <<>>
  <2>1. 1 \in spoken /\ \A k \in spoken : 1 <= k
    BY <1>1, <1>5
  <2> HIDE DEF spoken
  <2>2. Min(spoken) = 1 /\ spoken # {}
    BY <1>4, <2>1, MinIs
  <2> QED
    BY <1>1, <1>2, <1>3, <1>5, <2>2 DEF t
<1>6. CASE x = <<>> /\ y # <<>>
  <2>1. 2 \in spoken /\ \A k \in spoken : 2 <= k
    BY <1>1, <1>6
  <2> HIDE DEF spoken
  <2>2. Min(spoken) = 2 /\ spoken # {}
    BY <1>4, <2>1, MinIs
  <2> QED
    BY <1>1, <1>2, <1>3, <1>6, <2>2 DEF t
<1>7. CASE x = <<>> /\ y = <<>> /\ z # <<>>
  <2>1. 3 \in spoken /\ \A k \in spoken : 3 <= k
    BY <1>1, <1>7
  <2> HIDE DEF spoken
  <2>2. Min(spoken) = 3 /\ spoken # {}
    BY <1>4, <2>1, MinIs
  <2> QED
    BY <1>1, <1>2, <1>3, <1>7, <2>2 DEF t
<1>8. CASE x = <<>> /\ y = <<>> /\ z = <<>>
  <2>1. spoken = {}
    BY <1>1, <1>8
  <2> QED
    BY <1>2, <1>3, <1>8, <2>1 DEF t
<1> QED
  BY <1>5, <1>6, <1>7, <1>8

-----------------------------------------------------------------------------
\* The parser: what a segment is parsed as.

\* Where the parser finds the operation, the table, and what follows them.
ParsedAs(seg, u) ==
    LET tables == {i \in DOMAIN seg : seg[i] \in Tables}
    IN  /\ tables # {} /\ seg[1] = u.operation /\ seg[Min(tables)] = u.table
        /\ From(seg, Min(tables) + 1) = Rest(u)

LEMMA SegmentParsed ==
    ASSUME NEW u \in Utterance, Grammatical(u)
    PROVE  ParsedAs(Segment(u), u)
<1> DEFINE seg == Segment(u)
           h == UpToTable(u)
           r == Rest(u)
           l == u.lead
           c == Len(l)
           m == c + 2
           tables == {i \in DOMAIN seg : seg[i] \in Tables}
<1>1. /\ u.operation \in Operations /\ u.table \in Tables /\ l \in Seq(Vocabulary)
  BY UtteranceIs DEF UtteranceTyped
<1>2. ToSet(l) \cap Tables = {}
  BY DEF Grammatical
<1>3. HeadSaid(h, u)
  BY HeadIs
<1>4. /\ seg \in Seq(Vocabulary) /\ seg = h \o r /\ Joins(seg, h, r)
      /\ seg[1] = u.operation
  BY SegmentIs
<1>5. r \in Seq(Vocabulary)
  BY RestIs
<1>6. Len(seg) \in Nat /\ DOMAIN seg = 1 .. Len(seg) /\ DOMAIN l = 1 .. c
  BY <1>1, <1>4, LenProperties
<1>7. /\ h \in Seq(Vocabulary) /\ c \in Nat /\ Len(h) = m
      /\ h[1] = u.operation /\ h[m] = u.table
      /\ \A i \in 1 .. c : h[i + 1] = l[i]
  BY <1>3 DEF HeadSaid
<1> HIDE DEF seg, h, r, l, c
<1>8. Len(h) <= Len(seg) /\ \A i \in 1 .. Len(h) : seg[i] = h[i]
  BY <1>4, <1>7 DEF Joins
<1>9. m \in tables
  <2>1. m \in 1 .. Len(h) /\ m \in 1 .. Len(seg)
    BY <1>6, <1>7, <1>8
  <2> QED
    BY <1>1, <1>6, <1>7, <1>8, <2>1
<1>10. ASSUME NEW i \in tables PROVE m <= i
  <2> SUFFICES ASSUME i < m PROVE FALSE
    BY <1>6, <1>7
  <2>1. i \in 1 .. Len(h) /\ seg[i] \in Tables
    BY <1>6, <1>7
  <2>2. seg[i] = h[i]
    BY <1>8, <2>1
  <2>3. CASE i = 1
    <3>1. seg[1] \in Operations
      BY <1>1, <1>4
    <3> QED
      BY <2>1, <2>3, <3>1, WordsApart
  <2>4. CASE i # 1
    <3>1. i - 1 \in 1 .. c /\ i - 1 + 1 = i
      BY <1>6, <1>7, <2>1, <2>4
    <3>2. h[i] = l[i - 1]
      BY <1>7, <3>1
    <3>3. l[i - 1] \notin Tables
      BY <1>2, <1>6, <3>1 DEF ToSet
    <3> QED
      BY <2>1, <2>2, <3>2, <3>3
  <2> QED
    BY <2>3, <2>4
<1>11. tables \in SUBSET Int
  BY <1>6
<1>12. Min(tables) = m
  <2> HIDE DEF tables, m
  <2> QED
    BY <1>9, <1>10, <1>11, MinIs
<1>13. SubSeq(seg, m + 1, Len(seg)) = r
  <2>1. SubSeq(h \o r, Len(h) + 1, Len(h \o r)) = r
    BY <1>5, <1>7, FirstOfJoined
  <2> HIDE DEF m
  <2> QED
    BY <1>4, <1>7, <2>1
<1>14. seg[m] = u.table
  <2>1. m \in 1 .. Len(h)
    BY <1>7
  <2> QED
    BY <1>7, <1>8, <2>1
<1> HIDE DEF m
<1>15. tables # {} /\ seg[1] = u.operation /\ seg[Min(tables)] = u.table
       /\ From(seg, Min(tables) + 1) = r
  BY <1>4, <1>9, <1>12, <1>13, <1>14 DEF From
<1>16. ParsedAs(seg, u)
  BY <1>15 DEF ParsedAs, r
<1> QED
  BY <1>16 DEF seg

\* So a segment is parsed as a task, a note or another command of that table.
LEMMA ParseSegmentIs ==
    ASSUME NEW u \in Utterance, Grammatical(u)
    PROVE  /\ u.operation = "create" /\ u.table = "task" =>
                 ParseSegment(Segment(u)) =
                     BuildTask(Preamble(Rest(u)), Dimensions(Rest(u), "task"))
           /\ u.operation = "create" /\ u.table = "note" =>
                 ParseSegment(Segment(u)) =
                     BuildNote(Preamble(Rest(u)), Dimensions(Rest(u), "note"))
           /\ u.operation # "create" =>
                 ParseSegment(Segment(u)) = BuildCommand(u.operation, u.table, Rest(u))
<1> DEFINE seg == Segment(u)
           tables == {i \in DOMAIN seg : seg[i] \in Tables}
           body == From(seg, Min(tables) + 1)
<1>1. /\ tables # {} /\ seg[1] = u.operation /\ seg[Min(tables)] = u.table
      /\ body = Rest(u)
  BY SegmentParsed DEF ParsedAs
<1>2. ParseSegment(seg) =
         CASE tables = {} -> Parsed("errors", "unrecognized")
           [] tables # {} /\ seg[1] = "create" /\ seg[Min(tables)] = "task" ->
                 BuildTask(Preamble(body), Dimensions(body, seg[Min(tables)]))
           [] tables # {} /\ seg[1] = "create" /\ seg[Min(tables)] = "note" ->
                 BuildNote(Preamble(body), Dimensions(body, seg[Min(tables)]))
           [] OTHER -> BuildCommand(seg[1], seg[Min(tables)], body)
  BY DEF ParseSegment
<1> HIDE DEF tables, body
<1>3. CASE u.operation = "create" /\ u.table = "task"
  BY <1>1, <1>2, <1>3
<1>4. CASE u.operation = "create" /\ u.table = "note"
  BY <1>1, <1>2, <1>4
<1>5. CASE u.operation # "create"
  BY <1>1, <1>2, <1>5
<1>6. u.table \in {"task", "note"}
  BY UtteranceIs, WordsApart DEF UtteranceTyped
<1> QED
  BY <1>3, <1>4, <1>5, <1>6

\* What is said for a key is a phrase; as a date and as a priority it is read as meant.
LEMMA SaidTyped ==
    ASSUME NEW u \in Utterance, NEW key PROVE Said(u, key) \in Seq(Vocabulary)
<1>1. DOMAIN u.dims = 1 .. Len(u.dims)
      /\ \A k \in 1 .. Len(u.dims) : u.dims[k].value \in Seq(Vocabulary)
  BY UtteranceIs DEF UtteranceTyped
<1>2. CASE Given(u, key) = {}
  <2>1. Said(u, key) = <<>>
    BY <1>2, SaidIs
  <2> QED
    BY <2>1, EmptySeq
<1>3. CASE Given(u, key) # {}
  <2>1. PICK l \in Given(u, key) : Said(u, key) = u.dims[l].value
    BY <1>3, SaidIs
  <2>2. l \in 1 .. Len(u.dims)
    BY <1>1 DEF Given
  <2> QED
    BY <1>1, <2>1, <2>2
<1> QED
  BY <1>2, <1>3

LEMMA DateSaid ==
    ASSUME NEW u \in Utterance, Grammatical(u)
    PROVE  NormalizeDate(Said(u, "date")) = Due(Said(u, "date"))
<1>1. Said(u, "date") \in Seq(Vocabulary)
  BY SaidTyped
<1>2. \A i \in 2 .. Len(Said(u, "date")) : Said(u, "date")[i] # "next"
  <2>1. CASE Given(u, "date") = {}
    <3>1. Said(u, "date") = <<>>
      BY <2>1, SaidIs
    <3> QED
      BY <3>1
  <2>2. CASE Given(u, "date") # {}
    <3>1. PICK l \in Given(u, "date") : Said(u, "date") = u.dims[l].value
      BY <2>2, SaidIs
    <3>2. l \in DOMAIN u.dims /\ u.dims[l].key = "date"
      BY DEF Given
    <3> QED
      BY <3>1, <3>2 DEF Grammatical
  <2> QED
    BY <2>1, <2>2
<1> QED
  BY <1>1, <1>2, DateIs

LEMMA PrioritySaid ==
    ASSUME NEW t \in Seq(Vocabulary)
    PROVE  NormalizePriority(t) =
               IF \E p \in Priorities : t = <<p>> THEN t[1] ELSE "medium"
<1>1. ASSUME NEW p, t = <<p>> PROVE Len(t) = 1 /\ t[1] = p
  BY <1>1
<1>2. ASSUME Len(t) = 1 PROVE t = <<t[1]>>
  <2> DEFINE x == <<t[1]>>
  <2>1. t[1] \in Vocabulary
    BY <1>2, ElementOfSeq
  <2>2. x \in Seq(Vocabulary) /\ Len(x) = 1 /\ x[1] = t[1]
    BY <2>1
  <2> HIDE DEF x
  <2>3. \A i \in 1 .. 1 : t[i] = x[i]
    BY <2>2
  <2>4. t = x
    BY <1>2, <2>2, <2>3, SeqEqual
  <2> QED
    BY <2>4 DEF x
<1>3. (\E p \in Priorities : t = <<p>>) <=> Len(t) = 1 /\ t[1] \in Priorities
  BY <1>1, <1>2
<1> QED
  BY <1>3 DEF NormalizePriority

\* A segment is parsed as what was meant by it: a task, a note, a command on a row.
LEMMA RestOfCreate ==
    ASSUME NEW u \in Utterance, Grammatical(u), u.operation = "create"
    PROVE  Rest(u) = Details(u)
<1>1. u.number = <<>>
  BY DEF Grammatical
<1>2. Details(u) \in Seq(Vocabulary)
  BY DetailsAre
<1> QED
  BY <1>1, <1>2, ConcatEmptySeq DEF Rest

LEMMA TaskMeant ==
    ASSUME NEW u \in Utterance, Grammatical(u), u.heading = StripFillers(u.preamble),
           u.operation = "create", u.table = "task"
    PROVE  ParseSegment(Segment(u)) = Meaning(u)
<1> DEFINE d == Dimensions(Details(u), "task")
           content == Said(u, "content")
           title == FirstOf(<<FirstOf(<<Said(u, "title"), u.heading>>), content>>)
           data == [title |-> title, description |-> content,
                    due_date |-> Due(Said(u, "date")),
                    priority |-> NormalizePriority(Said(u, "priority")),
                    label |-> Said(u, "label")]
<1>1. ParseSegment(Segment(u)) = BuildTask(u.heading, d)
  BY ParseSegmentIs, RestOfCreate, PreambleIs
<1>2. \A key \in {"title", "content", "date", "priority", "label"} :
         Get(d, key) = Said(u, key)
  <2>1. "task" \in Tables
    BY WordsApart
  <2>2. \A key \in {"title", "content", "date", "priority", "label"} :
           key \in TableDimensions["task"]
    BY DEF TableDimensions
  <2> QED
    BY <2>1, <2>2, GetIs
<1>3. NormalizeDate(Said(u, "date")) = Due(Said(u, "date"))
  BY DateSaid
<1>4. FirstOf(<<Said(u, "title"), u.heading, content>>) = title
  BY FirstOfThree
<1>5. NormalizePriority(Said(u, "priority")) =
         IF \E p \in Priorities : Said(u, "priority") = <<p>>
         THEN Said(u, "priority")[1] ELSE "medium"
  BY SaidTyped, PrioritySaid
<1> HIDE DEF d
<1>6. BuildTask(u.heading, d) =
         IF title = <<>> THEN Parsed("errors", "task missing title")
         ELSE Parsed("tasks", data)
  <2> HIDE DEF title
  <2> QED
    BY <1>2, <1>3, <1>4 DEF BuildTask
<1>7. data = [title |-> title, description |-> content,
              due_date |-> Due(Said(u, "date")),
              priority |-> IF \E p \in Priorities : Said(u, "priority") = <<p>>
                           THEN Said(u, "priority")[1] ELSE "medium",
              label |-> Said(u, "label")]
  <2> HIDE DEF title
  <2> QED
    BY <1>5
<1> HIDE DEF data
<1>8. CASE title = <<>>
  <2>1. Meaning(u) = Parsed("errors", "task missing title")
    BY <1>8 DEF Meaning
  <2> HIDE DEF title
  <2> QED
    BY <1>1, <1>6, <1>8, <2>1
<1>9. CASE title # <<>>
  <2>1. Meaning(u) = Parsed("tasks", data)
    BY <1>7, <1>9 DEF Meaning
  <2> HIDE DEF title
  <2> QED
    BY <1>1, <1>6, <1>9, <2>1
<1> QED
  BY <1>8, <1>9

LEMMA NoteMeant ==
    ASSUME NEW u \in Utterance, Grammatical(u), u.heading = StripFillers(u.preamble),
           u.operation = "create", u.table = "note"
    PROVE  ParseSegment(Segment(u)) = Meaning(u)
<1> DEFINE d == Dimensions(Details(u), "note")
           content == Said(u, "content")
           title == FirstOf(<<Said(u, "title"), u.heading>>)
           data == [title |-> title, content |-> content,
                    tag |-> Said(u, "tag"), noted_at |-> Due(Said(u, "date"))]
<1>1. ParseSegment(Segment(u)) = BuildNote(u.heading, d)
  BY ParseSegmentIs, RestOfCreate, PreambleIs
<1>2. \A key \in {"title", "content", "tag", "date"} : Get(d, key) = Said(u, key)
  <2>1. "note" \in Tables
    BY WordsApart
  <2>2. \A key \in {"title", "content", "tag", "date"} : key \in TableDimensions["note"]
    BY DEF TableDimensions
  <2> QED
    BY <2>1, <2>2, GetIs
<1>3. NormalizeDate(Said(u, "date")) = Due(Said(u, "date"))
  BY DateSaid
<1> HIDE DEF d
<1>4. BuildNote(u.heading, d) =
         IF content = <<>> THEN Parsed("errors", "note missing content")
         ELSE Parsed("notes", data)
  BY <1>2, <1>3 DEF BuildNote
<1>5. CASE content = <<>>
  <2>1. Meaning(u) = Parsed("errors", "note missing content")
    BY <1>5 DEF Meaning
  <2> QED
    BY <1>1, <1>4, <1>5, <2>1
<1>6. CASE content # <<>>
  <2>1. Meaning(u) = Parsed("notes", data)
    BY <1>6 DEF Meaning
  <2> QED
    BY <1>1, <1>4, <1>6, <2>1
<1> QED
  BY <1>5, <1>6

\* Without a number of its own an utterance has none.
LEMMA NoNumberIn ==
    ASSUME NEW u \in Utterance, Grammatical(u), u.operation # "create", u.number = <<>>
    PROVE  \A i \in DOMAIN Rest(u) : Rest(u)[i] \notin Number
<1> DEFINE D == Details(u)
           p == u.preamble
           n == Len(u.dims)
<1>1. Rest(u) = D
  BY DetailsAre, ConcatEmptySeq DEF Rest
<1>2. PICK s : DimsLaid(u, s)
  BY DetailsAre
<1> DEFINE b == DimBlocks(u)
<1>3. /\ Laid(D, p, b, s) /\ Len(b) = n
      /\ \A k \in 1 .. n : DimSaid(b[k], u.dims[k])
  BY <1>2 DEF DimsLaid
<1>4. DOMAIN D = 1 .. Len(D)
  BY DetailsAre, LenProperties
<1>5. /\ \A k \in 1 .. n : u.dims[k].key \in Keys /\ u.dims[k].value \in Seq(Vocabulary)
      /\ DOMAIN u.dims = 1 .. n
      /\ p \in Seq(Vocabulary)
  BY UtteranceIs DEF UtteranceTyped
<1>6. /\ ToSet(p) \cap Number = {}
      /\ \A k \in 1 .. n : ToSet(u.dims[k].value) \cap Number = {}
  BY <1>5 DEF Grammatical
<1> HIDE DEF D, p, n, b
<1>7. \A i \in 1 .. Len(p) : p[i] \notin Number
  <2>1. DOMAIN p = 1 .. Len(p)
    BY <1>5, LenProperties
  <2> QED
    BY <1>6, <2>1 DEF ToSet
<1>8. ASSUME NEW k \in 1 .. n, NEW j \in 1 .. Len(b[k]) PROVE b[k][j] \notin Number
  <2> DEFINE v == u.dims[k].value
  <2>1. /\ Len(v) \in Nat /\ Len(b[k]) = 3 + Len(v)
        /\ b[k][1] = "dimension" /\ b[k][2] \in Keys /\ b[k][3] = "value"
        /\ \A i \in 1 .. Len(v) : b[k][3 + i] = v[i]
    BY <1>3, <1>5 DEF DimSaid
  <2>2. \A i \in 1 .. Len(v) : v[i] \notin Number
    <3>1. DOMAIN v = 1 .. Len(v)
      BY <1>5, LenProperties
    <3>2. ToSet(v) \cap Number = {}
      BY <1>6
    <3> QED
      BY <3>1, <3>2 DEF ToSet
  <2> HIDE DEF v
  <2>3. CASE j <= 3
    <3>1. j \in {1, 2, 3}
      BY <2>1, <2>3
    <3> QED
      BY <2>1, <3>1, WordsApart
  <2>4. CASE ~(j <= 3)
    <3>1. j - 3 \in 1 .. Len(v) /\ 3 + (j - 3) = j
      BY <2>1, <2>4
    <3> QED
      BY <2>1, <2>2, <3>1
  <2> QED
    BY <2>3, <2>4
<1>9. ASSUME NEW i \in 1 .. Len(D) PROVE D[i] \notin Number
  <2>1. /\ Len(p) \in Nat /\ Len(D) \in Nat
        /\ \A l \in 1 .. Len(p) : D[l] = p[l]
        /\ \A k \in 1 .. n : \A j \in 1 .. Len(b[k]) : D[s[k] + j] = b[k][j]
        /\ i <= Len(p) \/ \E k \in 1 .. n : \E j \in 1 .. Len(b[k]) : i = s[k] + j
    BY <1>3 DEF Laid
  <2>2. CASE i <= Len(p)
    <3>1. i \in 1 .. Len(p)
      BY <2>1, <2>2
    <3> QED
      BY <1>7, <2>1, <3>1
  <2>3. CASE \E k \in 1 .. n : \E j \in 1 .. Len(b[k]) : i = s[k] + j
    BY <1>8, <2>1, <2>3
  <2> QED
    BY <2>1, <2>2, <2>3
<1> QED
  BY <1>1, <1>4, <1>9

LEMMA CommandMeant ==
    ASSUME NEW u \in Utterance, Grammatical(u), u.operation # "create"
    PROVE  ParseSegment(Segment(u)) = Meaning(u)
<1> DEFINE r == Rest(u)
           numbers == {i \in DOMAIN r : r[i] \in Number}
           d == Dimensions(Details(u), u.table)
           none == [key \in {} |-> <<>>]
           told == [key \in {key \in {u.dims[k].key : k \in DOMAIN u.dims}
                                        \cap TableDimensions[u.table] :
                               u.operation = "update" /\ Said(u, key) # <<>>}
                       |-> Said(u, key)]
<1>1. ParseSegment(Segment(u)) = BuildCommand(u.operation, u.table, r)
  BY ParseSegmentIs
<1>2. BuildCommand(u.operation, u.table, r) =
         IF numbers = {} THEN Parsed("errors", "unrecognized")
         ELSE Parsed("commands",
                     [operation |-> u.operation, table |-> u.table,
                      target_id |-> r[Min(numbers)],
                      dimensions |->
                         IF u.operation = "update"
                         THEN Dimensions(From(r, Min(numbers) + 1), u.table)
                         ELSE none])
  BY DEF BuildCommand
<1>3. CASE u.number = <<>>
  <2>1. numbers = {}
    BY <1>3, NoNumberIn
  <2> HIDE DEF numbers
  <2>2. Meaning(u) = Parsed("errors", "unrecognized")
    BY <1>3 DEF Meaning
  <2> QED
    BY <1>1, <1>2, <2>1, <2>2
<1>4. CASE u.number # <<>>
  <2> DEFINE a == u.number
             D == Details(u)
  <2>1. /\ a \in Seq(Number) /\ a \in Seq(Vocabulary) /\ D \in Seq(Vocabulary)
        /\ Len(a) <= 1
    BY UtteranceIs, RestIs, DetailsAre DEF UtteranceTyped, Grammatical
  <2>2. Len(a) = 1 /\ a[1] \in Number
    <3>1. Len(a) \in Nat /\ Len(a) # 0
      BY <1>4, <2>1, EmptySeq, LenProperties
    <3>2. 1 \in 1 .. Len(a) /\ a \in Seq(Number) /\ Len(a) <= 1
      BY <2>1, <3>1
    <3> HIDE DEF a
    <3>3. a[1] \in Number
      BY <3>2, ElementOfSeq
    <3> QED
      BY <3>1, <3>2, <3>3
  <2>3. r = a \o D
    BY DEF Rest
  <2> HIDE DEF a, D, r
  <2>4. r \in Seq(Vocabulary) /\ Joins(r, a, D)
    BY <2>1, <2>3, Joined
  <2>5. DOMAIN r = 1 .. Len(r) /\ Len(r) \in Nat /\ Len(r) >= 1 /\ r[1] = a[1]
    <3>1. DOMAIN r = 1 .. Len(r) /\ Len(r) \in Nat
      BY <2>4, LenProperties
    <3>2. 1 \in 1 .. Len(a)
      BY <2>2
    <3> QED
      BY <2>2, <2>4, <3>1, <3>2 DEF Joins
  <2>6. 1 \in numbers /\ numbers \in SUBSET Int /\ \A i \in numbers : 1 <= i
    BY <2>2, <2>5
  <2>7. Min(numbers) = 1 /\ numbers # {}
    <3> HIDE DEF numbers
    <3> QED
      BY <2>6, MinIs
  <2>8. From(r, Min(numbers) + 1) = D
    <3>1. SubSeq(r, Len(a) + 1, Len(r)) = D
      BY <2>1, <2>3, FirstOfJoined
    <3> HIDE DEF numbers
    <3> QED
      BY <2>2, <2>7, <3>1 DEF From
  <2>9. (IF u.operation = "update" THEN Dimensions(D, u.table) ELSE none) = told
    <3>1. CASE u.operation = "update"
      <4>1. u.table \in Tables
        BY UtteranceIs DEF UtteranceTyped
      <4>2. Dimensions(D, u.table) = [key \in Heard(u, u.table) |-> Said(u, key)]
        BY <4>1, DimensionsAre DEF D
      <4> QED
        BY <3>1, <4>2 DEF Heard
    <3>2. CASE u.operation # "update"
      BY <3>2
    <3> QED
      BY <3>1, <3>2
  <2> DEFINE data == [operation |-> u.operation, table |-> u.table, target_id |-> a[1],
                      dimensions |-> told]
  <2>10. Meaning(u) = Parsed("commands", data)
    BY <1>4 DEF Meaning, a
  <2> HIDE DEF numbers, told, none
  <2>11. BuildCommand(u.operation, u.table, r) = Parsed("commands", data)
    BY <1>2, <2>5, <2>7, <2>8, <2>9
  <2> QED
    BY <1>1, <2>10, <2>11
<1> QED
  BY <1>3, <1>4

LEMMA ParsedMeant ==
    ASSUME NEW u \in Utterance, Grammatical(u), u.heading = StripFillers(u.preamble)
    PROVE  ParseSegment(Segment(u)) = Meaning(u)
<1>1. u.table \in {"task", "note"}
  BY UtteranceIs, WordsApart DEF UtteranceTyped
<1> QED
  BY <1>1, TaskMeant, NoteMeant, CommandMeant

-----------------------------------------------------------------------------
\* The parser: from segment to segment.

\* What the utterances of a speech mean for one of the lists.
MeantIn(sp, list) ==
    [k \in DOMAIN sp.utterances |->
        LET meant == Meaning(sp.utterances[k])
        IN  IF meant.list = list THEN <<meant.data>> ELSE <<>>]

\* The segments after the first n, and the lists once n are parsed.
Segments(sp, n) ==
    [k \in 1 .. Len(sp.utterances) - n |-> Segment(sp.utterances[n + k])]

Results(sp, n) == [list \in DOMAIN Empty |-> UpTo(MeantIn(sp, list), n)]

\* The first n utterances are parsed, and each has given its meaning.
ParsedTo(n) == todo = Segments(speech, n) /\ result = Results(speech, n)

\* The invariant: every segment that is no longer to be parsed has been understood.
ParserInv ==
    /\ speech \in Speeches
    /\ \E n \in 0 .. Len(speech.utterances) : ParsedTo(n)

\* One utterance more.
LEMMA MeantNext ==
    ASSUME NEW sp \in Speeches, NEW list, NEW n \in 0 .. Len(sp.utterances)
    PROVE  /\ Len(MeantIn(sp, list)) = Len(sp.utterances)
           /\ n = 0 => UpTo(MeantIn(sp, list), n) = <<>>
           /\ n < Len(sp.utterances) =>
                 UpTo(MeantIn(sp, list), n + 1) =
                    IF list = Meaning(sp.utterances[n + 1]).list
                    THEN Append(UpTo(MeantIn(sp, list), n), Meaning(sp.utterances[n + 1]).data)
                    ELSE UpTo(MeantIn(sp, list), n)
           /\ UpTo(MeantIn(sp, list), Len(sp.utterances)) = FlattenSeq(MeantIn(sp, list))
<1> DEFINE us == sp.utterances
           N == Len(us)
           data(k) == Meaning(us[k]).data
           S == {data(k) : k \in 1 .. N}
           b == MeantIn(sp, list)
           piece(k) == IF Meaning(us[k]).list = list THEN <<data(k)>> ELSE <<>>
<1>1. N \in Nat /\ DOMAIN us = 1 .. N
  BY SpeechIs DEF SpeechTyped
<1>2. b = [k \in 1 .. N |-> piece(k)]
  BY <1>1 DEF MeantIn
<1>3. \A k \in 1 .. N : data(k) \in S
  OBVIOUS
<1> HIDE DEF us, N, data, S, b
<1>4. \A k \in 1 .. N : piece(k) \in Seq(S)
  BY <1>3
<1>5. b \in Seq(Seq(S)) /\ Len(b) = N
  <2> HIDE DEF piece
  <2>1. b \in [1 .. N -> Seq(S)]
    BY <1>2, <1>4
  <2> QED
    BY <1>1, <2>1
<1>6. n \in 0 .. Len(b)
  BY <1>5 DEF N, us
<1>7. UpTo(b, n) \in Seq(S) /\ (n = 0 => UpTo(b, n) = <<>>)
  BY <1>5, <1>6, UpToNext
<1>8. ASSUME n < N
      PROVE  UpTo(b, n + 1) = IF list = Meaning(us[n + 1]).list
                              THEN Append(UpTo(b, n), data(n + 1)) ELSE UpTo(b, n)
  <2> DEFINE x == UpTo(b, n)
             e == b[n + 1]
  <2>1. n + 1 \in 1 .. N
    BY <1>1, <1>5, <1>6, <1>8
  <2>2. UpTo(b, n + 1) = x \o e
    BY <1>5, <1>6, <1>8, UpToNext
  <2>3. e = IF Meaning(us[n + 1]).list = list THEN <<data(n + 1)>> ELSE <<>>
    BY <1>2, <2>1
  <2>4. x \in Seq(S) /\ data(n + 1) \in S
    BY <1>3, <1>7, <2>1
  <2>5. Append(x, data(n + 1)) = x \o <<data(n + 1)>>
    <3> HIDE DEF x
    <3> QED
      BY <2>4, AppendIsConcat
  <2>6. x \o <<>> = x
    <3> HIDE DEF x
    <3> QED
      BY <2>4, ConcatEmptySeq
  <2> HIDE DEF x, e
  <2>7. UpTo(b, n + 1) = IF list = Meaning(us[n + 1]).list
                         THEN Append(x, data(n + 1)) ELSE x
    BY <2>2, <2>3, <2>5, <2>6
  <2> QED
    BY <2>7 DEF x
<1>9. UpTo(b, N) = FlattenSeq(b)
  BY <1>5, UpToAll
<1> QED
  BY <1>5, <1>7, <1>8, <1>9 DEF b, N, us, data

\* The text is cut into the segments of its utterances.
LEMMA ParserInitially == Init => ParserInv
<1> SUFFICES ASSUME Init PROVE ParserInv
  OBVIOUS
<1>1. speech \in Speeches
  BY DEF Init
<1> DEFINE us == speech.utterances
<1>2. Len(us) \in Nat
  BY <1>1, SpeechIs DEF SpeechTyped
<1>3. todo = Segments(speech, 0)
  <2>1. todo = [k \in 1 .. Len(us) |-> Segment(us[k])]
    <3>1. todo = SplitCommands(Transcription(speech))
      BY DEF Init, Transcription
    <3> QED
      BY <1>1, <3>1, SplitIs
  <2>2. Len(us) - 0 = Len(us) /\ \A k \in 1 .. Len(us) : 0 + k = k
    BY <1>2
  <2>3. Segments(speech, 0) = [k \in 1 .. Len(us) |-> Segment(us[k])]
    BY <2>2 DEF Segments
  <2> QED
    BY <2>1, <2>3
<1>4. result = Results(speech, 0)
  <2>1. 0 \in 0 .. Len(us)
    BY <1>2
  <2>2. \A list \in DOMAIN Empty : UpTo(MeantIn(speech, list), 0) = <<>>
    BY <1>1, <2>1, MeantNext
  <2>3. Empty = [list \in DOMAIN Empty |-> <<>>]
    BY DEF Empty
  <2>4. result = Empty
    BY DEF Init
  <2>5. Results(speech, 0) = [list \in DOMAIN Empty |-> <<>>]
    BY <2>2 DEF Results
  <2> QED
    BY <2>3, <2>4, <2>5
<1>5. ParsedTo(0) /\ 0 \in 0 .. Len(us)
  BY <1>2, <1>3, <1>4 DEF ParsedTo
<1> QED
  BY <1>1, <1>5 DEF ParserInv

\* The next segment is that of the next utterance.
LEMMA SegmentsLeft ==
    ASSUME NEW sp \in Speeches, NEW n \in 0 .. Len(sp.utterances)
    PROVE  /\ Segments(sp, n) = <<>> <=> n = Len(sp.utterances)
           /\ n < Len(sp.utterances) =>
                 /\ Head(Segments(sp, n)) = Segment(sp.utterances[n + 1])
                 /\ Tail(Segments(sp, n)) = Segments(sp, n + 1)
<1> DEFINE us == sp.utterances
           N == Len(us)
           S == {Segment(us[k]) : k \in 1 .. N}
           x == Segments(sp, n)
<1>1. N \in Nat
  BY SpeechIs DEF SpeechTyped
<1>2. \A m \in 0 .. N : /\ Segments(sp, m) = [k \in 1 .. N - m |-> Segment(us[m + k])]
                        /\ \A k \in 1 .. N - m : m + k \in 1 .. N
  BY <1>1 DEF Segments
<1>3. \A k \in 1 .. N : Segment(us[k]) \in S
  OBVIOUS
<1> HIDE DEF us, N, S
<1>4. ASSUME NEW m \in 0 .. N
      PROVE  /\ Segments(sp, m) \in Seq(S) /\ Len(Segments(sp, m)) = N - m
             /\ \A k \in 1 .. N - m : Segments(sp, m)[k] = Segment(us[m + k])
  <2> DEFINE y == Segments(sp, m)
  <2>1. y \in [1 .. N - m -> S]
    BY <1>2, <1>3
  <2>2. N - m \in Nat
    BY <1>1
  <2>3. \A k \in 1 .. N - m : y[k] = Segment(us[m + k])
    BY <1>2
  <2> HIDE DEF y
  <2>4. y \in Seq(S) /\ Len(y) = N - m
    BY <2>1, <2>2
  <2> QED
    BY <2>3, <2>4 DEF y
<1>5. n \in 0 .. N
  BY DEF N, us
<1>6. x \in Seq(S) /\ Len(x) = N - n
      /\ \A k \in 1 .. N - n : x[k] = Segment(us[n + k])
  BY <1>4, <1>5
<1> HIDE DEF x
<1>7. x = <<>> <=> n = N
  <2>1. x = <<>> <=> Len(x) = 0
    BY <1>6, EmptySeq
  <2> QED
    BY <1>1, <1>5, <1>6, <2>1
<1>8. ASSUME n < N
      PROVE  Head(x) = Segment(us[n + 1]) /\ Tail(x) = Segments(sp, n + 1)
  <2>1. x # <<>> /\ 1 \in 1 .. N - n /\ n + 1 \in 0 .. N
    BY <1>1, <1>5, <1>7, <1>8
  <2>2. Head(x) = x[1]
    BY <1>6, <2>1
  <2>3. /\ Tail(x) \in Seq(S) /\ Len(Tail(x)) = Len(x) - 1
        /\ \A i \in 1 .. Len(Tail(x)) : Tail(x)[i] = x[i + 1]
    BY <1>6, <2>1, HeadTailProperties
  <2> DEFINE y == Segments(sp, n + 1)
             z == Tail(x)
  <2>4. y \in Seq(S) /\ Len(y) = N - (n + 1)
        /\ \A k \in 1 .. N - (n + 1) : y[k] = Segment(us[n + 1 + k])
    BY <1>4, <2>1
  <2> HIDE DEF y, z
  <2>5. Len(z) = Len(y) /\ Len(y) = N - (n + 1)
    BY <1>1, <1>5, <1>6, <2>3, <2>4 DEF z
  <2>6. ASSUME NEW i \in 1 .. Len(y) PROVE z[i] = y[i]
    <3>1. i + 1 \in 1 .. N - n /\ n + (i + 1) = n + 1 + i
      BY <1>1, <1>5, <2>5
    <3>2. z[i] = x[i + 1]
      BY <2>3, <2>5 DEF z
    <3>3. x[i + 1] = Segment(us[n + (i + 1)])
      BY <1>6, <3>1
    <3>4. y[i] = Segment(us[n + 1 + i])
      BY <2>4, <2>5
    <3> QED
      BY <3>1, <3>2, <3>3, <3>4
  <2>7. z = y
    BY <2>3, <2>4, <2>5, <2>6, SeqEqual DEF z
  <2> QED
    BY <1>6, <2>1, <2>2, <2>7 DEF y, z
<1> QED
  BY <1>7, <1>8 DEF x, N, us

\* Parsing the next segment keeps the invariant.
LEMMA ParserInductive == ParserInv /\ [Next]_vars => ParserInv'
<1> SUFFICES ASSUME ParserInv, [Next]_vars PROVE ParserInv'
  OBVIOUS
<1>1. CASE UNCHANGED vars
  BY <1>1 DEF vars, ParserInv, ParsedTo
<1>2. CASE ParseNext
  <2> DEFINE us == speech.utterances
             N == Len(us)
  <2>1. speech \in Speeches /\ speech' = speech
    BY <1>2 DEF ParserInv, ParseNext
  <2>2. PICK n \in 0 .. N : ParsedTo(n)
    BY DEF ParserInv
  <2>3. N \in Nat /\ \A k \in 1 .. N : /\ us[k] \in Utterance /\ Grammatical(us[k])
                                       /\ us[k].heading = StripFillers(us[k].preamble)
    BY <2>1, SpeechIs DEF SpeechTyped
  <2>4. n # N
    BY <1>2, <2>1, <2>2, SegmentsLeft DEF ParseNext, ParsedTo
  <2>5. n < N /\ n + 1 \in 1 .. N /\ n + 1 \in 0 .. N
    BY <2>3, <2>4
  <2> DEFINE u == us[n + 1]
             meant == Meaning(u)
  <2>6. ParseSegment(Head(todo)) = meant
    <3>1. Head(todo) = Segment(u)
      BY <2>1, <2>2, <2>5, SegmentsLeft DEF ParsedTo
    <3> QED
      BY <2>3, <2>5, <3>1, ParsedMeant
  <2>7. todo' = Segments(speech, n + 1)
    BY <1>2, <2>1, <2>2, <2>5, SegmentsLeft DEF ParseNext, ParsedTo
  <2>8. result' = [result EXCEPT ![meant.list] = Append(@, meant.data)]
    <3> HIDE DEF meant
    <3> QED
      BY <1>2, <2>6 DEF ParseNext
  <2>9. \A list : UpTo(MeantIn(speech, list), n + 1) =
                    IF list = meant.list
                    THEN Append(UpTo(MeantIn(speech, list), n), meant.data)
                    ELSE UpTo(MeantIn(speech, list), n)
    BY <2>1, <2>5, MeantNext
  <2>10. result = [list \in DOMAIN Empty |-> UpTo(MeantIn(speech, list), n)]
    BY <2>2 DEF ParsedTo, Results
  <2>11. result' = Results(speech, n + 1)
    <3> HIDE DEF meant
    <3>1. result' = [list \in DOMAIN Empty |->
                        IF list = meant.list THEN Append(result[list], meant.data)
                        ELSE result[list]]
      BY <2>8, <2>10
    <3>2. result' = [list \in DOMAIN Empty |-> UpTo(MeantIn(speech, list), n + 1)]
      BY <2>9, <2>10, <3>1
    <3> QED
      BY <3>2 DEF Results
  <2>12. ParsedTo(n + 1)'
    BY <2>1, <2>7, <2>11 DEF ParsedTo
  <2> QED
    BY <2>1, <2>5, <2>12 DEF ParserInv
<1> QED
  BY <1>1, <1>2 DEF Next

LEMMA ParserUnderstands == ParserInv => Understood
<1> SUFFICES ASSUME ParserInv, todo = <<>>, NEW list \in DOMAIN Empty
             PROVE  result[list] = FlattenSeq(MeantIn(speech, list))
  BY DEF Understood, MeantIn
<1>1. PICK n \in 0 .. Len(speech.utterances) : ParsedTo(n)
  BY DEF ParserInv
<1>2. speech \in Speeches
  BY DEF ParserInv
<1>3. n = Len(speech.utterances)
  BY <1>1, <1>2, SegmentsLeft DEF ParsedTo
<1>4. result[list] = UpTo(MeantIn(speech, list), n)
  BY <1>1 DEF ParsedTo, Results
<1> QED
  BY <1>2, <1>3, <1>4, MeantNext

\* Of any transcription that was said by the grammar (parse_transcription): every
\* command gives its own meaning, in order, whatever comes before or after it,
\* with keywords inside values and with fillers around its parts.
THEOREM UnderstoodTheorem == Spec => []Understood
<1>1. Spec => []ParserInv
  BY ParserInitially, ParserInductive, PTL DEF Spec
<1> QED
  BY <1>1, ParserUnderstands, PTL

-----------------------------------------------------------------------------
\* The word grid. The words of a page are sorted by counting, for each of them, the
\* words that are read before it: a strict order of a finite set gives every element
\* a rank of its own.

\* A strict order of all elements of a finite set.
Orders(R, S) ==
    /\ \A x \in S : <<x, x>> \notin R
    /\ \A x \in S, y \in S : x # y => <<x, y>> \in R \/ <<y, x>> \in R
    /\ \A x \in S, y \in S, z \in S : <<x, y>> \in R /\ <<y, z>> \in R => <<x, z>> \in R

Preceding(R, S, x) == {y \in S : <<y, x>> \in R}

Rank(R, S, x) == Cardinality(Preceding(R, S, x))

LEMMA RankIs ==
    ASSUME NEW R, NEW S, IsFiniteSet(S), Orders(R, S), NEW x \in S
    PROVE  /\ Rank(R, S, x) \in 0 .. Cardinality(S) - 1
           /\ \A y \in S : <<x, y>> \in R => Rank(R, S, x) < Rank(R, S, y)
<1>1. \A y \in S : IsFiniteSet(Preceding(R, S, y)) /\ Rank(R, S, y) \in Nat
  <2> SUFFICES ASSUME NEW y \in S
               PROVE  IsFiniteSet(Preceding(R, S, y)) /\ Rank(R, S, y) \in Nat
    OBVIOUS
  <2>1. Preceding(R, S, y) \in SUBSET S
    BY DEF Preceding
  <2> QED
    BY <2>1, FS_Subset, FS_CardinalityType DEF Rank
<1>2. ASSUME NEW y \in S, <<x, y>> \in R PROVE Rank(R, S, x) < Rank(R, S, y)
  <2>1. Preceding(R, S, x) \in SUBSET Preceding(R, S, y)
    BY <1>2 DEF Preceding, Orders
  <2>2. x \in Preceding(R, S, y) /\ x \notin Preceding(R, S, x)
    BY <1>2 DEF Preceding, Orders
  <2>3. /\ Cardinality(Preceding(R, S, x)) <= Cardinality(Preceding(R, S, y))
        /\ Cardinality(Preceding(R, S, y)) = Cardinality(Preceding(R, S, x))
              => Preceding(R, S, y) = Preceding(R, S, x)
    BY <1>1, <2>1, FS_Subset
  <2> QED
    BY <1>1, <2>2, <2>3 DEF Rank
<1>3. Rank(R, S, x) <= Cardinality(S) - 1
  <2>1. Preceding(R, S, x) \in SUBSET (S \ {x})
    BY DEF Preceding, Orders
  <2>2. IsFiniteSet(S \ {x}) /\ Cardinality(S \ {x}) = Cardinality(S) - 1
    BY FS_RemoveElement
  <2> QED
    BY <2>1, <2>2, FS_Subset DEF Rank
<1> QED
  BY <1>1, <1>2, <1>3, FS_CardinalityType

\* Every rank is some element's, and of one only.
LEMMA RanksAre ==
    ASSUME NEW R, NEW S, IsFiniteSet(S), Orders(R, S)
    PROVE  /\ Cardinality(S) \in Nat
           /\ \A x \in S, y \in S : Rank(R, S, x) = Rank(R, S, y) => x = y
           /\ \A k \in 1 .. Cardinality(S) : \E x \in S : Rank(R, S, x) = k - 1
<1> DEFINE N == Cardinality(S)
           T == 0 .. N - 1
           f == [x \in S |-> Rank(R, S, x)]
<1>1. N \in Nat
  BY FS_CardinalityType
<1>2. \A x \in S, y \in S : Rank(R, S, x) = Rank(R, S, y) => x = y
  <2> SUFFICES ASSUME NEW x \in S, NEW y \in S, Rank(R, S, x) = Rank(R, S, y), x # y
               PROVE  FALSE
    OBVIOUS
  <2>1. <<x, y>> \in R \/ <<y, x>> \in R
    BY DEF Orders
  <2>2. Rank(R, S, x) < Rank(R, S, y) \/ Rank(R, S, y) < Rank(R, S, x)
    BY <2>1, RankIs
  <2>3. Rank(R, S, x) \in 0 .. N - 1 /\ Rank(R, S, y) \in 0 .. N - 1
    BY RankIs
  <2> QED
    BY <1>1, <2>2, <2>3
<1>3. IsFiniteSet(T) /\ Cardinality(T) = N
  BY <1>1, FS_Interval
<1>4. f \in Injection(S, T)
  <2>1. f \in [S -> T]
    BY RankIs
  <2>2. \A x \in S, y \in S : f[x] = f[y] => x = y
    BY <1>2
  <2> HIDE DEF f, T
  <2> QED
    BY <2>1, <2>2 DEF Injection, IsInjective
<1>5. f \in Surjection(S, T)
  <2> HIDE DEF f, T
  <2> QED
    BY <1>3, <1>4, FS_Injection
<1>6. \A t \in T : \E x \in S : f[x] = t
  <2> HIDE DEF f, T
  <2> QED
    BY <1>5 DEF Surjection
<1>7. ASSUME NEW k \in 1 .. N PROVE \E x \in S : Rank(R, S, x) = k - 1
  <2>1. k - 1 \in T
    BY <1>1
  <2>2. PICK x \in S : f[x] = k - 1
    <3> HIDE DEF f, T
    <3> QED
      BY <1>6, <2>1
  <2> QED
    BY <2>2
<1> QED
  BY <1>1, <1>2, <1>7

\* A finite set of numbers has a least one.
LEMMA LeastExists ==
    ASSUME NEW U \in SUBSET Int, IsFiniteSet(U), U # {}
    PROVE  \E m \in U : \A y \in U : m <= y
<1> DEFINE R == {e \in Int \X Int : e[1] < e[2]}
<1>1. \A x \in Int, y \in Int : <<x, y>> \in R <=> x < y
  OBVIOUS
<1> HIDE DEF R
<1>2. Orders(R, U)
  BY <1>1 DEF Orders
<1>3. 1 \in 1 .. Cardinality(U)
  BY FS_CardinalityType, FS_EmptySet
<1>4. PICK m \in U : Rank(R, U, m) = 1 - 1
  BY <1>2, <1>3, RanksAre
<1>5. Preceding(R, U, m) = {}
  <2>1. Preceding(R, U, m) \in SUBSET U
    BY DEF Preceding
  <2>2. IsFiniteSet(Preceding(R, U, m)) /\ Cardinality(Preceding(R, U, m)) = 0
    BY <1>4, <2>1, FS_Subset DEF Rank
  <2> QED
    BY <2>2, FS_EmptySet
<1>6. ASSUME NEW y \in U PROVE m <= y
  <2>1. <<y, m>> \notin R
    BY <1>5 DEF Preceding
  <2> QED
    BY <1>1, <2>1
<1> QED
  BY <1>6

-----------------------------------------------------------------------------
\* The word grid: where the words of a cell are, and that two cells of a line are
\* more than a gutter apart.

\* What is known of a cell's words.
Spread(c) ==
    LET L == Len(c.words)
        w == WordsOf(c)
    IN  /\ L \in Nat \ {0} /\ DOMAIN w = 1 .. L
        /\ c.x \in Int /\ End(c) \in Int /\ c.line \in Int
        /\ \A k \in 1 .. L :
              /\ w[k].line = c.line /\ w[k].x0 \in Int /\ w[k].x1 = w[k].x0 + WordWidth
              /\ c.x <= w[k].x0 /\ w[k].x1 <= End(c)
              /\ k + 1 \in 1 .. L => w[k + 1].x0 - w[k].x1 = WordGap
        /\ \A j \in 1 .. L, k \in 1 .. L : j < k => w[j].x0 < w[k].x0
        /\ w[1].x0 = c.x /\ w[L].x1 = End(c)

LEMMA Multiples ==
    ASSUME NEW s \in Nat \ {0}, NEW j \in Int, NEW k \in Int
    PROVE  /\ j * s \in Int
           /\ j < k => j * s + s <= k * s
           /\ (j + 1) * s = j * s + s /\ 0 * s = 0
<1>1. j * s \in Int /\ (j + 1) * s = j * s + s /\ 0 * s = 0
  OBVIOUS
<1>2. ASSUME j < k PROVE j * s + s <= k * s
  <2> DEFINE d == k - j - 1
  <2>1. d \in Nat /\ k = j + 1 + d
    BY <1>2
  <2>2. d * s >= 0
    BY <2>1
  <2>3. (j + 1 + d) * s = j * s + s + d * s
    BY <2>1
  <2> HIDE DEF d
  <2> QED
    BY <1>1, <2>1, <2>2, <2>3
<1> QED
  BY <1>1, <1>2

LEMMA CellIs ==
    ASSUME NEW p \in Pages, NEW c \in p
    PROVE  IsCell(c) /\ Len(c.words) \in Nat \ {0} /\ DOMAIN c.words = 1 .. Len(c.words)
<1>1. IsCell(c)
  BY PagesAssumption
<1>2. c.words \in Seq(PageWords) /\ c.words # <<>>
  BY <1>1 DEF IsCell
<1> QED
  BY <1>1, <1>2, LenProperties, EmptySeq

LEMMA Widths == /\ WordWidth \in Nat \ {0} /\ WordGap \in Nat /\ WordGap <= Gutter
                /\ Gutter \in Nat /\ WordWidth + WordGap \in Nat \ {0}
  BY PagesAssumption DEF Gutter

LEMMA CellSpread == ASSUME NEW p \in Pages, NEW c \in p PROVE Spread(c)
<1> DEFINE L == Len(c.words)
           s == WordWidth + WordGap
           w == WordsOf(c)
           at == [k \in Int |-> k * s]
<1>1. L \in Nat \ {0} /\ DOMAIN c.words = 1 .. L /\ c.x \in Int /\ c.line \in Int
  BY CellIs DEF IsCell
<1>2. s \in Nat \ {0} /\ WordWidth \in Nat \ {0} /\ WordGap \in Nat /\ s = WordWidth + WordGap
  BY Widths
<1>3. DOMAIN w = 1 .. L /\ \A k \in 1 .. L : /\ w[k].line = c.line
                                             /\ w[k].x0 = c.x + at[k - 1]
                                             /\ w[k].x1 = w[k].x0 + WordWidth
  <2>1. DOMAIN w = 1 .. L
    BY <1>1 DEF WordsOf
  <2>2. ASSUME NEW k \in 1 .. L
        PROVE  w[k].line = c.line /\ w[k].x0 = c.x + (k - 1) * s /\ w[k].x1 = w[k].x0 + WordWidth
    BY <1>1 DEF WordsOf
  <2>3. \A k \in 1 .. L : at[k - 1] = (k - 1) * s
    BY <1>1
  <2> QED
    BY <2>1, <2>2, <2>3
<1>4. End(c) = c.x + at[L] - WordGap
  BY <1>1 DEF End
<1>5. /\ at[0] = 0
      /\ \A k \in Int : at[k] \in Int /\ at[k + 1] = at[k] + s
      /\ \A j \in Int, k \in Int : j < k => at[j] + s <= at[k]
  <2> HIDE DEF s
  <2> QED
    BY <1>2, Multiples
<1> HIDE DEF w, s, at
<1>6. \A k \in 1 .. L : k - 1 \in Int /\ at[k - 1] \in Int /\ w[k].x0 \in Int
  <2> SUFFICES ASSUME NEW k \in 1 .. L
               PROVE  k - 1 \in Int /\ at[k - 1] \in Int /\ w[k].x0 \in Int
    OBVIOUS
  <2>1. k - 1 \in Int
    BY <1>1
  <2>2. at[k - 1] \in Int
    BY <1>5, <2>1
  <2>3. w[k].x0 = c.x + at[k - 1]
    BY <1>3
  <2> QED
    BY <1>1, <2>1, <2>2, <2>3
<1>7. at[L] \in Int /\ End(c) \in Int
  <2>1. L \in Int
    BY <1>1
  <2> DEFINE a == at[L]
  <2>2. a \in Int
    BY <1>5, <2>1
  <2>3. End(c) = c.x + a - WordGap
    BY <1>4
  <2> HIDE DEF a
  <2>4. c.x + a - WordGap \in Int
    BY <1>1, <1>2, <2>2
  <2> QED
    BY <2>2, <2>3, <2>4 DEF a
<1>8. \A j \in 1 .. L, k \in 1 .. L : j < k => w[j].x0 < w[k].x0
  <2> SUFFICES ASSUME NEW j \in 1 .. L, NEW k \in 1 .. L, j < k PROVE w[j].x0 < w[k].x0
    OBVIOUS
  <2>1. j - 1 \in Int /\ k - 1 \in Int /\ j - 1 < k - 1
    OBVIOUS
  <2>2. at[j - 1] + s <= at[k - 1]
    BY <1>5, <2>1
  <2>3. w[j].x0 = c.x + at[j - 1] /\ w[k].x0 = c.x + at[k - 1]
    BY <1>3
  <2>4. at[j - 1] \in Int /\ at[k - 1] \in Int /\ s > 0 /\ s \in Int /\ c.x \in Int
    BY <1>1, <1>2, <1>6
  <2> QED
    BY <2>2, <2>3, <2>4
<1>9. w[1].x0 = c.x /\ w[L].x1 = End(c) /\ L \in 1 .. L /\ 1 \in 1 .. L
  <2>1. L \in 1 .. L /\ 1 \in 1 .. L
    BY <1>1
  <2>2. w[1].x0 = c.x
    <3>1. 1 - 1 = 0
      OBVIOUS
    <3>2. at[1 - 1] = 0
      BY <1>5, <3>1
    <3>3. w[1].x0 = c.x + at[1 - 1]
      BY <1>3, <2>1
    <3> QED
      BY <1>1, <3>2, <3>3
  <2>3. at[L] = at[L - 1] + s
    <3>1. L - 1 \in Int /\ L - 1 + 1 = L
      BY <1>1
    <3> QED
      BY <1>5, <3>1
  <2>4. w[L].x1 = c.x + at[L - 1] + WordWidth /\ at[L - 1] \in Int
    BY <1>3, <1>6, <2>1
  <2> QED
    BY <1>1, <1>2, <1>4, <1>7, <2>1, <2>2, <2>3, <2>4
<1>10. ASSUME NEW k \in 1 .. L
       PROVE  /\ w[k].line = c.line /\ w[k].x0 \in Int /\ w[k].x1 = w[k].x0 + WordWidth
              /\ c.x <= w[k].x0 /\ w[k].x1 <= End(c)
              /\ k + 1 \in 1 .. L => w[k + 1].x0 - w[k].x1 = WordGap
  <2>1. w[k].line = c.line /\ w[k].x0 \in Int /\ w[k].x1 = w[k].x0 + WordWidth
    BY <1>3, <1>6
  <2>2. c.x <= w[k].x0
    <3>1. CASE k = 1
      BY <1>1, <1>9, <3>1
    <3>2. CASE k # 1
      <4>1. 1 < k
        BY <3>2
      <4>2. w[1].x0 < w[k].x0
        BY <1>8, <1>9, <4>1
      <4> QED
        BY <1>1, <1>9, <2>1, <4>2
    <3> QED
      BY <3>1, <3>2
  <2>3. w[k].x1 <= End(c)
    <3>1. w[L].x0 \in Int /\ w[L].x1 = w[L].x0 + WordWidth
      BY <1>3, <1>6, <1>9
    <3>2. w[k].x0 <= w[L].x0
      <4>1. CASE k = L
        BY <2>1, <4>1
      <4>2. CASE k # L
        <5>1. k < L
          BY <1>1, <4>2
        <5>2. w[k].x0 < w[L].x0
          BY <1>8, <1>9, <5>1
        <5> QED
          BY <2>1, <3>1, <5>2
      <4> QED
        BY <4>1, <4>2
    <3> QED
      BY <1>2, <1>9, <2>1, <3>1, <3>2
  <2>4. ASSUME k + 1 \in 1 .. L PROVE w[k + 1].x0 - w[k].x1 = WordGap
    <3>1. k + 1 - 1 = k - 1 + 1 /\ k - 1 \in Int
      OBVIOUS
    <3>2. at[k + 1 - 1] = at[k - 1] + s
      BY <1>5, <3>1
    <3>3. w[k + 1].x0 = c.x + at[k + 1 - 1]
      BY <1>3, <2>4
    <3>4. w[k].x1 = c.x + at[k - 1] + WordWidth
      BY <1>3
    <3> QED
      BY <1>1, <1>2, <1>6, <3>2, <3>3, <3>4
  <2> QED
    BY <2>1, <2>2, <2>3, <2>4
<1> QED
  BY <1>1, <1>7, <1>3, <1>8, <1>9, <1>10 DEF Spread, w

\* The words of two cells are no words of each other, and those of a line are apart.
LEMMA CellsApart ==
    ASSUME NEW p \in Pages, NEW c \in p, NEW d \in p, c # d,
           NEW j \in 1 .. Len(c.words), NEW k \in 1 .. Len(d.words)
    PROVE  /\ WordsOf(c)[j] # WordsOf(d)[k]
           /\ c.line = d.line =>
                 \/ d.x - End(c) > Gutter /\ WordsOf(c)[j].x0 < WordsOf(d)[k].x0
                 \/ c.x - End(d) > Gutter /\ WordsOf(d)[k].x0 < WordsOf(c)[j].x0
<1>1. Spread(c) /\ Spread(d)
  BY CellSpread
<1>2. c.line = d.line => d.x - End(c) > Gutter \/ c.x - End(d) > Gutter
  BY PagesAssumption
<1>3. Gutter \in Nat /\ WordWidth \in Nat
  BY Widths
<1> DEFINE v == WordsOf(c)[j]
           w == WordsOf(d)[k]
<1>4. /\ v.line = c.line /\ v.x0 \in Int /\ v.x1 = v.x0 + WordWidth
      /\ c.x <= v.x0 /\ v.x1 <= End(c) /\ c.x \in Int /\ End(c) \in Int
  BY <1>1 DEF Spread
<1>5. /\ w.line = d.line /\ w.x0 \in Int /\ w.x1 = w.x0 + WordWidth
      /\ d.x <= w.x0 /\ w.x1 <= End(d) /\ d.x \in Int /\ End(d) \in Int
  BY <1>1 DEF Spread
<1> HIDE DEF v, w
<1>6. ASSUME d.x - End(c) > Gutter PROVE v.x0 < w.x0
  BY <1>3, <1>4, <1>5, <1>6
<1>7. ASSUME c.x - End(d) > Gutter PROVE w.x0 < v.x0
  BY <1>3, <1>4, <1>5, <1>7
<1>8. c.line = d.line => \/ d.x - End(c) > Gutter /\ v.x0 < w.x0
                         \/ c.x - End(d) > Gutter /\ w.x0 < v.x0
  BY <1>2, <1>6, <1>7
<1>9. v # w
  <2>1. CASE c.line = d.line
    BY <1>4, <1>5, <1>8, <2>1
  <2>2. CASE c.line # d.line
    BY <1>4, <1>5, <2>2
  <2> QED
    BY <2>1, <2>2
<1> QED
  BY <1>8, <1>9 DEF v, w

-----------------------------------------------------------------------------
\* The word grid: the sorted words of a page are its printed words, each once, in
\* reading order.

LEMMA ImageIsFinite ==
    ASSUME NEW S, IsFiniteSet(S), NEW f, DOMAIN f = S, f = [x \in S |-> f[x]]
    PROVE  IsFiniteSet({f[x] : x \in S})
<1> DEFINE T == {f[x] : x \in S}
<1>1. f \in Surjection(S, T)
  BY DEF Surjection
<1> HIDE DEF T
<1> QED
  BY <1>1, FS_Surjection DEF T

\* The words of a page, and the order in which they are read.
WordsIn(p) == UNION {ToSet(WordsOf(c)) : c \in p}

Reading(p) == {e \in WordsIn(p) \X WordsIn(p) : ReadsBefore(e[1], e[2])}

IsWordOf(w, c, k) == k \in 1 .. Len(c.words) /\ w = WordsOf(c)[k]

LEMMA WordsInAre ==
    ASSUME NEW p \in Pages
    PROVE  /\ \A w \in WordsIn(p) : \E c \in p : \E k \in 1 .. Len(c.words) : IsWordOf(w, c, k)
           /\ \A c \in p : \A k \in 1 .. Len(c.words) : WordsOf(c)[k] \in WordsIn(p)
           /\ IsFiniteSet(WordsIn(p))
<1>1. ASSUME NEW c \in p
      PROVE  /\ ToSet(WordsOf(c)) = {WordsOf(c)[k] : k \in 1 .. Len(c.words)}
             /\ IsFiniteSet(ToSet(WordsOf(c)))
  <2>1. DOMAIN WordsOf(c) = 1 .. Len(c.words) /\ Len(c.words) \in Nat
    BY CellSpread DEF Spread
  <2>2. ToSet(WordsOf(c)) = {WordsOf(c)[k] : k \in 1 .. Len(c.words)}
    BY <2>1 DEF ToSet
  <2>3. IsFiniteSet(1 .. Len(c.words))
    BY <2>1, FS_Interval
  <2>4. WordsOf(c) = [k \in 1 .. Len(c.words) |-> WordsOf(c)[k]]
    BY <2>1 DEF WordsOf
  <2> DEFINE w == WordsOf(c)
  <2> HIDE DEF w
  <2>5. IsFiniteSet({w[k] : k \in 1 .. Len(c.words)})
    BY <2>1, <2>3, <2>4, ImageIsFinite DEF w
  <2> QED
    BY <2>2, <2>5 DEF w
<1>2. \A w \in WordsIn(p) : \E c \in p : \E k \in 1 .. Len(c.words) : IsWordOf(w, c, k)
  BY <1>1 DEF WordsIn, IsWordOf
<1>3. \A c \in p : \A k \in 1 .. Len(c.words) : WordsOf(c)[k] \in WordsIn(p)
  BY <1>1 DEF WordsIn
<1>4. IsFiniteSet(WordsIn(p))
  <2> DEFINE f == [c \in p |-> ToSet(WordsOf(c))]
             F == {f[c] : c \in p}
  <2>1. IsFiniteSet(p)
    BY PagesAssumption
  <2>2. DOMAIN f = p /\ f = [c \in p |-> f[c]] /\ \A c \in p : f[c] = ToSet(WordsOf(c))
    OBVIOUS
  <2> HIDE DEF f
  <2>3. IsFiniteSet(F)
    BY <2>1, <2>2, ImageIsFinite
  <2>4. \A T \in F : IsFiniteSet(T)
    BY <1>1, <2>2
  <2>5. WordsIn(p) = UNION F
    BY <2>2 DEF WordsIn
  <2> HIDE DEF F
  <2> QED
    BY <2>3, <2>4, <2>5, FS_UNION
<1> QED
  BY <1>2, <1>3, <1>4

LEMMA ReadingOrders ==
    ASSUME NEW p \in Pages
    PROVE  /\ Orders(Reading(p), WordsIn(p))
           /\ \A v \in WordsIn(p), w \in WordsIn(p) :
                 <<v, w>> \in Reading(p) <=> ReadsBefore(v, w)
<1>1. \A v \in WordsIn(p), w \in WordsIn(p) : <<v, w>> \in Reading(p) <=> ReadsBefore(v, w)
  BY DEF Reading
<1>2. \A w \in WordsIn(p) : w.line \in Int /\ w.x0 \in Int
  <2> SUFFICES ASSUME NEW w \in WordsIn(p) PROVE w.line \in Int /\ w.x0 \in Int
    OBVIOUS
  <2>1. PICK c \in p : \E k \in 1 .. Len(c.words) : IsWordOf(w, c, k)
    BY WordsInAre
  <2>2. PICK k \in 1 .. Len(c.words) : IsWordOf(w, c, k)
    BY <2>1
  <2> QED
    BY <2>2, CellSpread DEF Spread, IsWordOf
<1>3. ASSUME NEW v \in WordsIn(p), NEW w \in WordsIn(p), v # w
      PROVE  ReadsBefore(v, w) \/ ReadsBefore(w, v)
  <2>1. PICK c \in p, d \in p : /\ \E j \in 1 .. Len(c.words) : IsWordOf(v, c, j)
                                /\ \E k \in 1 .. Len(d.words) : IsWordOf(w, d, k)
    BY WordsInAre
  <2>2. PICK j \in 1 .. Len(c.words) : IsWordOf(v, c, j)
    BY <2>1
  <2>3. PICK k \in 1 .. Len(d.words) : IsWordOf(w, d, k)
    BY <2>1
  <2>4. v = WordsOf(c)[j] /\ w = WordsOf(d)[k]
    BY <2>2, <2>3 DEF IsWordOf
  <2>5. v.line = c.line /\ w.line = d.line
    BY <2>4, CellSpread DEF Spread
  <2>6. CASE v.line # w.line
    BY <1>2, <2>6 DEF ReadsBefore
  <2>7. CASE v.line = w.line /\ c # d
    <3>1. v.x0 < w.x0 \/ w.x0 < v.x0
      BY <2>4, <2>5, <2>7, CellsApart
    <3> QED
      BY <2>7, <3>1 DEF ReadsBefore
  <2>8. CASE c = d
    <3>0. Spread(c) /\ j # k
      BY <1>3, <2>4, <2>8, CellSpread
    <3>1. j # k /\ Spread(c) /\ Len(c.words) \in Nat
      BY <3>0 DEF Spread
    <3>2. j < k \/ k < j
      BY <2>8, <3>1
    <3>3. \A m \in 1 .. Len(c.words), n \in 1 .. Len(c.words) :
              m < n => WordsOf(c)[m].x0 < WordsOf(c)[n].x0
      BY <3>1 DEF Spread
    <3>4. v.x0 < w.x0 \/ w.x0 < v.x0
      BY <2>4, <2>8, <3>2, <3>3
    <3> QED
      BY <2>5, <2>8, <3>4 DEF ReadsBefore
  <2> QED
    BY <2>6, <2>7, <2>8
<1>4. \A w \in WordsIn(p) : ~ReadsBefore(w, w)
  BY <1>2 DEF ReadsBefore
<1>5. \A u \in WordsIn(p), v \in WordsIn(p), w \in WordsIn(p) :
          ReadsBefore(u, v) /\ ReadsBefore(v, w) => ReadsBefore(u, w)
  BY <1>2 DEF ReadsBefore
<1> QED
  BY <1>1, <1>3, <1>4, <1>5 DEF Orders

\* The words are read each once, in order.
WordsAre(w, p) ==
    /\ Len(w) \in Nat /\ w \in Seq(WordsIn(p)) /\ DOMAIN w = 1 .. Len(w)
    /\ \A i \in 1 .. Len(w) : \E c \in p : \E k \in 1 .. Len(c.words) : IsWordOf(w[i], c, k)
    /\ \A c \in p : \A k \in 1 .. Len(c.words) : \E i \in 1 .. Len(w) : IsWordOf(w[i], c, k)
    /\ \A i \in 1 .. Len(w), j \in 1 .. Len(w) :
          /\ i < j => ReadsBefore(w[i], w[j])
          /\ ReadsBefore(w[i], w[j]) => i < j
          /\ w[i] = w[j] => i = j

LEMMA WordsInOrder == ASSUME NEW p \in Pages PROVE WordsAre(Words(p), p)
<1> DEFINE S == WordsIn(p)
           R == Reading(p)
           N == Cardinality(S)
           w == Words(p)
<1>1. IsFiniteSet(S) /\ Orders(R, S)
  BY WordsInAre, ReadingOrders
<1>2. /\ N \in Nat
      /\ \A x \in S, y \in S : Rank(R, S, x) = Rank(R, S, y) => x = y
      /\ \A k \in 1 .. N : \E x \in S : Rank(R, S, x) = k - 1
  <2> HIDE DEF R, S
  <2> QED
    BY <1>1, RanksAre
<1>3. \A x \in S : Rank(R, S, x) = Cardinality({y \in S : ReadsBefore(y, x)})
  <2> SUFFICES ASSUME NEW x \in S
               PROVE  Preceding(R, S, x) = {y \in S : ReadsBefore(y, x)}
    BY DEF Rank
  <2> QED
    BY ReadingOrders DEF Preceding
<1>4. w = [k \in 1 .. N |->
              CHOOSE x \in S : Cardinality({y \in S : ReadsBefore(y, x)}) = k - 1]
  BY DEF Words, Sorted, WordsIn
<1>5. \A k \in 1 .. N : w[k] \in S /\ Rank(R, S, w[k]) = k - 1
  <2> SUFFICES ASSUME NEW k \in 1 .. N PROVE w[k] \in S /\ Rank(R, S, w[k]) = k - 1
    OBVIOUS
  <2>1. w[k] = CHOOSE x \in S : Cardinality({y \in S : ReadsBefore(y, x)}) = k - 1
    BY <1>4
  <2> HIDE DEF S, R, w
  <2>2. \E x \in S : Cardinality({y \in S : ReadsBefore(y, x)}) = k - 1
    BY <1>2, <1>3
  <2>3. w[k] \in S /\ Cardinality({y \in S : ReadsBefore(y, w[k])}) = k - 1
    BY <2>1, <2>2
  <2> QED
    BY <1>3, <2>3
<1>6. w \in Seq(S) /\ Len(w) = N /\ DOMAIN w = 1 .. N
  <2>1. DOMAIN w = 1 .. N /\ w = [k \in 1 .. N |-> w[k]]
    BY <1>4
  <2> HIDE DEF w, S
  <2>2. w \in [1 .. N -> S]
    BY <1>5, <2>1
  <2> QED
    BY <1>2, <2>1, <2>2, IsASeq, LenProperties
<1>7. \A x \in S : \E i \in 1 .. N : w[i] = x
  <2> SUFFICES ASSUME NEW x \in S PROVE \E i \in 1 .. N : w[i] = x
    OBVIOUS
  <2> HIDE DEF R, S, w
  <2>1. Rank(R, S, x) \in 0 .. N - 1
    BY <1>1, RankIs
  <2> DEFINE i == Rank(R, S, x) + 1
  <2>2. i \in 1 .. N /\ i - 1 = Rank(R, S, x)
    BY <1>2, <2>1
  <2> HIDE DEF i
  <2>3. Rank(R, S, w[i]) = Rank(R, S, x) /\ w[i] \in S
    BY <1>5, <2>2
  <2> QED
    BY <1>2, <2>2, <2>3
<1>8. ASSUME NEW i \in 1 .. N, NEW j \in 1 .. N
      PROVE  /\ i < j => ReadsBefore(w[i], w[j])
             /\ ReadsBefore(w[i], w[j]) => i < j
             /\ w[i] = w[j] => i = j
  <2>1. /\ w[i] \in S /\ w[j] \in S
        /\ Rank(R, S, w[i]) = i - 1 /\ Rank(R, S, w[j]) = j - 1
    BY <1>5
  <2>2. w[i] = w[j] => i = j
    <3> HIDE DEF R, S, w
    <3> QED
      BY <1>2, <2>1
  <2>3. \A x \in S, y \in S : ReadsBefore(x, y) => Rank(R, S, x) < Rank(R, S, y)
    <3>1. \A x \in S, y \in S : <<x, y>> \in R <=> ReadsBefore(x, y)
      BY ReadingOrders
    <3> HIDE DEF R, S
    <3> QED
      BY <1>1, <3>1, RankIs
  <2>4. w[i] # w[j] => ReadsBefore(w[i], w[j]) \/ ReadsBefore(w[j], w[i])
    BY <2>1, ReadingOrders DEF Orders
  <2> HIDE DEF R, S, w
  <2>5. ReadsBefore(w[i], w[j]) => i < j
    BY <1>2, <2>1, <2>3
  <2>6. ReadsBefore(w[j], w[i]) => j < i
    BY <1>2, <2>1, <2>3
  <2> QED
    BY <1>2, <2>2, <2>4, <2>5, <2>6
<1>9. \A i \in 1 .. N : \E c \in p : \E k \in 1 .. Len(c.words) : IsWordOf(w[i], c, k)
  BY <1>5, WordsInAre
<1>10. \A c \in p : \A k \in 1 .. Len(c.words) : \E i \in 1 .. N : IsWordOf(w[i], c, k)
  <2> SUFFICES ASSUME NEW c \in p, NEW k \in 1 .. Len(c.words)
               PROVE  \E i \in 1 .. N : IsWordOf(w[i], c, k)
    OBVIOUS
  <2>1. WordsOf(c)[k] \in S
    BY WordsInAre
  <2> HIDE DEF S, w, N
  <2> QED
    BY <1>7, <2>1 DEF IsWordOf
<1> HIDE DEF w, R
<1> QED
  BY <1>2, <1>6, <1>8, <1>9, <1>10 DEF WordsAre, w

-----------------------------------------------------------------------------
\* The word grid: after a word of a cell comes the next word of that cell, and after
\* the last one the first word of another cell, behind a gutter or on another line.

\* A cell has some width.
LEMMA CellWide ==
    ASSUME NEW p \in Pages, NEW c \in p
    PROVE  c.x \in Int /\ End(c) \in Int /\ c.x < End(c)
<1>1. Spread(c) /\ WordWidth \in Nat \ {0}
  BY CellSpread, Widths
<1>2. 1 \in 1 .. Len(c.words) /\ c.x \in Int /\ End(c) \in Int
  BY <1>1 DEF Spread
<1> DEFINE w == WordsOf(c)[1]
<1>3. w.x0 = c.x /\ w.x1 = w.x0 + WordWidth /\ w.x1 <= End(c)
  BY <1>1, <1>2 DEF Spread
<1> HIDE DEF w
<1> QED
  BY <1>1, <1>2, <1>3

\* A word is followed by its cell's next one, and the last of a cell by the first of
\* another, with which it does not go together.
LEMMA NextWord ==
    ASSUME NEW p \in Pages, NEW w, WordsAre(w, p), NEW i \in 1 .. Len(w),
           NEW c \in p, NEW k \in 1 .. Len(c.words), IsWordOf(w[i], c, k),
           k + 1 \in 1 .. Len(c.words)
    PROVE  i + 1 \in 1 .. Len(w) /\ IsWordOf(w[i + 1], c, k + 1)
<1>1. PICK j \in 1 .. Len(w) : IsWordOf(w[j], c, k + 1)
  BY DEF WordsAre
<1> DEFINE u == WordsOf(c)[k]
           v == WordsOf(c)[k + 1]
<1>2. w[i] = u /\ w[j] = v
  BY <1>1 DEF IsWordOf
<1>3. Spread(c) /\ WordWidth \in Nat \ {0} /\ Gutter \in Nat
  BY CellSpread, Widths
<1>4. /\ u.line = c.line /\ v.line = c.line /\ c.line \in Int
      /\ u.x0 \in Int /\ v.x0 \in Int /\ u.x0 < v.x0
  <2>1. k < k + 1
    OBVIOUS
  <2> QED
    BY <1>3, <2>1 DEF Spread
<1> HIDE DEF u, v
<1>5. i < j
  <2>1. ReadsBefore(u, v)
    BY <1>4 DEF ReadsBefore
  <2> QED
    BY <1>2, <2>1 DEF WordsAre
<1>6. ASSUME i + 1 # j PROVE FALSE
  <2>1. i + 1 \in 1 .. Len(w) /\ i < i + 1 /\ i + 1 < j
    BY <1>5, <1>6 DEF WordsAre
  <2>2. ReadsBefore(u, w[i + 1]) /\ ReadsBefore(w[i + 1], v)
    BY <1>2, <2>1 DEF WordsAre
  <2>3. PICK d \in p : \E m \in 1 .. Len(d.words) : IsWordOf(w[i + 1], d, m)
    BY <2>1 DEF WordsAre
  <2>4. PICK m \in 1 .. Len(d.words) : IsWordOf(w[i + 1], d, m)
    BY <2>3
  <2> DEFINE x == WordsOf(d)[m]
  <2>5. w[i + 1] = x
    BY <2>4 DEF IsWordOf
  <2>6. Spread(d) /\ x.line = d.line /\ x.x0 \in Int /\ d.line \in Int
    <3>1. Spread(d)
      BY CellSpread
    <3> QED
      BY <3>1 DEF Spread
  <2> HIDE DEF x
  <2>7. d.line = c.line /\ u.x0 < x.x0 /\ x.x0 < v.x0
    BY <1>4, <2>2, <2>5, <2>6 DEF ReadsBefore
  <2>8. CASE d = c
    <3>1. \A a \in 1 .. Len(c.words), b \in 1 .. Len(c.words) :
              a < b => WordsOf(c)[a].x0 < WordsOf(c)[b].x0
      BY <1>3 DEF Spread
    <3>2. ~(m < k) /\ m # k
      BY <1>4, <2>6, <2>7, <2>8, <3>1 DEF u, x
    <3>3. ~(k + 1 < m) /\ m # k + 1
      BY <1>4, <2>6, <2>7, <2>8, <3>1 DEF v, x
    <3>4. m \in Int /\ k \in Int
      BY <1>3, <2>6 DEF Spread
    <3> QED
      BY <3>2, <3>3, <3>4
  <2>9. CASE d # c
    <3>1. \/ d.x - End(c) > Gutter /\ u.x0 < x.x0
          \/ c.x - End(d) > Gutter /\ x.x0 < u.x0
      BY <2>7, <2>9, CellsApart DEF u, x
    <3>2. \/ d.x - End(c) > Gutter /\ v.x0 < x.x0
          \/ c.x - End(d) > Gutter /\ x.x0 < v.x0
      BY <2>7, <2>9, CellsApart DEF v, x
    <3>3. d.x - End(c) > Gutter /\ c.x - End(d) > Gutter
      BY <1>4, <2>6, <2>7, <3>1, <3>2
    <3>4. c.x \in Int /\ End(c) \in Int /\ c.x < End(c)
      BY CellWide
    <3>5. d.x \in Int /\ End(d) \in Int /\ d.x < End(d)
      BY CellWide
    <3> QED
      BY <1>3, <3>3, <3>4, <3>5
  <2> QED
    BY <2>8, <2>9
<1> QED
  BY <1>1, <1>6

LEMMA FirstWord ==
    ASSUME NEW p \in Pages, NEW w, WordsAre(w, p), NEW i \in 0 .. Len(w) - 1,
           i # 0 => \E c \in p : IsWordOf(w[i], c, Len(c.words))
    PROVE  \E d \in p : 1 \in 1 .. Len(d.words) /\ IsWordOf(w[i + 1], d, 1)
<1>1. i + 1 \in 1 .. Len(w) /\ Len(w) \in Nat /\ i \in Int
  BY DEF WordsAre
<1>2. PICK d \in p : \E m \in 1 .. Len(d.words) : IsWordOf(w[i + 1], d, m)
  BY <1>1 DEF WordsAre
<1>3. PICK m \in 1 .. Len(d.words) : IsWordOf(w[i + 1], d, m)
  BY <1>2
<1>4. Spread(d)
  BY CellSpread
<1>5. 1 \in 1 .. Len(d.words) /\ Len(d.words) \in Nat
  BY <1>4 DEF Spread
<1>6. ASSUME m # 1 PROVE FALSE
  <2>1. m - 1 \in 1 .. Len(d.words) /\ m - 1 + 1 = m /\ m - 1 < m
    BY <1>5, <1>6
  <2>2. PICK j \in 1 .. Len(w) : IsWordOf(w[j], d, m - 1)
    BY <2>1 DEF WordsAre
  <2>3. j + 1 \in 1 .. Len(w) /\ IsWordOf(w[j + 1], d, m)
    BY <2>1, <2>2, NextWord
  <2>4. w[j + 1] = w[i + 1]
    BY <1>3, <2>3 DEF IsWordOf
  <2>5. j + 1 = i + 1
    BY <1>1, <2>3, <2>4 DEF WordsAre
  <2>6. j = i /\ i # 0
    BY <1>1, <2>5
  <2>7. PICK c \in p : IsWordOf(w[i], c, Len(c.words))
    BY <2>6
  <2>8. WordsOf(c)[Len(c.words)] = WordsOf(d)[m - 1] /\ Len(c.words) \in 1 .. Len(c.words)
    BY <2>2, <2>6, <2>7 DEF IsWordOf
  <2>9. c = d
    BY <2>1, <2>8, CellsApart
  <2>10. m - 1 = Len(d.words)
    <3> DEFINE L == Len(d.words)
               x == WordsOf(d)
    <3>1. x[L] = x[m - 1] /\ L \in 1 .. L
      BY <2>8, <2>9
    <3>2. \A a \in 1 .. L, b \in 1 .. L : a < b => x[a].x0 < x[b].x0
      BY <1>4 DEF Spread
    <3>3. x[L].x0 \in Int
      BY <1>4, <3>1 DEF Spread
    <3> HIDE DEF x
    <3>4. ~(m - 1 < L)
      BY <2>1, <3>1, <3>2, <3>3
    <3> QED
      BY <1>5, <2>1, <3>4
  <2> QED
    BY <1>5, <2>10
<1> QED
  BY <1>3, <1>5, <1>6

\* The gap after the last word of a cell.
LEMMA GapAfter ==
    ASSUME NEW p \in Pages, NEW w, WordsAre(w, p), NEW i \in 1 .. Len(w) - 1,
           NEW c \in p, IsWordOf(w[i], c, Len(c.words)),
           NEW d \in p, IsWordOf(w[i + 1], d, 1)
    PROVE  ~(w[i].line = w[i + 1].line /\ w[i + 1].x0 - w[i].x1 <= Gutter)
<1> SUFFICES ASSUME w[i].line = w[i + 1].line PROVE w[i + 1].x0 - w[i].x1 > Gutter
  <2> DEFINE g == w[i + 1].x0 - w[i].x1
  <2>1. g \in Int /\ Gutter \in Int
    <3>1. Spread(c) /\ Spread(d) /\ WordWidth \in Nat /\ Gutter \in Int
      BY CellSpread, Widths
    <3>2. w[i].x1 \in Int /\ w[i + 1].x0 \in Int
      BY <3>1 DEF Spread, IsWordOf
    <3> QED
      BY <3>1, <3>2
  <2> HIDE DEF g
  <2>2. (g > Gutter) => ~(g <= Gutter)
    BY <2>1
  <2> QED
    BY <2>2 DEF g
<1>1. Spread(c) /\ Spread(d) /\ WordWidth \in Nat \ {0} /\ Gutter \in Int
  BY CellSpread, Widths
<1> DEFINE L == Len(c.words)
           u == WordsOf(c)[L]
           v == WordsOf(d)[1]
<1>2. w[i] = u /\ w[i + 1] = v /\ L \in 1 .. L /\ 1 \in 1 .. Len(d.words)
  BY DEF IsWordOf
<1>3. /\ u.line = c.line /\ v.line = d.line /\ u.x0 \in Int /\ v.x0 \in Int
      /\ u.x1 = End(c) /\ v.x0 = d.x /\ c.line \in Int
  BY <1>1, <1>2 DEF Spread
<1>4. ReadsBefore(u, v)
  <2>1. i \in 1 .. Len(w) /\ i + 1 \in 1 .. Len(w) /\ i < i + 1
    BY DEF WordsAre
  <2> HIDE DEF u, v
  <2> QED
    BY <1>2, <2>1 DEF WordsAre
<1>5. u.x0 < v.x0 /\ c.line = d.line
  <2> HIDE DEF u, v
  <2> QED
    BY <1>2, <1>3, <1>4 DEF ReadsBefore
<1>6. c # d
  <2> SUFFICES ASSUME c = d PROVE FALSE
    OBVIOUS
  <2>1. \A a \in 1 .. L, b \in 1 .. L : a < b => WordsOf(c)[a].x0 < WordsOf(c)[b].x0
    BY <1>1 DEF Spread
  <2>2. L = 1 \/ 1 < L
    <3>1. L \in Nat \ {0}
      BY CellIs
    <3> HIDE DEF L
    <3> QED
      BY <3>1
  <2>3. v = WordsOf(c)[1] /\ 1 \in 1 .. L
    BY <1>2
  <2> QED
    BY <1>2, <1>3, <1>5, <2>1, <2>2, <2>3
<1>7. \/ d.x - End(c) > Gutter
      \/ v.x0 < u.x0
  BY <1>2, <1>5, <1>6, CellsApart
<1> HIDE DEF u, v
<1> QED
  BY <1>2, <1>3, <1>5, <1>7

-----------------------------------------------------------------------------
\* The first elements of a sequence, and those after them.

Firsts(s, m) == [k \in 1 .. m |-> s[k]]

Remaining(s, n) == [k \in 1 .. Len(s) - n |-> s[n + k]]

LEMMA FunctionIsSeq ==
    ASSUME NEW S, NEW n \in Nat, NEW f, DOMAIN f = 1 .. n, f = [k \in 1 .. n |-> f[k]],
           \A k \in 1 .. n : f[k] \in S
    PROVE  f \in Seq(S) /\ Len(f) = n
<1>1. f \in [1 .. n -> S]
  OBVIOUS
<1> QED
  BY <1>1, IsASeq, LenProperties

LEMMA FirstsNext ==
    ASSUME NEW S, NEW s \in Seq(S), NEW m \in 0 .. Len(s)
    PROVE  /\ Firsts(s, m) \in Seq(S) /\ Len(Firsts(s, m)) = m
           /\ \A k \in 1 .. m : Firsts(s, m)[k] = s[k]
           /\ m = 0 <=> Firsts(s, m) = <<>>
           /\ m < Len(s) => Firsts(s, m + 1) = Append(Firsts(s, m), s[m + 1])
           /\ m = Len(s) => Firsts(s, m) = s
<1>1. Len(s) \in Nat /\ DOMAIN s = 1 .. Len(s) /\ \A k \in 1 .. Len(s) : s[k] \in S
  BY LenProperties, ElementOfSeq
<1>2. ASSUME NEW n \in 0 .. Len(s)
      PROVE  /\ Firsts(s, n) \in Seq(S) /\ Len(Firsts(s, n)) = n
             /\ \A k \in 1 .. n : Firsts(s, n)[k] = s[k]
  <2> DEFINE f == Firsts(s, n)
  <2>1. DOMAIN f = 1 .. n /\ f = [k \in 1 .. n |-> f[k]] /\ \A k \in 1 .. n : f[k] = s[k]
    BY DEF Firsts
  <2>2. n \in Nat /\ \A k \in 1 .. n : s[k] \in S
    BY <1>1
  <2> HIDE DEF f
  <2>3. \A k \in 1 .. n : f[k] \in S
    BY <2>1, <2>2
  <2>4. f \in Seq(S) /\ Len(f) = n
    BY <2>1, <2>2, <2>3, FunctionIsSeq
  <2> QED
    BY <2>1, <2>4 DEF f
<1>3. m = 0 <=> Firsts(s, m) = <<>>
  <2> DEFINE f == Firsts(s, m)
  <2>1. f \in Seq(S) /\ Len(f) = m
    BY <1>2
  <2> HIDE DEF f
  <2>2. m = 0 <=> f = <<>>
    BY <2>1, EmptySeq
  <2> QED
    BY <2>2 DEF f
<1>4. ASSUME m < Len(s) PROVE Firsts(s, m + 1) = Append(Firsts(s, m), s[m + 1])
  <2> DEFINE f == Firsts(s, m)
             g == Firsts(s, m + 1)
             h == Append(f, s[m + 1])
  <2>1. m + 1 \in 0 .. Len(s) /\ m + 1 \in 1 .. Len(s) /\ m \in Nat
    BY <1>1, <1>4
  <2>2. f \in Seq(S) /\ Len(f) = m /\ \A k \in 1 .. m : f[k] = s[k]
    BY <1>2
  <2>3. g \in Seq(S) /\ Len(g) = m + 1 /\ \A k \in 1 .. m + 1 : g[k] = s[k]
    BY <1>2, <2>1
  <2> HIDE DEF f, g
  <2>4. /\ h \in Seq(S) /\ Len(h) = m + 1 /\ \A k \in 1 .. m : h[k] = f[k]
        /\ h[m + 1] = s[m + 1]
    BY <1>1, <2>1, <2>2, AppendProperties
  <2> HIDE DEF h
  <2>5. ASSUME NEW k \in 1 .. m + 1 PROVE g[k] = h[k]
    <3>1. CASE k = m + 1
      BY <2>3, <2>4, <3>1
    <3>2. CASE k # m + 1
      <4>1. k \in 1 .. m
        BY <2>1, <3>2
      <4> QED
        BY <2>2, <2>3, <2>4, <4>1
    <3> QED
      BY <3>1, <3>2
  <2>6. g = h
    BY <2>3, <2>4, <2>5, SeqEqual
  <2> QED
    BY <2>6 DEF f, g, h
<1>5. ASSUME m = Len(s) PROVE Firsts(s, m) = s
  <2> DEFINE f == Firsts(s, m)
  <2>1. f \in Seq(S) /\ Len(f) = Len(s) /\ \A k \in 1 .. Len(s) : f[k] = s[k]
    BY <1>2, <1>5
  <2> HIDE DEF f
  <2>2. f = s
    BY <2>1, SeqEqual
  <2> QED
    BY <2>2 DEF f
<1> QED
  BY <1>2, <1>3, <1>4, <1>5

LEMMA RemainingNext ==
    ASSUME NEW S, NEW s \in Seq(S), NEW n \in 0 .. Len(s)
    PROVE  /\ n = 0 => Remaining(s, n) = s
           /\ n = Len(s) <=> Remaining(s, n) = <<>>
           /\ n < Len(s) => /\ Head(Remaining(s, n)) = s[n + 1]
                            /\ Tail(Remaining(s, n)) = Remaining(s, n + 1)
<1>1. Len(s) \in Nat /\ DOMAIN s = 1 .. Len(s) /\ \A k \in 1 .. Len(s) : s[k] \in S
  BY LenProperties, ElementOfSeq
<1>2. ASSUME NEW m \in 0 .. Len(s)
      PROVE  /\ Remaining(s, m) \in Seq(S) /\ Len(Remaining(s, m)) = Len(s) - m
             /\ \A k \in 1 .. Len(s) - m : Remaining(s, m)[k] = s[m + k]
  <2> DEFINE f == Remaining(s, m)
             N == Len(s) - m
  <2>1. DOMAIN f = 1 .. N /\ f = [k \in 1 .. N |-> f[k]] /\ \A k \in 1 .. N : f[k] = s[m + k]
    BY DEF Remaining
  <2>2. N \in Nat /\ \A k \in 1 .. N : m + k \in 1 .. Len(s)
    BY <1>1
  <2> HIDE DEF f, N
  <2>3. \A k \in 1 .. N : f[k] \in S
    BY <1>1, <2>1, <2>2
  <2>4. f \in Seq(S) /\ Len(f) = N
    BY <2>1, <2>2, <2>3, FunctionIsSeq
  <2> QED
    BY <2>1, <2>4 DEF f, N
<1> DEFINE f == Remaining(s, n)
<1>3. /\ f \in Seq(S) /\ Len(f) = Len(s) - n
      /\ \A k \in 1 .. Len(s) - n : f[k] = s[n + k]
  BY <1>2
<1> HIDE DEF f
<1>4. n = 0 => f = s
  <2> SUFFICES ASSUME n = 0 PROVE f = s
    OBVIOUS
  <2>1. Len(f) = Len(s) /\ \A k \in 1 .. Len(s) : f[k] = s[k]
    BY <1>1, <1>3
  <2> QED
    BY <1>3, <2>1, SeqEqual
<1>5. n = Len(s) <=> f = <<>>
  <2>1. f = <<>> => Len(f) = 0
    BY <1>3, EmptySeq
  <2>2. f # <<>> => Len(f) \in Nat \ {0}
    BY <1>3, EmptySeq
  <2>3. Len(f) = Len(s) - n /\ Len(s) \in Nat /\ n \in Nat
    BY <1>1, <1>3
  <2> QED
    BY <2>1, <2>2, <2>3
<1>6. ASSUME n < Len(s) PROVE Head(f) = s[n + 1] /\ Tail(f) = Remaining(s, n + 1)
  <2> DEFINE g == Remaining(s, n + 1)
             t == Tail(f)
  <2>1. n + 1 \in 0 .. Len(s) /\ 1 \in 1 .. Len(s) - n /\ n \in Nat
    BY <1>1, <1>6
  <2>2. /\ g \in Seq(S) /\ Len(g) = Len(s) - (n + 1)
        /\ \A k \in 1 .. Len(s) - (n + 1) : g[k] = s[n + 1 + k]
    BY <1>2, <2>1
  <2>3. f # <<>>
    <3>1. n # Len(s)
      <4> DEFINE N == Len(s)
      <4>1. N \in Nat /\ n < N /\ n \in Nat
        BY <1>1, <1>6, <2>1
      <4> HIDE DEF N
      <4>2. n # N
        BY <4>1
      <4> QED
        BY <4>2 DEF N
    <3> QED
      BY <1>5, <3>1, Zenon
  <2>4. /\ t \in Seq(S) /\ Len(t) = Len(f) - 1
        /\ \A i \in 1 .. Len(t) : t[i] = f[i + 1]
    BY <1>3, <2>3, HeadTailProperties
  <2>9. Head(f) = f[1]
    BY <1>3, <2>3
  <2> HIDE DEF g, t
  <2>5. Head(f) = s[n + 1]
    BY <1>3, <2>1, <2>9
  <2>6. Len(t) = Len(g)
    BY <1>1, <1>3, <2>1, <2>2, <2>4
  <2>7. ASSUME NEW i \in 1 .. Len(g) PROVE t[i] = g[i]
    <3>1. /\ i \in 1 .. Len(s) - (n + 1) /\ i + 1 \in 1 .. Len(s) - n
          /\ n + (i + 1) = n + 1 + i /\ i \in 1 .. Len(t)
      BY <1>1, <2>1, <2>2, <2>6
    <3>2. t[i] = s[n + (i + 1)]
      BY <1>3, <2>4, <3>1
    <3> QED
      BY <2>2, <3>1, <3>2
  <2>8. t = g
    BY <2>2, <2>4, <2>6, <2>7, SeqEqual
  <2> QED
    BY <2>5, <2>8 DEF g, t
<1> QED
  BY <1>4, <1>5, <1>6 DEF f

\* A sequence of single words.
LEMMA Singles ==
    ASSUME NEW S, NEW s \in Seq(S) PROVE FlattenSeq([k \in 1 .. Len(s) |-> <<s[k]>>]) = s
<1> DEFINE N == Len(s)
           b == [k \in 1 .. N |-> <<s[k]>>]
           T == {m \in Nat : m <= N => UpTo(b, m) = Firsts(s, m)}
<1>1. N \in Nat /\ \A k \in 1 .. N : s[k] \in S
  BY LenProperties, ElementOfSeq
<1>2. DOMAIN b = 1 .. N /\ b = [k \in 1 .. N |-> b[k]] /\ \A k \in 1 .. N : b[k] = <<s[k]>>
  OBVIOUS
<1> HIDE DEF N, b
<1>3. \A k \in 1 .. N : b[k] \in Seq(S)
  <2> SUFFICES ASSUME NEW k \in 1 .. N PROVE <<s[k]>> \in Seq(S)
    BY <1>2
  <2>1. s[k] \in S
    BY <1>1
  <2> DEFINE e == s[k]
  <2> HIDE DEF e
  <2>2. <<e>> \in Seq(S)
    BY <2>1 DEF e
  <2> QED
    BY <2>2 DEF e
<1>4. b \in Seq(Seq(S)) /\ Len(b) = N
  BY <1>1, <1>2, <1>3, FunctionIsSeq
<1>5. 0 \in T
  <2>1. 0 \in 0 .. Len(s) /\ 0 \in 0 .. N
    BY <1>1 DEF N
  <2>2. UpTo(b, 0) = <<>>
    BY <1>4, <2>1, UpToNext
  <2>3. Firsts(s, 0) = <<>>
    BY <2>1, FirstsNext
  <2> QED
    BY <2>2, <2>3
<1>6. ASSUME NEW m \in Nat, m \in T PROVE m + 1 \in T
  <2> SUFFICES ASSUME m + 1 <= N PROVE UpTo(b, m + 1) = Firsts(s, m + 1)
    OBVIOUS
  <2>1. m \in 0 .. N /\ m < N /\ m + 1 \in 1 .. N
    BY <1>1
  <2>2. UpTo(b, m + 1) = UpTo(b, m) \o b[m + 1]
    BY <1>4, <2>1, UpToNext
  <2>3. UpTo(b, m) = Firsts(s, m)
    BY <1>1, <1>6, <2>1
  <2>4. Firsts(s, m) \in Seq(S) /\ Firsts(s, m + 1) = Append(Firsts(s, m), s[m + 1])
    BY <2>1, FirstsNext DEF N
  <2>5. b[m + 1] = <<s[m + 1]>> /\ s[m + 1] \in S
    BY <1>1, <1>2, <2>1
  <2> DEFINE f == Firsts(s, m)
             e == s[m + 1]
  <2>6. f \in Seq(S) /\ e \in S
    BY <2>4, <2>5
  <2> HIDE DEF f, e
  <2>7. f \o <<e>> = Append(f, e)
    BY <2>6, AppendIsConcat
  <2> QED
    BY <2>2, <2>3, <2>4, <2>5, <2>7 DEF f, e
<1>7. Nat \subseteq T
  <2> HIDE DEF T
  <2> QED
    BY <1>5, <1>6, SetInduction
<1>8. UpTo(b, N) = Firsts(s, N)
  BY <1>1, <1>7
<1>9. Firsts(s, N) = s
  BY <1>1, FirstsNext DEF N
<1>10. FlattenSeq(b) = s
  BY <1>4, <1>8, <1>9, UpToAll
<1> QED
  BY <1>10 DEF b, N

-----------------------------------------------------------------------------
\* The word grid: what is glued after n words. These are the invariant's parts.

\* The cells whose last word is among the first n.
Ended(p, w, n) == {c \in p : \E i \in 1 .. n : IsWordOf(w[i], c, Len(c.words))}

GluedOf(q) == [i \in 1 .. Len(q) |-> MergeCell(WordsOf(q[i]))]

\* Some printed cells, each once.
Lists(q, p, S) ==
    /\ q \in Seq(p) /\ \A i \in 1 .. Len(q), j \in 1 .. Len(q) : q[i] = q[j] => i = j
    /\ S = {q[i] : i \in 1 .. Len(q)}

\* The glued cells are those printed cells that have ended by the n-th word.
GluedTo(p, n, cs) ==
    \E q : Lists(q, p, Ended(p, Words(p), n)) /\ cs = GluedOf(q)

\* The m words before the n + 1-st are the first ones of a cell.
ReadLast(w, n, c, m) == m <= n /\ \A k \in 1 .. m : IsWordOf(w[n - m + k], c, k)

\* They are being glued, and the rest is.
Gluing(p, n, c, m, r, cs) ==
    /\ ReadLast(Words(p), n, c, m)
    /\ r = Firsts(WordsOf(c), m)
    /\ GluedTo(p, n - m, cs)

\* n words were read, r is being glued and cs are glued.
GluedSoFar(p, n, r, cs) ==
    \/ r = <<>> /\ n \in {0, Len(Words(p))} /\ GluedTo(p, n, cs)
    \/ \E c \in p : \E m \in 1 .. Len(c.words) : Gluing(p, n, c, m, r, cs)

\* The invariant.
GridInv ==
    /\ page \in Pages
    /\ \E n \in 0 .. Len(Words(page)) :
          unread = Remaining(Words(page), n) /\ GluedSoFar(page, n, run, cells)

LEMMA SameWord ==
    ASSUME NEW p \in Pages, NEW c \in p, NEW d \in p, NEW x, NEW j, NEW k,
           IsWordOf(x, c, j), IsWordOf(x, d, k)
    PROVE  c = d /\ j = k
<1>1. /\ WordsOf(c)[j] = WordsOf(d)[k]
      /\ j \in 1 .. Len(c.words) /\ k \in 1 .. Len(d.words)
  BY DEF IsWordOf
<1>2. c = d
  BY <1>1, CellsApart
<1> DEFINE L == Len(c.words)
           w == WordsOf(c)
<1>3. L \in Nat /\ \A a \in 1 .. L, b \in 1 .. L : a < b => w[a].x0 < w[b].x0
  BY CellSpread DEF Spread
<1>4. w[j] = w[k] /\ j \in 1 .. L /\ k \in 1 .. L
  BY <1>1, <1>2
<1>5. w[j].x0 \in Int
  BY <1>4, CellSpread DEF Spread
<1> HIDE DEF w, L
<1> QED
  BY <1>2, <1>3, <1>4, <1>5

LEMMA EndedNext ==
    ASSUME NEW p \in Pages, NEW w, WordsAre(w, p), NEW n \in 0 .. Len(w), NEW c \in p,
           NEW m \in Nat, m = Len(c.words), ReadLast(w, n, c, m)
    PROVE  Ended(p, w, n) = Ended(p, w, n - m) \cup {c} /\ c \notin Ended(p, w, n - m)
<1>1. m <= n /\ \A k \in 1 .. m : IsWordOf(w[n - m + k], c, k)
  BY DEF ReadLast
<1>2. m \in 1 .. m /\ n \in Nat /\ n - m \in Nat /\ n - m + m = n /\ n \in 1 .. n
  <2>1. m \in Nat \ {0}
    BY CellIs
  <2>2. n \in Nat
    BY DEF WordsAre
  <2> QED
    BY <1>1, <2>1, <2>2
<1>3. IsWordOf(w[n], c, m)
  BY <1>1, <1>2
<1>4. ASSUME NEW d \in Ended(p, w, n) PROVE d \in Ended(p, w, n - m) \cup {c}
  <2>1. PICK i \in 1 .. n : d \in p /\ IsWordOf(w[i], d, Len(d.words))
    BY <1>4 DEF Ended
  <2>2. CASE i <= n - m
    <3>1. i \in 1 .. n - m
      BY <1>2, <2>2
    <3> QED
      BY <2>1, <3>1 DEF Ended
  <2>3. CASE ~(i <= n - m)
    <3> DEFINE k == i - (n - m)
    <3>1. k \in 1 .. m /\ n - m + k = i
      <4> DEFINE a == n - m
      <4>1. i \in Nat /\ n \in Nat /\ a \in Nat /\ i <= n /\ a + m = n /\ ~(i <= a)
        BY <1>2, <2>3
      <4>2. k = i - a
        OBVIOUS
      <4> HIDE DEF a, k
      <4>3. k \in 1 .. m /\ a + k = i
        BY <4>1, <4>2
      <4> QED
        BY <4>3 DEF a
    <3> HIDE DEF k
    <3>2. IsWordOf(w[i], c, k)
      BY <1>1, <3>1
    <3> QED
      BY <2>1, <3>2, SameWord
  <2> QED
    BY <2>2, <2>3
<1>5. c \in Ended(p, w, n)
  BY <1>2, <1>3 DEF Ended
<1>6. \A d \in Ended(p, w, n - m) : d \in Ended(p, w, n)
  <2>1. \A i \in 1 .. n - m : i \in 1 .. n
    BY <1>2
  <2> QED
    BY <2>1 DEF Ended
<1>7. ASSUME c \in Ended(p, w, n - m) PROVE FALSE
  <2>1. PICK i \in 1 .. n - m : IsWordOf(w[i], c, m)
    BY <1>7 DEF Ended
  <2>2. w[i] = w[n]
    BY <1>3, <2>1 DEF IsWordOf
  <2>3. i \in 1 .. Len(w) /\ n \in 1 .. Len(w)
    BY <1>2
  <2>4. i = n
    BY <2>2, <2>3 DEF WordsAre
  <2> QED
    BY <1>2, <2>4
<1> QED
  BY <1>4, <1>5, <1>6, <1>7

LEMMA ListsNext ==
    ASSUME NEW p, NEW q, NEW S, Lists(q, p, S), NEW c \in p, c \notin S
    PROVE  /\ Lists(Append(q, c), p, S \cup {c})
           /\ GluedOf(Append(q, c)) = Append(GluedOf(q), MergeCell(WordsOf(c)))
<1> DEFINE r == Append(q, c)
           N == Len(q)
<1>1. /\ N \in Nat /\ r \in Seq(p) /\ Len(r) = N + 1
      /\ \A i \in 1 .. N : r[i] = q[i]
      /\ r[N + 1] = c
  BY AppendProperties, LenProperties DEF Lists
<1>2. /\ \A i \in 1 .. N, j \in 1 .. N : q[i] = q[j] => i = j
      /\ S = {q[i] : i \in 1 .. N} /\ \A i \in 1 .. N : q[i] \in p
  BY ElementOfSeq DEF Lists
<1> HIDE DEF r, N
<1>3. ASSUME NEW i \in 1 .. N + 1, NEW j \in 1 .. N + 1, r[i] = r[j] PROVE i = j
  <2>1. CASE i \in 1 .. N /\ j \in 1 .. N
    BY <1>1, <1>2, <1>3, <2>1
  <2>2. CASE i = N + 1 /\ j \in 1 .. N
    BY <1>1, <1>2, <1>3, <2>2
  <2>3. CASE i \in 1 .. N /\ j = N + 1
    BY <1>1, <1>2, <1>3, <2>3
  <2>4. i = N + 1 \/ i \in 1 .. N
    BY <1>1
  <2>5. j = N + 1 \/ j \in 1 .. N
    BY <1>1
  <2> QED
    BY <2>1, <2>2, <2>3, <2>4, <2>5
<1>4. S \cup {c} = {r[i] : i \in 1 .. N + 1}
  <2>1. \A i \in 1 .. N + 1 : i \in 1 .. N \/ i = N + 1
    BY <1>1
  <2>2. \A i \in 1 .. N : i \in 1 .. N + 1
    BY <1>1
  <2>3. N + 1 \in 1 .. N + 1
    BY <1>1
  <2>4. \A x \in S \cup {c} : \E i \in 1 .. N + 1 : r[i] = x
    BY <1>1, <1>2, <2>2, <2>3
  <2>5. \A i \in 1 .. N + 1 : r[i] \in S \cup {c}
    BY <1>1, <1>2, <2>1
  <2> QED
    BY <2>4, <2>5
<1>5. Lists(r, p, S \cup {c})
  BY <1>1, <1>3, <1>4 DEF Lists
<1> DEFINE g == [i \in 1 .. N + 1 |-> MergeCell(WordsOf(r[i]))]
           M == {MergeCell(WordsOf(d)) : d \in p}
<1>6. g \in Seq(M) /\ Len(g) = N + 1
  <2>1. DOMAIN g = 1 .. N + 1 /\ g = [i \in 1 .. N + 1 |-> g[i]] /\ N + 1 \in Nat
    BY <1>1
  <2>2. \A i \in 1 .. N + 1 : g[i] \in M
    <3> SUFFICES ASSUME NEW i \in 1 .. N + 1 PROVE g[i] \in M
      OBVIOUS
    <3>1. r[i] \in p
      BY <1>1, ElementOfSeq
    <3> QED
      BY <3>1
  <2> HIDE DEF g, M
  <2> QED
    BY <2>1, <2>2, FunctionIsSeq
<1>7. N \in 0 .. Len(g) /\ N < Len(g)
  <2> HIDE DEF g
  <2> QED
    BY <1>1, <1>6
<1>8. Firsts(g, N + 1) = Append(Firsts(g, N), g[N + 1])
  <2> HIDE DEF g, M
  <2> QED
    BY <1>6, <1>7, FirstsNext
<1>9. Firsts(g, N) = GluedOf(q)
  <2>1. \A i \in 1 .. N : i \in 1 .. N + 1
    BY <1>1
  <2>2. \A i \in 1 .. N : g[i] = MergeCell(WordsOf(q[i]))
    BY <1>1, <2>1
  <2> HIDE DEF g
  <2> QED
    BY <2>2 DEF Firsts, GluedOf, N
<1>10. Firsts(g, N + 1) = GluedOf(r)
  <2>1. Firsts(g, N + 1) = [i \in 1 .. N + 1 |-> MergeCell(WordsOf(r[i]))]
    BY DEF Firsts
  <2> QED
    BY <1>1, <2>1 DEF GluedOf
<1>11. g[N + 1] = MergeCell(WordsOf(c))
  <2>1. N + 1 \in 1 .. N + 1
    BY <1>1
  <2> QED
    BY <1>1, <2>1
<1> HIDE DEF g
<1> QED
  BY <1>5, <1>8, <1>9, <1>10, <1>11 DEF r

-----------------------------------------------------------------------------
\* The word grid: gluing the next word, or the last cell, keeps the invariant.

LEMMA WordsOfIs ==
    ASSUME NEW p \in Pages, NEW c \in p
    PROVE  WordsOf(c) \in Seq(WordsIn(p)) /\ Len(WordsOf(c)) = Len(c.words)
<1> DEFINE f == WordsOf(c)
           L == Len(c.words)
<1>1. L \in Nat /\ DOMAIN c.words = 1 .. L
  BY CellIs
<1>2. DOMAIN f = 1 .. L /\ f = [k \in 1 .. L |-> f[k]]
  BY <1>1 DEF WordsOf
<1>3. \A k \in 1 .. L : f[k] \in WordsIn(p)
  BY WordsInAre
<1> HIDE DEF f, L
<1>4. f \in Seq(WordsIn(p)) /\ Len(f) = L
  BY <1>1, <1>2, <1>3, FunctionIsSeq
<1> QED
  BY <1>4 DEF f, L

LEMMA NothingGlued == ASSUME NEW p \in Pages PROVE GluedTo(p, 0, <<>>)
<1> DEFINE g == GluedOf(<<>>)
<1>1. Len(<<>>) = 0 /\ 1 .. 0 = {} /\ <<>> \in Seq(p) /\ 0 \in Nat
  OBVIOUS
<1>2. DOMAIN g = 1 .. 0 /\ g = [i \in 1 .. 0 |-> g[i]] /\ \A i \in 1 .. 0 : g[i] \in {}
  BY <1>1 DEF GluedOf
<1> HIDE DEF g
<1>3. g \in Seq({}) /\ Len(g) = 0
  BY <1>1, <1>2, FunctionIsSeq
<1>4. g = <<>>
  BY <1>3, EmptySeq
<1>5. Ended(p, Words(p), 0) = {}
  BY <1>1 DEF Ended
<1>6. Lists(<<>>, p, Ended(p, Words(p), 0))
  BY <1>1, <1>5 DEF Lists
<1> QED
  BY <1>4, <1>6 DEF GluedTo, g

LEMMA GridInitially == GridInit => GridInv
<1> SUFFICES ASSUME GridInit PROVE GridInv
  OBVIOUS
<1> DEFINE p == page
           w == Words(p)
<1>1. page \in Pages /\ unread = w /\ run = <<>> /\ cells = <<>>
  BY DEF GridInit
<1>2. WordsAre(w, p)
  BY <1>1, WordsInOrder
<1>3. 0 \in 0 .. Len(w) /\ w \in Seq(WordsIn(p))
  BY <1>2 DEF WordsAre
<1>4. unread = Remaining(w, 0)
  <2> HIDE DEF w, p
  <2> QED
    BY <1>1, <1>3, RemainingNext
<1>5. GluedTo(p, 0, cells)
  BY <1>1, NothingGlued
<1>6. GluedSoFar(p, 0, run, cells)
  BY <1>1, <1>5 DEF GluedSoFar
<1> QED
  BY <1>1, <1>3, <1>4, <1>6 DEF GridInv

\* A cell that is complete is glued.
LEMMA CellGlued ==
    ASSUME NEW p \in Pages, NEW n \in Nat, n <= Len(Words(p)), NEW c \in p, NEW r, NEW cs,
           Gluing(p, n, c, Len(c.words), r, cs)
    PROVE  GluedTo(p, n, Append(cs, MergeCell(r)))
<1> DEFINE w == Words(p)
           m == Len(c.words)
           s == WordsOf(c)
<1>1. WordsAre(w, p) /\ m \in Nat
  BY WordsInOrder, CellIs
<1>2. r = Firsts(s, m) /\ ReadLast(w, n, c, m)
  BY DEF Gluing
<1>3. r = s
  <2>1. s \in Seq(WordsIn(p)) /\ Len(s) = m /\ m \in 0 .. m
    BY <1>1, WordsOfIs
  <2> HIDE DEF s, m
  <2> QED
    BY <1>2, <2>1, FirstsNext
<1>4. PICK q : Lists(q, p, Ended(p, w, n - m)) /\ cs = GluedOf(q)
  BY DEF Gluing, GluedTo
<1>5. Ended(p, w, n) = Ended(p, w, n - m) \cup {c} /\ c \notin Ended(p, w, n - m)
  <2>1. n \in 0 .. Len(w)
    BY <1>1 DEF WordsAre
  <2>2. m = Len(c.words)
    OBVIOUS
  <2> HIDE DEF w, m
  <2> QED
    BY <1>1, <1>2, <2>1, <2>2, EndedNext
<1>6. /\ Lists(Append(q, c), p, Ended(p, w, n))
      /\ GluedOf(Append(q, c)) = Append(GluedOf(q), MergeCell(WordsOf(c)))
  <2> DEFINE S == Ended(p, w, n - m)
  <2>1. Lists(q, p, S) /\ c \notin S /\ Ended(p, w, n) = S \cup {c}
    BY <1>4, <1>5
  <2> HIDE DEF S, w
  <2>2. /\ Lists(Append(q, c), p, S \cup {c})
        /\ GluedOf(Append(q, c)) = Append(GluedOf(q), MergeCell(WordsOf(c)))
    BY <2>1, ListsNext
  <2> QED
    BY <2>1, <2>2
<1>7. Append(cs, MergeCell(r)) = GluedOf(Append(q, c))
  BY <1>3, <1>4, <1>6
<1> QED
  BY <1>6, <1>7 DEF GluedTo

\* A word that begins a cell.
LEMMA CellBegun ==
    ASSUME NEW p \in Pages, NEW n \in Nat, NEW d \in p, NEW cs,
           IsWordOf(Words(p)[n + 1], d, 1), GluedTo(p, n, cs)
    PROVE  \E e \in p : \E l \in 1 .. Len(e.words) :
              Gluing(p, n + 1, e, l, <<Words(p)[n + 1]>>, cs)
<1> DEFINE s == WordsOf(d)
           w == Words(p)
           L == Len(d.words)
<1>1. s \in Seq(WordsIn(p)) /\ Len(s) = L /\ L \in Nat
  BY WordsOfIs, CellIs
<1>2. s[1] = w[n + 1] /\ 1 \in 1 .. L
  BY DEF IsWordOf
<1>3. <<w[n + 1]>> = Firsts(s, 1)
  <2> DEFINE r == Firsts(s, 1)
  <2> HIDE DEF s, L
  <2>1. 1 \in 0 .. Len(s)
    BY <1>1, <1>2
  <2>2. r \in Seq(WordsIn(p)) /\ Len(r) = 1 /\ \A k \in 1 .. 1 : r[k] = s[k]
    BY <1>1, <2>1, FirstsNext
  <2>3. r[1] = s[1]
    BY <2>2
  <2> HIDE DEF r
  <2>4. r = <<r[1]>>
    BY <2>2
  <2> QED
    BY <1>2, <2>3, <2>4 DEF r
<1>4. n + 1 - 1 = n /\ 1 <= n + 1 /\ \A k \in 1 .. 1 : k = 1
  OBVIOUS
<1> HIDE DEF s, w
<1>5. \A k \in 1 .. 1 : IsWordOf(w[n + 1 - 1 + k], d, k)
  BY <1>4 DEF w
<1>6. GluedTo(p, n + 1 - 1, cs)
  BY <1>4
<1>7. Gluing(p, n + 1, d, 1, <<w[n + 1]>>, cs)
  BY <1>3, <1>4, <1>5, <1>6 DEF Gluing, ReadLast, w, s
<1> QED
  BY <1>2, <1>7 DEF w

\* The words read last are a cell's, and the next one goes on with it or begins a cell.
LEMMA CellGoesOn ==
    ASSUME NEW p \in Pages, NEW n \in Nat, n < Len(Words(p)), NEW c \in p,
           NEW m \in 1 .. Len(c.words), NEW r, NEW cs, Gluing(p, n, c, m, r, cs)
    PROVE  /\ r # <<>>
           /\ GoesOn(r, Words(p)[n + 1]) =>
                 Gluing(p, n + 1, c, m + 1, Append(r, Words(p)[n + 1]), cs)
                 /\ m + 1 \in 1 .. Len(c.words)
           /\ ~GoesOn(r, Words(p)[n + 1]) =>
                 /\ m = Len(c.words)
                 /\ \E d \in p : IsWordOf(Words(p)[n + 1], d, 1)
<1> DEFINE s == WordsOf(c)
           L == Len(c.words)
           w == Words(p)
           N == Len(w)
           x == w[n + 1]
<1>1. WordsAre(w, p) /\ N \in Nat /\ n < N
  BY WordsInOrder DEF WordsAre
<1>2. s \in Seq(WordsIn(p)) /\ Len(s) = L /\ L \in Nat /\ m \in 1 .. L
  BY WordsOfIs, CellIs
<1>3. m <= n /\ r = Firsts(s, m) /\ \A k \in 1 .. m : IsWordOf(w[n - m + k], c, k)
  BY DEF Gluing, ReadLast
<1>4. GluedTo(p, n - m, cs)
  BY DEF Gluing
<1>5. /\ m \in Nat /\ m \in 0 .. L /\ m \in 1 .. m /\ m # 0 /\ (m < L \/ m = L)
      /\ n \in 1 .. N /\ n \in 1 .. N - 1 /\ n \in 0 .. N - 1 /\ n # 0 /\ n - m + m = n
  <2> HIDE DEF L, N, w
  <2> QED
    BY <1>1, <1>2, <1>3
<1>6. IsWordOf(w[n], c, m) /\ s[m] = w[n]
  <2> HIDE DEF w
  <2> QED
    BY <1>3, <1>5 DEF IsWordOf
<1>7. r # <<>> /\ Last(r) = s[m] /\ (m < L => Append(r, s[m + 1]) = Firsts(s, m + 1))
  <2> HIDE DEF s, L
  <2>1. m \in 0 .. Len(s) /\ m \in 1 .. m /\ m # 0 /\ r = Firsts(s, m)
    BY <1>2, <1>3, <1>5
  <2>2. r # <<>> /\ Len(r) = m /\ r[m] = s[m]
    BY <1>2, <2>1, FirstsNext
  <2>3. m < L => Append(r, s[m + 1]) = Firsts(s, m + 1)
    BY <1>2, <2>1, FirstsNext
  <2>4. Last(r) = s[m]
    BY <2>2 DEF Last
  <2> QED
    BY <2>2, <2>3, <2>4
<1>8. CASE m < L
  <2>1. m + 1 \in 1 .. L
    <3> HIDE DEF L
    <3> QED
      BY <1>5, <1>8, <1>2
  <2>2. IsWordOf(x, c, m + 1)
    <3>1. m + 1 \in 1 .. Len(c.words) /\ n \in 1 .. Len(w)
      BY <1>5, <2>1
    <3> HIDE DEF w
    <3> QED
      BY <1>1, <1>6, <3>1, NextWord DEF x
  <2>3. x = s[m + 1]
    BY <2>2 DEF IsWordOf
  <2>4. GoesOn(r, x)
    <3>1. s[m].line = s[m + 1].line /\ s[m + 1].x0 - s[m].x1 = WordGap
      <4>1. Spread(c)
        BY CellSpread
      <4> QED
        BY <2>1, <4>1 DEF Spread
    <3>2. WordGap <= Gutter
      BY Widths
    <3> HIDE DEF s, x
    <3> QED
      BY <1>7, <2>3, <3>1, <3>2 DEF GoesOn
  <2>5. n + 1 - (m + 1) = n - m /\ m + 1 <= n + 1
    BY <1>3, <1>5
  <2>6. ASSUME NEW k \in 1 .. m + 1 PROVE IsWordOf(w[n + 1 - (m + 1) + k], c, k)
    <3> HIDE DEF w
    <3>1. CASE k = m + 1
      <4>1. n + 1 - (m + 1) + k = n + 1
        BY <1>5, <3>1
      <4> QED
        BY <2>2, <3>1, <4>1 DEF x
    <3>2. CASE k # m + 1
      <4>1. k \in 1 .. m
        BY <1>5, <3>2
      <4> QED
        BY <1>3, <2>5, <4>1
    <3> QED
      BY <3>1, <3>2
  <2>7. GluedTo(p, n + 1 - (m + 1), cs)
    BY <1>4, <2>5
  <2>8. Append(r, x) = Firsts(s, m + 1)
    BY <1>7, <1>8, <2>3
  <2>9. Gluing(p, n + 1, c, m + 1, Append(r, x), cs)
    <3> HIDE DEF x
    <3> QED
      BY <2>5, <2>6, <2>7, <2>8 DEF Gluing, ReadLast
  <2> QED
    BY <1>7, <2>1, <2>4, <2>9
<1>9. CASE m = L
  <2>1. IsWordOf(w[n], c, Len(c.words))
    BY <1>6, <1>9
  <2>2. PICK d \in p : 1 \in 1 .. Len(d.words) /\ IsWordOf(x, d, 1)
    <3>1. n \in 0 .. Len(w) - 1
      BY <1>5
    <3> HIDE DEF w
    <3> QED
      BY <1>1, <2>1, <3>1, FirstWord DEF x
  <2>3. ~(w[n].line = x.line /\ x.x0 - w[n].x1 <= Gutter)
    <3>1. n \in 1 .. Len(w) - 1
      BY <1>5
    <3> HIDE DEF w
    <3> QED
      BY <1>1, <2>1, <2>2, <3>1, GapAfter DEF x
  <2>4. ~GoesOn(r, x)
    <3> HIDE DEF s, x, w
    <3> QED
      BY <1>6, <1>7, <2>3 DEF GoesOn
  <2> QED
    BY <1>7, <1>9, <2>2, <2>4
<1> QED
  BY <1>5, <1>8, <1>9

\* The next word is read.
LEMMA WordGlued ==
    ASSUME NEW p \in Pages, NEW n \in Nat, n < Len(Words(p)), NEW r, NEW cs,
           GluedSoFar(p, n, r, cs), NEW x, x = Words(p)[n + 1]
    PROVE  /\ GoesOn(r, x) => GluedSoFar(p, n + 1, Append(r, x), cs)
           /\ ~GoesOn(r, x) =>
                 GluedSoFar(p, n + 1, <<x>>,
                            IF r = <<>> THEN cs ELSE Append(cs, MergeCell(r)))
<1> DEFINE w == Words(p)
           N == Len(w)
<1>1. WordsAre(w, p) /\ N \in Nat /\ n < N
  BY WordsInOrder DEF WordsAre
<1>2. ASSUME NEW c \in p, NEW m \in 1 .. Len(c.words), Gluing(p, n, c, m, r, cs)
      PROVE  /\ GoesOn(r, x) => GluedSoFar(p, n + 1, Append(r, x), cs)
             /\ ~GoesOn(r, x) => GluedSoFar(p, n + 1, <<x>>, Append(cs, MergeCell(r)))
             /\ r # <<>>
  <2>1. /\ r # <<>>
        /\ GoesOn(r, x) => /\ Gluing(p, n + 1, c, m + 1, Append(r, x), cs)
                           /\ m + 1 \in 1 .. Len(c.words)
        /\ ~GoesOn(r, x) => m = Len(c.words) /\ \E d \in p : IsWordOf(x, d, 1)
    BY <1>2, CellGoesOn
  <2>2. GoesOn(r, x) => GluedSoFar(p, n + 1, Append(r, x), cs)
    BY <2>1 DEF GluedSoFar
  <2>3. ASSUME ~GoesOn(r, x) PROVE GluedSoFar(p, n + 1, <<x>>, Append(cs, MergeCell(r)))
    <3> DEFINE new == Append(cs, MergeCell(r))
    <3>1. Gluing(p, n, c, Len(c.words), r, cs) /\ n <= N
      BY <1>1, <1>2, <2>1, <2>3
    <3>2. GluedTo(p, n, new)
      BY <3>1, CellGlued
    <3>3. PICK d \in p : IsWordOf(Words(p)[n + 1], d, 1)
      BY <2>1, <2>3
    <3> HIDE DEF new
    <3>4. \E e \in p : \E l \in 1 .. Len(e.words) : Gluing(p, n + 1, e, l, <<x>>, new)
      BY <3>2, <3>3, CellBegun
    <3>5. GluedSoFar(p, n + 1, <<x>>, new)
      BY <3>4 DEF GluedSoFar
    <3> QED
      BY <3>5 DEF new
  <2> QED
    BY <2>1, <2>2, <2>3
<1>3. CASE r = <<>> /\ n \in {0, N} /\ GluedTo(p, n, cs)
  <2>1. n = 0
    <3> HIDE DEF N
    <3> QED
      BY <1>1, <1>3
  <2>2. PICK d \in p : IsWordOf(w[n + 1], d, 1)
    <3>1. n \in 0 .. Len(w) - 1
      BY <1>1
    <3> HIDE DEF w
    <3> QED
      BY <1>1, <2>1, <3>1, FirstWord
  <2>3. \E e \in p : \E l \in 1 .. Len(e.words) : Gluing(p, n + 1, e, l, <<x>>, cs)
    BY <1>3, <2>2, CellBegun
  <2>4. ~GoesOn(r, x)
    BY <1>3 DEF GoesOn
  <2> QED
    BY <1>3, <2>3, <2>4 DEF GluedSoFar
<1> QED
  BY <1>2, <1>3 DEF GluedSoFar

\* No word is left.
LEMMA LastGlued ==
    ASSUME NEW p \in Pages, NEW n \in Nat, n = Len(Words(p)), NEW r, NEW cs,
           GluedSoFar(p, n, r, cs), r # <<>>
    PROVE  GluedSoFar(p, n, <<>>, Append(cs, MergeCell(r)))
<1> DEFINE w == Words(p)
<1>1. PICK c \in p : \E m \in 1 .. Len(c.words) : Gluing(p, n, c, m, r, cs)
  BY DEF GluedSoFar
<1>2. PICK m \in 1 .. Len(c.words) : Gluing(p, n, c, m, r, cs)
  BY <1>1
<1> DEFINE L == Len(c.words)
<1>3. L \in Nat /\ m \in Nat /\ m \in 1 .. m /\ m \in 1 .. L
  BY CellIs
<1>4. ASSUME m # L PROVE FALSE
  <2>1. m <= n /\ \A k \in 1 .. m : IsWordOf(w[n - m + k], c, k)
    BY <1>2 DEF Gluing, ReadLast
  <2>2. n - m + m = n /\ n \in 1 .. n
    BY <1>3, <2>1
  <2>3. IsWordOf(w[n], c, m)
    <3> HIDE DEF w
    <3> QED
      BY <1>3, <2>1, <2>2
  <2>4. m + 1 \in 1 .. L
    <3> HIDE DEF L
    <3> QED
      BY <1>3, <1>4
  <2>5. n \in 1 .. Len(w) /\ m + 1 \in 1 .. Len(c.words) /\ WordsAre(w, p)
    BY <2>2, <2>4, WordsInOrder
  <2>6. n + 1 \in 1 .. Len(w) /\ Len(w) = n
    <3> HIDE DEF w
    <3> QED
      BY <2>3, <2>5, NextWord DEF w
  <2> HIDE DEF w
  <2> QED
    BY <2>6
<1>5. GluedTo(p, n, Append(cs, MergeCell(r)))
  BY <1>2, <1>4, CellGlued
<1> QED
  BY <1>5 DEF GluedSoFar

LEMMA GridInductive == GridInv /\ [GridNext]_gridVars => GridInv'
<1> SUFFICES ASSUME GridInv, [GridNext]_gridVars PROVE GridInv'
  OBVIOUS
<1> DEFINE w == Words(page)
           N == Len(w)
<1>1. page \in Pages
  BY DEF GridInv
<1>2. PICK n \in 0 .. N : unread = Remaining(w, n) /\ GluedSoFar(page, n, run, cells)
  BY DEF GridInv
<1>3. w \in Seq(WordsIn(page)) /\ n \in 0 .. Len(w) /\ N = Len(w) /\ N \in Nat /\ n \in Nat
  BY <1>1, WordsInOrder DEF WordsAre
<1>4. CASE GlueWord
  <2>1. page' = page /\ unread # <<>> /\ unread' = Tail(unread)
    BY <1>4 DEF GlueWord
  <2>2. n < N /\ Head(unread) = w[n + 1] /\ unread' = Remaining(w, n + 1) /\ n + 1 \in 0 .. N
    <3> HIDE DEF w, N
    <3>1. n # N
      BY <1>2, <1>3, <2>1, RemainingNext
    <3>2. n < N /\ n + 1 \in 0 .. N
      BY <1>3, <3>1
    <3> QED
      BY <1>2, <1>3, <2>1, <3>2, RemainingNext
  <2> DEFINE x == Head(unread)
  <2>3. /\ GoesOn(run, x) => GluedSoFar(page, n + 1, Append(run, x), cells)
        /\ ~GoesOn(run, x) =>
              GluedSoFar(page, n + 1, <<x>>,
                         IF run = <<>> THEN cells ELSE Append(cells, MergeCell(run)))
    <3> HIDE DEF x
    <3> QED
      BY <1>1, <1>2, <1>3, <2>2, WordGlued DEF x
  <2>4. GluedSoFar(page, n + 1, run', cells')
    BY <1>4, <2>3 DEF GlueWord
  <2> HIDE DEF w, N
  <2>5. /\ page' \in Pages /\ n + 1 \in 0 .. Len(Words(page'))
        /\ unread' = Remaining(Words(page'), n + 1)
        /\ GluedSoFar(page', n + 1, run', cells')
    BY <1>1, <2>1, <2>2, <2>4 DEF w, N
  <2> QED
    BY <2>5 DEF GridInv
<1>5. CASE LastCell
  <2>1. /\ page' = page /\ unread' = unread /\ run' = <<>> /\ run # <<>> /\ unread = <<>>
        /\ cells' = Append(cells, MergeCell(run))
    BY <1>5 DEF LastCell
  <2>2. n = N
    <3> HIDE DEF w, N
    <3> QED
      BY <1>2, <1>3, <2>1, RemainingNext
  <2>3. GluedSoFar(page, n, run', cells')
    BY <1>1, <1>2, <1>3, <2>1, <2>2, LastGlued
  <2>4. page' \in Pages /\ n \in 0 .. Len(Words(page')) /\ unread' = Remaining(Words(page'), n)
        /\ GluedSoFar(page', n, run', cells')
    BY <1>1, <1>2, <2>1, <2>3
  <2> QED
    BY <2>4 DEF GridInv
<1>6. CASE UNCHANGED gridVars
  BY <1>6 DEF gridVars, GridInv
<1> QED
  BY <1>4, <1>5, <1>6 DEF GridNext

-----------------------------------------------------------------------------
\* The word grid: a cell is glued as it was printed, and a row of one cell reads as
\* that cell.

LEMMA OneText ==
    ASSUME NEW S, NEW t \in Seq(S), NEW b, DOMAIN b = 1 .. 1, b = [k \in 1 .. 1 |-> b[k]],
           b[1] = t
    PROVE  FlattenSeq(b) = t
<1>1. 1 \in Nat /\ \A k \in 1 .. 1 : k = 1
  OBVIOUS
<1>2. \A k \in 1 .. 1 : b[k] \in Seq(S)
  BY <1>1
<1>3. b \in Seq(Seq(S)) /\ Len(b) = 1
  BY <1>1, <1>2, FunctionIsSeq
<1>4. PICK f : Flattens(f, b, Len(b)) /\ FlattenSeq(b) = f[Len(b)]
  <2>1. Len(b) # 0
    BY <1>3
  <2> QED
    BY <1>3, <2>1, FlattenSeqIs
<1>5. 1 \in 1 .. 1
  OBVIOUS
<1>6. f[1] = b[1]
  BY <1>3, <1>4, <1>5, FlattensAt
<1> QED
  BY <1>3, <1>4, <1>6

LEMMA TopIs ==
    ASSUME NEW p \in Pages, NEW c \in p PROVE Top(c) \in Int
<1> DEFINE S == ToSet(c.tops)
<1>1. IsCell(c) /\ Len(c.words) \in Nat \ {0}
  BY CellIs
<1>2. c.tops \in Seq(Int) /\ Len(c.tops) \in Nat \ {0}
  BY <1>1 DEF IsCell
<1> DEFINE t == c.tops
           N == Len(t)
<1>3. t = [k \in 1 .. N |-> t[k]] /\ DOMAIN t = 1 .. N /\ \A k \in 1 .. N : t[k] \in Int
  BY <1>2, LenProperties, ElementOfSeq
<1>4. S = {t[k] : k \in 1 .. N}
  BY <1>3 DEF ToSet
<1>5. IsFiniteSet(1 .. N) /\ 1 \in 1 .. N
  <2>1. N \in Nat \ {0}
    BY <1>2
  <2> HIDE DEF N
  <2> QED
    BY <2>1, FS_Interval
<1>6. S \in SUBSET Int /\ S # {}
  <2> HIDE DEF t, N
  <2> QED
    BY <1>3, <1>4, <1>5
<1>7. IsFiniteSet(S)
  <2> HIDE DEF t, N, S
  <2> QED
    BY <1>3, <1>4, <1>5, ImageIsFinite
<1> HIDE DEF S
<1>8. PICK m \in S : \A y \in S : m <= y
  BY <1>6, <1>7, LeastExists
<1>9. Min(S) = m
  BY <1>6, <1>8, MinIs
<1> QED
  BY <1>6, <1>8, <1>9 DEF Top, S

\* A cell is glued as it was printed.
LEMMA MergedIs ==
    ASSUME NEW p \in Pages, NEW c \in p
    PROVE  LET g == MergeCell(WordsOf(c)) IN
           g.text = c.words /\ g.x0 = c.x /\ g.top = Top(c)
<1> DEFINE w == WordsOf(c)
           L == Len(c.words)
           T == [k \in 1 .. L |-> <<c.words[k]>>]
<1>1. IsCell(c) /\ L \in Nat \ {0} /\ DOMAIN c.words = 1 .. L
  BY CellIs
<1>2. DOMAIN w = 1 .. L
  BY <1>1 DEF WordsOf
<1>3. \A k \in 1 .. L : w[k].text = <<c.words[k]>> /\ w[k].top = c.tops[k]
  BY <1>1 DEF WordsOf
<1>4. FlattenSeq([k \in DOMAIN w |-> w[k].text]) = c.words
  <2>1. [k \in DOMAIN w |-> w[k].text] = [k \in 1 .. L |-> <<c.words[k]>>]
    <3> HIDE DEF w
    <3> QED
      BY <1>2, <1>3
  <2>2. c.words \in Seq(PageWords)
    BY <1>1 DEF IsCell
  <2>3. FlattenSeq([k \in 1 .. L |-> <<c.words[k]>>]) = c.words
    BY <2>2, Singles
  <2> HIDE DEF w
  <2> QED
    BY <2>1, <2>3
<1>5. Min({w[k].x0 : k \in DOMAIN w}) = c.x
  <2> DEFINE S == {w[k].x0 : k \in 1 .. L}
  <2>1. /\ \A k \in 1 .. L : w[k].x0 \in Int /\ c.x <= w[k].x0
        /\ w[1].x0 = c.x /\ c.x \in Int /\ 1 \in 1 .. L
    <3>1. Spread(c)
      BY CellSpread
    <3> QED
      BY <3>1, <1>1 DEF Spread
  <2>2. c.x \in S /\ S \in SUBSET Int /\ \A y \in S : c.x <= y
    <3> HIDE DEF w, L
    <3> QED
      BY <2>1
  <2> HIDE DEF S
  <2>3. Min(S) = c.x
    BY <2>2, MinIs
  <2> QED
    BY <1>2, <2>3 DEF S
<1>6. Min({w[k].top : k \in DOMAIN w}) = Top(c)
  <2>1. DOMAIN c.tops = 1 .. L
    <3>1. c.tops \in Seq(Int) /\ Len(c.tops) = L
      BY <1>1 DEF IsCell
    <3> QED
      BY <3>1, LenProperties
  <2>2. {w[k].top : k \in DOMAIN w} = {c.tops[k] : k \in DOMAIN c.tops}
    <3> HIDE DEF w
    <3> QED
      BY <1>2, <1>3, <2>1
  <2> QED
    BY <2>2, Zenon DEF Top, ToSet
<1> HIDE DEF w
<1> QED
  BY <1>4, <1>5, <1>6 DEF MergeCell, w

\* The tops of some glued cells.
Tops(G, column) == {G[i].top : i \in column}

IsUppermost(G, column, i) == \A k \in column \ {i} : G[k].top > G[i].top + RowTol

\* A row of one cell.
LEMMA RowOfOne ==
    ASSUME NEW G, NEW column, NEW i \in column, G[i].text \in Seq(PageWords),
           \A k \in column : G[k].top \in Int, G[i].x0 \in Int, IsUppermost(G, column, i)
    PROVE  /\ Min(Tops(G, column)) = G[i].top
           /\ NextRow(G, column) = G[i].text
<1> DEFINE U == Tops(G, column)
           t == G[i].top
<1>1. RowTol = 3 /\ t \in Int /\ \A k \in column \ {i} : G[k].top > t + RowTol
  BY DEF RowTol, IsUppermost
<1>2. \A k \in column : t <= G[k].top
  <2> SUFFICES ASSUME NEW k \in column PROVE t <= G[k].top
    OBVIOUS
  <2>1. CASE k = i
    BY <1>1, <2>1
  <2>2. CASE k # i
    <3>1. G[k].top > t + 3 /\ G[k].top \in Int
      BY <1>1, <2>2
    <3> QED
      BY <1>1, <3>1
  <2> QED
    BY <2>1, <2>2
<1>3. U \in SUBSET Int /\ t \in U /\ \A y \in U : t <= y
  BY <1>2 DEF Tops
<1>4. Min(U) = t
  <2> HIDE DEF U, t
  <2> QED
    BY <1>3, MinIs
<1>5. {k \in column : Near(G[k].top, t, RowTol)} = {i}
  <2>1. Near(t, t, RowTol)
    BY <1>1 DEF Near
  <2>2. ASSUME NEW k \in column, k # i PROVE ~Near(G[k].top, t, RowTol)
    <3>1. G[k].top > t + 3 /\ G[k].top \in Int
      BY <1>1, <2>2
    <3> QED
      BY <1>1, <3>1 DEF Near
  <2> QED
    BY <2>1, <2>2
<1> DEFINE row == Sorted({i}, LAMBDA j, k : G[j].x0 < G[k].x0)
<1>6. row = [k \in 1 .. 1 |-> i]
  <2>1. Cardinality({i}) = 1
    BY FS_Singleton
  <2>2. {y \in {i} : G[y].x0 < G[i].x0} = {}
    OBVIOUS
  <2>3. Cardinality({}) = 0
    BY FS_EmptySet
  <2>4. row = [k \in 1 .. Cardinality({i}) |->
                 CHOOSE x \in {i} : Cardinality({y \in {i} : G[y].x0 < G[x].x0}) = k - 1]
    BY DEF Sorted
  <2>5. \A k \in 1 .. 1 :
           (CHOOSE x \in {i} : Cardinality({y \in {i} : G[y].x0 < G[x].x0}) = k - 1) = i
    <3> DEFINE before(x) == Cardinality({y \in {i} : G[y].x0 < G[x].x0})
    <3>1. before(i) = 0
      BY <2>2, <2>3
    <3> HIDE DEF before
    <3>2. ASSUME NEW k \in 1 .. 1 PROVE (CHOOSE x \in {i} : before(x) = k - 1) = i
      <4>1. before(i) = k - 1
        BY <3>1
      <4> QED
        BY <4>1
    <3> QED
      BY <3>2 DEF before
  <2> HIDE DEF row
  <2> QED
    BY <2>1, <2>4, <2>5
<1>7. FlattenSeq([k \in DOMAIN row |-> G[row[k]].text]) = G[i].text
  <2> DEFINE b == [k \in 1 .. 1 |-> G[row[k]].text]
  <2>1. DOMAIN row = 1 .. 1 /\ row[1] = i
    <3> HIDE DEF row
    <3> QED
      BY <1>6
  <2>2. DOMAIN b = 1 .. 1 /\ b = [k \in 1 .. 1 |-> b[k]] /\ b[1] = G[i].text
    <3> HIDE DEF row
    <3> QED
      BY <2>1
  <2> HIDE DEF b
  <2>3. FlattenSeq(b) = G[i].text
    BY <2>2, OneText
  <2> HIDE DEF row
  <2> QED
    BY <2>1, <2>3 DEF b
<1>8. NextRow(G, column) = FlattenSeq([k \in DOMAIN row |-> G[row[k]].text])
  BY <1>4, <1>5 DEF NextRow, Tops
<1> QED
  BY <1>4, <1>7, <1>8

-----------------------------------------------------------------------------
\* The word grid: the row below a label, and the one below that, are found where they
\* were printed.

\* The glued cells are the printed ones.
Printed(G, q, p) ==
    /\ DOMAIN G \in SUBSET Int /\ IsFiniteSet(DOMAIN G)
    /\ \A i \in DOMAIN G : /\ q[i] \in p /\ G[i].text = q[i].words
                           /\ G[i].x0 = q[i].x /\ G[i].top = Top(q[i])
    /\ \A i \in DOMAIN G, j \in DOMAIN G : q[i] = q[j] => i = j
    /\ \A c \in p : \E i \in DOMAIN G : q[i] = c

LEMMA GluedIsPrinted ==
    ASSUME NEW p \in Pages, NEW q, Lists(q, p, p) PROVE Printed(GluedOf(q), q, p)
<1> DEFINE G == GluedOf(q)
           N == Len(q)
<1>1. /\ N \in Nat /\ \A i \in 1 .. N : q[i] \in p
      /\ \A i \in 1 .. N, j \in 1 .. N : q[i] = q[j] => i = j
      /\ p = {q[i] : i \in 1 .. N}
  BY LenProperties, ElementOfSeq DEF Lists
<1>2. DOMAIN G = 1 .. N /\ \A i \in 1 .. N : G[i] = MergeCell(WordsOf(q[i]))
  BY DEF GluedOf
<1>3. IsFiniteSet(1 .. N) /\ 1 .. N \in SUBSET Int
  BY <1>1, FS_Interval
<1>4. \A i \in 1 .. N : G[i].text = q[i].words /\ G[i].x0 = q[i].x /\ G[i].top = Top(q[i])
  <2> HIDE DEF G, N
  <2> QED
    BY <1>1, <1>2, MergedIs
<1> HIDE DEF G, N
<1>5. \A c \in p : \E i \in 1 .. N : q[i] = c
  BY <1>1
<1>6. Printed(G, q, p)
  BY <1>1, <1>2, <1>3, <1>4, <1>5 DEF Printed
<1> QED
  BY <1>6 DEF G

\* The glued cells of a set of printed ones.
PlacesOf(G, q, U) == {i \in DOMAIN G : q[i] \in U}

LEMMA PlacesTop ==
    ASSUME NEW p \in Pages, NEW q, NEW G, Printed(G, q, p), NEW U \in SUBSET p
    PROVE  /\ \A i \in PlacesOf(G, q, U) : /\ i \in DOMAIN G /\ q[i] \in U
                                           /\ G[i].top = Top(q[i]) /\ G[i].top \in Int
                                           /\ G[i].text = q[i].words /\ G[i].x0 = q[i].x
           /\ \A d \in U : \E i \in PlacesOf(G, q, U) : q[i] = d
           /\ IsFiniteSet(Tops(G, PlacesOf(G, q, U)))
<1> DEFINE P == PlacesOf(G, q, U)
           f == [i \in P |-> G[i].top]
<1>1. ASSUME NEW i \in P
      PROVE  /\ i \in DOMAIN G /\ q[i] \in U /\ G[i].top = Top(q[i]) /\ G[i].top \in Int
             /\ G[i].text = q[i].words /\ G[i].x0 = q[i].x
  BY <1>1, TopIs DEF PlacesOf, Printed
<1>2. \A d \in U : \E i \in P : q[i] = d
  BY DEF PlacesOf, Printed
<1>3. IsFiniteSet(P)
  BY FS_Subset DEF PlacesOf, Printed
<1>4. DOMAIN f = P /\ f = [i \in P |-> f[i]] /\ \A i \in P : f[i] = G[i].top
  OBVIOUS
<1>5. IsFiniteSet({G[i].top : i \in P})
  <2> HIDE DEF f, P
  <2>1. IsFiniteSet({f[i] : i \in P})
    BY <1>3, <1>4, ImageIsFinite
  <2>2. {f[i] : i \in P} = {G[i].top : i \in P}
    BY <1>4
  <2> QED
    BY <2>1, <2>2
<1> QED
  BY <1>1, <1>2, <1>5 DEF Tops

\* The nearest row is the uppermost cell.
LEMMA NearestIs ==
    ASSUME NEW p \in Pages, NEW q, NEW G, Printed(G, q, p), NEW U \in SUBSET p,
           NEW v \in U, Uppermost(v, U)
    PROVE  /\ PlacesOf(G, q, U) # {}
           /\ Min(Tops(G, PlacesOf(G, q, U))) = Top(v)
           /\ NextRow(G, PlacesOf(G, q, U)) = v.words
<1> DEFINE P == PlacesOf(G, q, U)
<1>1. PICK i \in P : q[i] = v
  BY PlacesTop
<1>2. /\ \A k \in P : G[k].top \in Int /\ G[k].top = Top(q[k]) /\ k \in DOMAIN G /\ q[k] \in U
      /\ G[i].x0 = v.x /\ G[i].text = v.words /\ G[i].top = Top(v)
  BY <1>1, PlacesTop
<1>3. IsCell(v)
  BY CellIs
<1>4. v.x \in Int /\ v.words \in Seq(PageWords)
  BY <1>3 DEF IsCell
<1>5. IsUppermost(G, P, i)
  <2> SUFFICES ASSUME NEW k \in P, k # i PROVE G[k].top > G[i].top + RowTol
    BY DEF IsUppermost
  <2>1. q[k] # v
    BY <1>1, <1>2 DEF Printed
  <2>2. Top(q[k]) > Top(v) + RowTol
    BY <1>2, <2>1 DEF Uppermost
  <2> QED
    BY <1>2, <2>2
<1> HIDE DEF P
<1>6. G[i].text \in Seq(PageWords) /\ G[i].x0 \in Int /\ \A k \in P : G[k].top \in Int
  BY <1>2, <1>4
<1>7. Min(Tops(G, P)) = G[i].top /\ NextRow(G, P) = G[i].text
  BY <1>6, <1>5, RowOfOne
<1> QED
  BY <1>1, <1>2, <1>7 DEF P

\* The nearest row is too far down.
LEMMA NearestIsFar ==
    ASSUME NEW p \in Pages, NEW q, NEW G, Printed(G, q, p), NEW U \in SUBSET p,
           PlacesOf(G, q, U) # {}, NEW t \in Int, NEW far \in Int,
           \A d \in U : ~(Top(d) - t <= far)
    PROVE  Min(Tops(G, PlacesOf(G, q, U))) - t > far
<1> DEFINE P == PlacesOf(G, q, U)
           S == Tops(G, P)
<1>1. /\ \A i \in P : q[i] \in U /\ G[i].top = Top(q[i]) /\ G[i].top \in Int
      /\ IsFiniteSet(S)
  BY PlacesTop
<1>2. S \in SUBSET Int /\ S # {}
  BY <1>1 DEF Tops
<1>3. \A s \in S : s - t > far
  <2> SUFFICES ASSUME NEW i \in P PROVE G[i].top - t > far
    BY DEF Tops
  <2>1. G[i].top \in Int /\ ~(G[i].top - t <= far)
    BY <1>1
  <2> QED
    BY <2>1
<1> HIDE DEF S
<1>4. PICK m \in S : \A y \in S : m <= y
  BY <1>1, <1>2, LeastExists
<1>5. Min(S) = m
  BY <1>2, <1>4, MinIs
<1> QED
  BY <1>3, <1>5 DEF S

\* The label is found where it was printed, and so is its column.
LEMMA LabelIs ==
    ASSUME NEW p \in Pages, NEW q, NEW G, Printed(G, q, p), NEW c \in p, c.label
    PROVE  \E l \in DOMAIN G :
              /\ {i \in DOMAIN G : G[i].text = c.words} = {l} /\ Min({l}) = l
              /\ G[l].x0 = c.x /\ G[l].top = Top(c)
              /\ Column(G, G[l]) = PlacesOf(G, q, Under(p, c))
<1>1. PICK l \in DOMAIN G : q[l] = c
  BY DEF Printed
<1>2. /\ G[l].text = c.words /\ G[l].x0 = c.x /\ G[l].top = Top(c) /\ l \in Int
      /\ \A i \in DOMAIN G : /\ q[i] \in p /\ G[i].text = q[i].words
                             /\ G[i].x0 = q[i].x /\ G[i].top = Top(q[i])
                             /\ (q[i] = q[l] => i = l)
  BY <1>1 DEF Printed
<1>3. \A d \in p \ {c} : d.words # c.words
  BY PagesAssumption
<1>4. {i \in DOMAIN G : G[i].text = c.words} = {l}
  BY <1>1, <1>2, <1>3
<1>5. Min({l}) = l
  <2>1. {l} \in SUBSET Int /\ l \in {l} /\ \A y \in {l} : l <= y
    BY <1>2
  <2> QED
    BY <2>1, MinIs
<1>6. Column(G, G[l]) = PlacesOf(G, q, Under(p, c))
  BY <1>2 DEF Column, PlacesOf, Under
<1> QED
  BY <1>2, <1>4, <1>5, <1>6

LEMMA LookedUp ==
    ASSUME NEW p \in Pages, NEW q, NEW G, Printed(G, q, p), NEW c \in p, c.label
    PROVE  LabelTextBelow(G, c.words) = c.value /\ PostortBelow(G, c.words) = c.second
<1>1. PICK l \in DOMAIN G :
         /\ {i \in DOMAIN G : G[i].text = c.words} = {l} /\ Min({l}) = l
         /\ G[l].x0 = c.x /\ G[l].top = Top(c)
         /\ Column(G, G[l]) = PlacesOf(G, q, Under(p, c))
  BY LabelIs
<1> DEFINE U == Under(p, c)
           P == PlacesOf(G, q, U)
           t == Top(c)
           nearest == Min(Tops(G, P))
<1>2. U \in SUBSET p /\ t \in Int /\ MaxValueBelow = 18 /\ 2 * MaxValueBelow = 36 /\ RowTol = 3
  BY TopIs DEF Under, MaxValueBelow, RowTol
<1>3. LabelTextBelow(G, c.words) =
        IF P = {} \/ nearest - t > MaxValueBelow THEN NoCell ELSE NextRow(G, P)
  <2>1. LabelTextBelow(G, c.words) = RowBelowInColumn(G, G[l])
    BY <1>1 DEF LabelTextBelow
  <2>2. RowBelowInColumn(G, G[l]) =
          IF P = {} \/ nearest - t > MaxValueBelow THEN NoCell ELSE NextRow(G, P)
    BY <1>1 DEF RowBelowInColumn, Tops
  <2> QED
    BY <2>1, <2>2
<1> DEFINE F == {i \in P : G[i].top > nearest + RowTol}
<1>4. PostortBelow(G, c.words) =
        IF \/ LabelTextBelow(G, c.words) = NoCell
           \/ F = {}
           \/ Min(Tops(G, F)) - t > 2 * MaxValueBelow
        THEN NoCell ELSE NextRow(G, F)
  BY <1>1 DEF PostortBelow, Tops
<1>5. LaidOut(p, c)
  BY PagesAssumption
<1>6. CASE /\ c.value = NoCell /\ c.second = NoCell
           /\ \A d \in U : ~(Top(d) - t <= MaxValueBelow)
  <2>1. P = {} \/ nearest - t > MaxValueBelow
    <3> HIDE DEF U, t
    <3> QED
      BY <1>2, <1>6, NearestIsFar
  <2> HIDE DEF P, F
  <2> QED
    BY <1>3, <1>4, <1>6, <2>1
<1>7. ASSUME NEW v \in U, c.value = v.words, Top(v) - t <= MaxValueBelow, Uppermost(v, U),
             \/ /\ c.second = NoCell
                /\ \A d \in U \ {v} : ~(Top(d) - t <= 2 * MaxValueBelow)
             \/ \E s \in U \ {v} :
                   /\ c.second = s.words /\ Top(s) - t <= 2 * MaxValueBelow
                   /\ Uppermost(s, U \ {v})
      PROVE  LabelTextBelow(G, c.words) = c.value /\ PostortBelow(G, c.words) = c.second
  <2>1. v \in p /\ Top(v) \in Int /\ v.words # NoCell
    <3>1. v \in p
      BY <1>2
    <3>2. IsCell(v)
      BY <3>1, CellIs
    <3> QED
      BY <3>1, <3>2, TopIs DEF IsCell
  <2>2. P # {} /\ nearest = Top(v) /\ NextRow(G, P) = v.words
    <3> HIDE DEF U
    <3> QED
      BY <1>2, <1>7, NearestIs
  <2>3. LabelTextBelow(G, c.words) = v.words
    <3>1. ~(nearest - t > MaxValueBelow)
      <4> HIDE DEF t, nearest
      <4> QED
        BY <1>2, <1>7, <2>1, <2>2
    <3> HIDE DEF P, nearest, t
    <3> QED
      BY <1>3, <2>2, <3>1
  <2> DEFINE W == U \ {v}
             Q == PlacesOf(G, q, W)
  <2>4. W \in SUBSET p
    BY <1>2
  <2>5. F = Q
    <3> HIDE DEF U, nearest
    <3>1. \A i \in P : /\ i \in DOMAIN G /\ q[i] \in U
                       /\ G[i].top = Top(q[i]) /\ G[i].top \in Int
      BY <1>2, PlacesTop
    <3>2. ASSUME NEW i \in P PROVE G[i].top > nearest + RowTol <=> q[i] # v
      <4>1. CASE q[i] = v
        <5>1. G[i].top = Top(v)
          BY <3>1, <4>1
        <5> QED
          BY <1>2, <2>1, <2>2, <4>1, <5>1
      <4>2. CASE q[i] # v
        <5>1. Top(q[i]) > Top(v) + RowTol
          BY <1>7, <3>1, <4>2 DEF Uppermost
        <5> QED
          BY <2>2, <3>1, <4>2, <5>1
      <4> QED
        BY <4>1, <4>2
    <3>3. Q = {i \in P : q[i] # v}
      BY DEF PlacesOf
    <3> HIDE DEF P, Q
    <3> QED
      BY <3>2, <3>3
  <2> DEFINE next == Min(Tops(G, Q))
  <2>6. PostortBelow(G, c.words) =
          IF Q = {} \/ next - t > 2 * MaxValueBelow THEN NoCell ELSE NextRow(G, Q)
    <3> HIDE DEF F, Q
    <3> QED
      BY <1>4, <2>1, <2>3, <2>5
  <2>7. CASE /\ c.second = NoCell
             /\ \A d \in U \ {v} : ~(Top(d) - t <= 2 * MaxValueBelow)
    <3>1. Q = {} \/ next - t > 2 * MaxValueBelow
      <4>1. \A d \in W : ~(Top(d) - t <= 36)
        BY <1>2, <2>7
      <4>2. ASSUME Q # {} PROVE next - t > 36
        <5> HIDE DEF W, t
        <5> QED
          BY <1>2, <2>4, <4>1, <4>2, NearestIsFar
      <4> HIDE DEF Q, next, t
      <4> QED
        BY <1>2, <4>2
    <3> HIDE DEF Q, next, t
    <3> QED
      BY <1>7, <2>3, <2>6, <2>7, <3>1
  <2>8. ASSUME NEW s \in U \ {v}, c.second = s.words, Top(s) - t <= 2 * MaxValueBelow,
               Uppermost(s, U \ {v})
        PROVE  PostortBelow(G, c.words) = c.second
    <3>1. s \in p /\ Top(s) \in Int
      BY <1>2, TopIs
    <3>2. Q # {} /\ next = Top(s) /\ NextRow(G, Q) = s.words
      <4>1. s \in W /\ Uppermost(s, W)
        BY <2>8
      <4> HIDE DEF W
      <4> QED
        BY <2>4, <4>1, NearestIs
    <3>3. ~(next - t > 2 * MaxValueBelow)
      <4> HIDE DEF t, next
      <4> QED
        BY <1>2, <2>8, <3>1, <3>2
    <3> HIDE DEF Q, next, t
    <3> QED
      BY <2>6, <2>8, <3>2, <3>3
  <2> QED
    BY <1>7, <2>3, <2>7, <2>8
<1>8. \/ /\ c.value = NoCell /\ c.second = NoCell
         /\ \A d \in U : ~(Top(d) - t <= MaxValueBelow)
      \/ \E v \in U :
            /\ c.value = v.words /\ Top(v) - t <= MaxValueBelow /\ Uppermost(v, U)
            /\ \/ /\ c.second = NoCell
                  /\ \A d \in U \ {v} : ~(Top(d) - t <= 2 * MaxValueBelow)
               \/ \E s \in U \ {v} :
                     /\ c.second = s.words /\ Top(s) - t <= 2 * MaxValueBelow
                     /\ Uppermost(s, U \ {v})
  <2> HIDE DEF U, t
  <2> QED
    BY <1>5, Zenon DEF LaidOut, U, t
<1> HIDE DEF U, t, P, F
<1> QED
  BY <1>6, <1>7, <1>8

\* At the end every printed cell is glued.
LEMMA AllGlued ==
    ASSUME NEW p \in Pages, NEW n \in 0 .. Len(Words(p)), Remaining(Words(p), n) = <<>>, NEW cs,
           GluedSoFar(p, n, <<>>, cs)
    PROVE  \E q : Lists(q, p, p) /\ cs = GluedOf(q)
<1> DEFINE w == Words(p)
           N == Len(w)
<1>1. WordsAre(w, p) /\ N \in Nat /\ w \in Seq(WordsIn(p))
  BY WordsInOrder DEF WordsAre
<1>2. n = N
  <2> HIDE DEF w
  <2> QED
    BY <1>1, RemainingNext DEF w
<1>3. ASSUME NEW c \in p, NEW m \in 1 .. Len(c.words), Gluing(p, n, c, m, <<>>, cs) PROVE FALSE
  <2> DEFINE s == WordsOf(c)
             L == Len(c.words)
  <2>1. s \in Seq(WordsIn(p)) /\ Len(s) = L /\ L \in Nat /\ m \in 1 .. L
    BY WordsOfIs, CellIs
  <2>2. <<>> = Firsts(s, m)
    BY <1>3 DEF Gluing
  <2> HIDE DEF s, L
  <2>3. m \in 0 .. Len(s) /\ m # 0
    BY <2>1
  <2> QED
    BY <2>1, <2>2, <2>3, FirstsNext
<1>4. GluedTo(p, n, cs)
  BY <1>3 DEF GluedSoFar
<1>5. Ended(p, w, n) = p
  <2> SUFFICES ASSUME NEW c \in p PROVE c \in Ended(p, w, n)
    BY DEF Ended
  <2>1. Len(c.words) \in 1 .. Len(c.words)
    BY CellIs
  <2>2. PICK i \in 1 .. Len(w) : IsWordOf(w[i], c, Len(c.words))
    BY <1>1, <2>1 DEF WordsAre
  <2> QED
    BY <1>2, <2>2 DEF Ended
<1> QED
  BY <1>4, <1>5 DEF GluedTo

LEMMA GridIsRight == GridInv => ValueIsBelow
<1> SUFFICES ASSUME GridInv, unread = <<>>, run = <<>>, NEW c \in page, c.label
             PROVE  /\ LabelTextBelow(cells, c.words) = c.value
                    /\ PostortBelow(cells, c.words) = c.second
  BY DEF ValueIsBelow
<1>1. page \in Pages
  BY DEF GridInv
<1>2. PICK n \in 0 .. Len(Words(page)) :
         unread = Remaining(Words(page), n) /\ GluedSoFar(page, n, run, cells)
  BY DEF GridInv
<1>3. Remaining(Words(page), n) = <<>> /\ GluedSoFar(page, n, <<>>, cells)
  BY <1>2
<1>4. PICK q : Lists(q, page, page) /\ cells = GluedOf(q)
  BY <1>1, <1>3, AllGlued
<1>5. Printed(cells, q, page)
  BY <1>1, <1>4, GluedIsPrinted
<1> QED
  BY <1>1, <1>5, LookedUp

\* Of any page that is printed as the forms are (_reassemble_cells,
\* _row_below_in_column, _kommun_uc_postort_from_addr): every label has the value that
\* was printed below it, whole and on its own, an empty one has none, and so it is with
\* the row below the value.
THEOREM GridTheorem == GridSpec => []ValueIsBelow
<1>1. GridInit => GridInv
  BY GridInitially
<1>2. GridInv /\ [GridNext]_gridVars => GridInv'
  BY GridInductive
<1>3. GridInv => ValueIsBelow
  BY GridIsRight
<1> QED
  BY <1>1, <1>2, <1>3, PTL DEF GridSpec
=============================================================================
